----------------------------- MODULE StripeSync -----------------------------
(***************************************************************************)
(* How one Stripe subscription is mirrored onto the rows of                *)
(* billing.models.Subscription: checkout, the Stripe webhook, the browser  *)
(* coming back from checkout, and the deletion of an organisation, all     *)
(* running at once over one PostgreSQL database (READ COMMITTED).          *)
(*                                                                         *)
(* Stripe is the environment.  It keeps, for each subscription, the        *)
(* sequence of statuses it has had; one event per change is delivered to   *)
(* the webhook, any number of times, by any worker and in any order.  The  *)
(* webhook path is outside RLSViewerMiddleware (orgs/middleware.py:13), so *)
(* each transaction.atomic() in it commits by itself and a worker may stop *)
(* between two of them.                                                    *)
(***************************************************************************)
EXTENDS Naturals, Sequences, FiniteSets

CONSTANTS
    Orgs,             \* organisations
    Subs,             \* Stripe subscriptions, one per checkout session
    Workers,          \* gunicorn workers serving the webhook and the return
    NoJob,            \* what an idle worker holds
    CodeHolders,      \* organisations whose owners have a code to redeem
    Leavers,          \* organisations whose owner may delete them
    MaxChanges,       \* bound: statuses one subscription goes through
    MaxCrashes,       \* bound: workers stopped, or calls that raise, half way
    Subscribed        \* the kinds of event the webhook endpoint is sent

ASSUME BoundsAssumption ==
    /\ MaxChanges \in Nat /\ MaxCrashes \in Nat
    /\ CodeHolders \subseteq Orgs /\ Leavers \subseteq Orgs
    /\ Subscribed \subseteq {"subscription", "session", "invoice"}

VARIABLES
    orgs,      \* organisations that exist
    free,      \* status of the organisation's local free period ("none": no row)
    clock,     \* how much of that free period is left
    session,   \* the checkout session of each subscription
    history,   \* Stripe: the statuses the subscription has had, oldest first
    rows,      \* database: status of each row carrying this provider_ref, by pk
    recorded,  \* database: StripeEvent rows
    invoices,  \* database: PaidInvoice rows
    applied,   \* events whose effect has been committed (observation only)
    acked,     \* events Stripe has had a 200 for
    worker,    \* what each worker is doing
    deleting,  \* the delete request of each organisation
    crashes

dbVars == <<rows, recorded, invoices, applied>>
vars == <<orgs, free, clock, session, history, rows, recorded, invoices,
          applied, acked, worker, deleting, crashes>>

-----------------------------------------------------------------------------
(* Statuses, sessions and events *)

\* Subscription.Status has all of Stripe's statuses, "verbatim", so the
\* fallback of the sync for one it does not know is never taken.
Managed == {"active", "trialing", "past_due"}
Ended == {"canceled", "incomplete_expired"}
Statuses == Managed \cup Ended \cup {"paused", "unpaid", "incomplete"}

\* The moves Stripe makes on a subscription.
StripeMoves ==
    {<<"incomplete", "active">>, <<"incomplete", "incomplete_expired">>,
     <<"trialing", "active">>, <<"trialing", "past_due">>,
     <<"trialing", "paused">>, <<"paused", "active">>,
     <<"active", "past_due">>, <<"past_due", "active">>,
     <<"past_due", "unpaid">>, <<"unpaid", "active">>}
        \cup ((Statuses \ Ended) \X {"canceled"})

EventKinds == {"subscription", "session", "invoice"}
Events == [kind : EventKinds, sub : Subs, ver : Nat]
Returns == [kind : {"return"}, sub : Subs, ver : {0}]

Owner(s) == session[s].org
Created(s) == history[s] # <<>>
Current(s) == history[s][Len(history[s])]
OwnedBy(o) == {s \in Subs : session[s].state # "none" /\ Owner(s) = o}

\* Every change is an event; completing the checkout is one too, and so is
\* the invoice paid whenever the subscription becomes active.
Emitted ==
    {e \in [kind : Subscribed, sub : Subs, ver : 1..(MaxChanges + 1)] :
        /\ e.ver <= Len(history[e.sub])
        /\ e.kind = "session" => e.ver = 1
        /\ e.kind = "invoice" => history[e.sub][e.ver] = "active"}

-----------------------------------------------------------------------------
(* Types and initial state *)

FreeStatuses == {"none", "trialing", "canceled"}
Clocks == {"running", "ending", "over"}
Sessions == [state : {"none", "open", "complete"}, org : Orgs, trial : BOOLEAN]
WorkerStates ==
    [pc : {"idle"}, job : {NoJob}, status : {"none"}]
        \cup [pc : {"fetching", "invoicing"}, job : Events, status : {"none"}]
        \cup [pc : {"syncing", "creating"}, job : Events \cup Returns,
              status : Statuses]
Deletions == [active : BOOLEAN, listed : SUBSET Subs, todo : SUBSET Subs]

Idle == [pc |-> "idle", job |-> NoJob, status |-> "none"]

TypeOK ==
    /\ orgs \subseteq Orgs
    /\ free \in [Orgs -> FreeStatuses]
    /\ clock \in [Orgs -> Clocks]
    /\ session \in [Subs -> Sessions]
    /\ history \in [Subs -> Seq(Statuses)]
    /\ rows \in [Subs -> Seq(Statuses)]
    /\ recorded \subseteq Events
    /\ invoices \subseteq Events
    /\ applied \subseteq Events
    /\ acked \subseteq Events
    /\ worker \in [Workers -> WorkerStates]
    /\ deleting \in [Orgs -> Deletions]
    /\ crashes \in Nat

Init ==
    /\ orgs = Orgs
    /\ free = [o \in Orgs |-> "none"]
    /\ clock = [o \in Orgs |-> "running"]
    /\ session \in [Subs -> [state : {"none"}, org : Orgs, trial : {FALSE}]]
    /\ history = [s \in Subs |-> <<>>]
    /\ rows = [s \in Subs |-> <<>>]
    /\ recorded = {}
    /\ invoices = {}
    /\ applied = {}
    /\ acked = {}
    /\ worker = [w \in Workers |-> Idle]
    /\ deleting = [o \in Orgs |-> [active |-> FALSE, listed |-> {}, todo |-> {}]]
    /\ crashes = 0

-----------------------------------------------------------------------------
(* The free period and checkout *)

\* Mutant: only a free period still running counts as used.
RunningOnly(o) == free[o] = "trialing"
FreePeriodUsed(o) == free[o] # "none"

\* A code redeemed (or the launch year granted): one local free period ever.
RedeemFreePeriod(o) ==
    /\ o \in orgs \cap CodeHolders
    /\ ~FreePeriodUsed(o)
    /\ free' = [free EXCEPT ![o] = "trialing"]
    /\ UNCHANGED <<orgs, clock, session, history, dbVars, acked, worker,
                   deleting, crashes>>

\* Time goes by: less than MIN_CHECKOUT_TRIAL left, then past trial_end.
FreePeriodRunsOut(o) ==
    /\ free[o] # "none"
    /\ clock[o] # "over"
    /\ clock' = [clock EXCEPT ![o] = IF @ = "running" THEN "ending" ELSE "over"]
    /\ UNCHANGED <<orgs, free, session, history, dbVars, acked, worker,
                   deleting, crashes>>

IsManaged(o) ==
    \E s \in OwnedBy(o) : \E i \in DOMAIN rows[s] : rows[s][i] \in Managed

\* With no managed row, the row that decides is the local free period.
CheckoutTrial(o) == free[o] = "trialing" /\ clock[o] = "running"

\* start_checkout: the guard reads the rows, then Stripe opens a session.
StartCheckout(s) ==
    LET o == Owner(s) IN
    /\ session[s].state = "none"
    /\ o \in orgs
    /\ ~IsManaged(o)
    /\ session' = [session EXCEPT ![s].state = "open",
                                  ![s].trial = CheckoutTrial(o)]
    /\ UNCHANGED <<orgs, free, clock, history, dbVars, acked, worker,
                   deleting, crashes>>

-----------------------------------------------------------------------------
(* Stripe *)

\* The owner pays on Stripe's page; nothing here asks our database.
CompleteCheckout(s) ==
    /\ session[s].state = "open"
    /\ session' = [session EXCEPT ![s].state = "complete"]
    /\ \E st \in (IF session[s].trial THEN {"trialing"}
                                      ELSE {"active", "incomplete"}) :
          history' = [history EXCEPT ![s] = <<st>>]
    /\ UNCHANGED <<orgs, free, clock, dbVars, acked, worker, deleting,
                   crashes>>

\* A renewal, a failed charge, a cancellation in the customer portal.
StripeChanges(s) ==
    /\ Created(s)
    /\ Len(history[s]) < MaxChanges
    /\ \E st \in Statuses :
          /\ <<Current(s), st>> \in StripeMoves
          /\ history' = [history EXCEPT ![s] = Append(@, st)]
    /\ UNCHANGED <<orgs, free, clock, session, dbVars, acked, worker,
                   deleting, crashes>>

-----------------------------------------------------------------------------
(* The webhook and the return from checkout *)

Holds(w, pc) == worker[w].pc = pc
Start(w, pc, job, status) ==
    worker' = [worker EXCEPT ![w] = [pc |-> pc, job |-> job, status |-> status]]
Goto(w, pc) == worker' = [worker EXCEPT ![w].pc = pc]
\* Answer 200: Stripe stops retrying the event the worker holds, if any.
Answer(w) ==
    /\ worker' = [worker EXCEPT ![w] = Idle]
    /\ acked' = IF worker[w].job.kind = "return" THEN acked
                ELSE acked \cup {worker[w].job}
\* The effect of the event is committed with the answer still to come.
Applied(w) ==
    applied' = IF worker[w].job.kind = "return" THEN applied
               ELSE applied \cup {worker[w].job}

\* sync_after_return: the checkout session is fetched with its subscription
\* expanded, so the worker now holds the status Stripe has at this moment.
ReturnFromCheckout(w, s) ==
    /\ Holds(w, "idle")
    /\ session[s].state = "complete"
    /\ Owner(s) \in orgs
    /\ Start(w, "syncing", [kind |-> "return", sub |-> s, ver |-> 0], Current(s))
    /\ UNCHANGED <<orgs, free, clock, session, history, dbVars, acked,
                   deleting, crashes>>

\* Mutant: the event is recorded when its effect is, as the last step.
RecordedLast(e) == e \in applied
AlreadyRecorded(e) == e \in recorded

\* handle_event, up to the commit of its first transaction: the StripeEvent
\* row, unique by event_id.  A second delivery stops there and is answered 200;
\* the first one goes on to the effect.
HandleEvent(w, e) ==
    /\ Holds(w, "idle")
    /\ e \in Emitted
    /\ IF AlreadyRecorded(e)
         THEN acked' = acked \cup {e} /\ UNCHANGED <<recorded, worker>>
         ELSE /\ recorded' = recorded \cup {e}
              /\ CASE e.kind = "session" -> Start(w, "fetching", e, "none")
                   [] e.kind = "invoice" -> Start(w, "invoicing", e, "none")
                   [] OTHER -> Start(w, "syncing", e, history[e.sub][e.ver])
              /\ UNCHANGED acked
    /\ UNCHANGED <<orgs, free, clock, session, history, rows, invoices,
                   applied, deleting, crashes>>

\* Mutants: the session's own payload is used, which has no status; or a
\* completed checkout is taken for a paid one.
PayloadStatus(e) == "none"
PaidStatus(e) == "active"
FetchedStatus(e) == Current(e.sub)

\* sync_checkout_session: a webhook session carries only the id, so the
\* subscription is fetched: its status now, not when the event was made.
FetchSubscription(w) ==
    LET e == worker[w].job IN
    /\ Holds(w, "fetching")
    /\ Start(w, "syncing", e, FetchedStatus(e))
    /\ UNCHANGED <<orgs, free, clock, session, history, dbVars, acked,
                   deleting, crashes>>

\* Mutant: any status closes the free period.
TakeOverAtOnce(o, status) ==
    free' = IF free[o] = "trialing" THEN [free EXCEPT ![o] = "canceled"] ELSE free

\* Stripe has taken over: the local free period, if still trialing, is closed.
TakeOver(o, status) ==
    free' = IF status \in Managed /\ free[o] = "trialing"
              THEN [free EXCEPT ![o] = "canceled"]
              ELSE free

\* Mutant: every sync inserts.
InsertAgain(s, st) == [rows EXCEPT ![s] = Append(@, st)]
Updated(s, st) == [rows EXCEPT ![s][1] = st]

\* sync_stripe_subscription on a row that exists.  select_for_update() keeps
\* the row locked until the commit, so lookup and write are one step.
SyncExisting(w) ==
    LET s == worker[w].job.sub
        st == worker[w].status
    IN /\ Holds(w, "syncing")
       /\ rows[s] # <<>>
       /\ rows' = Updated(s, st)
       /\ TakeOver(Owner(s), st)
       /\ Applied(w)
       /\ Answer(w)
       /\ UNCHANGED <<orgs, clock, session, history, recorded, invoices,
                      deleting, crashes>>

\* ... with no row and no organisation left: a warning, and nothing written.
SyncNoOrg(w) ==
    LET s == worker[w].job.sub IN
    /\ Holds(w, "syncing")
    /\ rows[s] = <<>>
    /\ Owner(s) \notin orgs
    /\ Applied(w)
    /\ Answer(w)
    /\ UNCHANGED <<orgs, free, clock, session, history, rows, recorded,
                   invoices, deleting, crashes>>

\* Mutant: a subscription with no row is left to the checkout event.
SyncSkipsUnknown(w) ==
    LET s == worker[w].job.sub IN
    /\ Holds(w, "syncing")
    /\ rows[s] = <<>>
    /\ Owner(s) \in orgs
    /\ Answer(w)
    /\ UNCHANGED <<orgs, free, clock, session, history, dbVars, deleting, crashes>>

\* ... with no row yet: there is nothing to lock, so the worker goes on to
\* insert one while others may do the same.
SyncMiss(w) ==
    LET s == worker[w].job.sub IN
    /\ Holds(w, "syncing")
    /\ rows[s] = <<>>
    /\ Owner(s) \in orgs
    /\ Goto(w, "creating")
    /\ UNCHANGED <<orgs, free, clock, session, history, dbVars, acked,
                   deleting, crashes>>

\* Mutant: the row does not reference the organisation's.
NoForeignKey(s) == TRUE
ForeignKeyHolds(s) == Owner(s) \in orgs

SyncCreate(w) ==
    LET s == worker[w].job.sub
        st == worker[w].status
    IN /\ Holds(w, "creating")
       /\ ForeignKeyHolds(s)
       /\ rows' = [rows EXCEPT ![s] = Append(@, st)]
       /\ TakeOver(Owner(s), st)
       /\ Applied(w)
       /\ Answer(w)
       /\ UNCHANGED <<orgs, clock, session, history, recorded, invoices,
                      deleting, crashes>>

\* The organisation went while the row was being inserted: the foreign key
\* refuses the commit and the request ends in an error, without a 200.
SyncCreateRefused(w) ==
    /\ Holds(w, "creating")
    /\ ~ForeignKeyHolds(worker[w].job.sub)
    /\ worker' = [worker EXCEPT ![w] = Idle]
    /\ UNCHANGED <<orgs, free, clock, session, history, dbVars, acked,
                   deleting, crashes>>

\* Mutant: an invoice is dropped while its subscription has no row.
OfKnownSubscription(e) == IF rows[e.sub] # <<>> THEN {e} ELSE {}
PaidInvoiceOf(e) == {e}

\* record_paid_invoice: get_or_create on the unique stripe_invoice_id.
RecordPaidInvoice(w) ==
    /\ Holds(w, "invoicing")
    /\ invoices' = invoices \cup PaidInvoiceOf(worker[w].job)
    /\ Applied(w)
    /\ Answer(w)
    /\ UNCHANGED <<orgs, free, clock, session, history, rows, recorded,
                   deleting, crashes>>

\* The worker is killed (gunicorn --timeout 90, a deploy) or a call raises
\* (Stripe unreachable, the database gone): what is not committed is undone,
\* what is committed stays, and Stripe gets no 200.
Crash(w) ==
    /\ ~Holds(w, "idle")
    /\ crashes < MaxCrashes
    /\ crashes' = crashes + 1
    /\ worker' = [worker EXCEPT ![w] = Idle]
    /\ UNCHANGED <<orgs, free, clock, session, history, dbVars, acked,
                   deleting>>

-----------------------------------------------------------------------------
(* Deleting an organisation *)

\* release_stripe_subscriptions: the refs still worth cancelling are listed.
Cancellable(o) ==
    {s \in OwnedBy(o) : \E i \in DOMAIN rows[s] : rows[s][i] \notin Ended}

DeleteStart(o) ==
    /\ o \in orgs \cap Leavers
    /\ ~deleting[o].active
    /\ deleting' = [deleting EXCEPT
           ![o] = [active |-> TRUE, listed |-> Cancellable(o),
                   todo |-> Cancellable(o)]]
    /\ UNCHANGED <<orgs, free, clock, session, history, dbVars, acked, worker,
                   crashes>>

\* cancel_subscription: a subscription Stripe already ended is no failure.
CancelInStripe(o, s) ==
    /\ deleting[o].active
    /\ s \in deleting[o].todo
    /\ history' = IF Current(s) \in Ended THEN history
                  ELSE [history EXCEPT ![s] = Append(@, "canceled")]
    /\ deleting' = [deleting EXCEPT ![o].todo = @ \ {s}]
    /\ UNCHANGED <<orgs, free, clock, session, dbVars, acked, worker,
                   crashes>>

\* Stripe refuses or cannot be reached (CancelFailed), or the worker dies
\* before the commit: nothing is deleted, what was cancelled stays cancelled.
DeleteRefused(o) ==
    /\ deleting[o].active
    /\ deleting' = [deleting EXCEPT
           ![o] = [active |-> FALSE, listed |-> {}, todo |-> {}]]
    /\ UNCHANGED <<orgs, free, clock, session, history, dbVars, acked, worker,
                   crashes>>

\* Mutant: one failed cancellation is let pass when another went through.
SomeReleased(o) == deleting[o].todo = {} \/ deleting[o].todo # deleting[o].listed
AllReleased(o) == deleting[o].todo = {}

\* org.delete(): the plan rows go with it (CASCADE), paid invoices stay.
DeleteCommit(o) ==
    /\ deleting[o].active
    /\ AllReleased(o)
    /\ orgs' = orgs \ {o}
    /\ rows' = [s \in Subs |-> IF s \in OwnedBy(o) THEN <<>> ELSE rows[s]]
    /\ free' = [free EXCEPT ![o] = "none"]
    /\ deleting' = [deleting EXCEPT ![o].active = FALSE]
    /\ UNCHANGED <<clock, session, history, recorded, invoices, applied, acked,
                   worker, crashes>>

-----------------------------------------------------------------------------
OrgStep(o) ==
    \/ RedeemFreePeriod(o) \/ FreePeriodRunsOut(o)
    \/ DeleteStart(o) \/ DeleteRefused(o) \/ DeleteCommit(o)
    \/ \E s \in Subs : CancelInStripe(o, s)

StripeStep(s) == StartCheckout(s) \/ CompleteCheckout(s) \/ StripeChanges(s)

Finish(w) ==
    \/ FetchSubscription(w) \/ RecordPaidInvoice(w)
    \/ SyncExisting(w) \/ SyncNoOrg(w) \/ SyncMiss(w)
    \/ SyncCreate(w) \/ SyncCreateRefused(w)

WorkerStep(w) ==
    \/ Finish(w) \/ Crash(w)
    \/ \E e \in Emitted : HandleEvent(w, e)
    \/ \E s \in Subs : ReturnFromCheckout(w, s)

Next ==
    \/ \E o \in Orgs : OrgStep(o)
    \/ \E s \in Subs : StripeStep(s)
    \/ \E w \in Workers : WorkerStep(w)

Spec == Init /\ [][Next]_vars

(* What the code promises.  The hazards are the interleavings above. *)

\* billing/models.py: a Stripe-backed row's "status mirrors Stripe's own
\* status".  Whatever the order, the repetition or the overlap of syncs, a row
\* only ever shows a status that this very subscription has had: no sync of
\* another subscription, no take-over of a free period writes into it.
HasHad(s, st) == \E k \in DOMAIN history[s] : history[s][k] = st
RowsMirrorStripe ==
    \A s \in Subs : \A i \in DOMAIN rows[s] : HasHad(s, rows[s][i])

\* sync_stripe_subscription closes the free period "only once the Stripe
\* subscription itself grants access - an incomplete one must not cost the
\* organisation the rest of its free year": the step that closes it leaves a
\* row of the same organisation that grants access on its own, unless the
\* trial both were counting is over.
PaidAccess(o) ==
    \E s \in OwnedBy(o) : \E i \in DOMAIN rows[s] :
        \/ rows[s][i] \in {"active", "past_due"}
        \/ rows[s][i] = "trialing" /\ session[s].trial /\ clock[o] # "over"
HasAccess(o) ==
    PaidAccess(o) \/ (free[o] = "trialing" /\ clock[o] # "over")
KeepsAccess ==
    \A o \in orgs' :
        free[o] = "trialing" /\ free'[o] = "canceled" /\ HasAccess(o) => PaidAccess(o)'
TakeOverKeepsAccess == [][KeepsAccess]_vars

\* StripeEvent: "an event applied twice must change nothing the second time".
\* No two workers are ever past the recording of one event, and none is past
\* the recording of an event whose effect is committed: an effect is applied
\* at most once, through redeliveries, overlaps and crashes.
Applying(w, e) ==
    /\ worker[w].job = e
    /\ worker[w].pc \in {"fetching", "syncing", "creating", "invoicing"}
AppliedAtMostOnce ==
    \A w \in Workers : \A e \in recorded :
        Applying(w, e) => /\ e \notin applied
                          /\ \A x \in Workers \ {w} : ~Applying(x, e)

\* release_stripe_subscriptions: "a subscription left running would keep
\* charging a company that no longer exists".  Once the organisation is gone,
\* every subscription the delete listed is ended in Stripe, whatever failed,
\* was retried or happened in Stripe between the listing and the commit.
DeletedOrgStopsWhatItListed ==
    \A o \in Orgs \ orgs : \A s \in deleting[o].listed : Current(s) \in Ended

\* A deleted organisation leaves nothing behind: neither a late event nor a
\* sync that had already decided to insert brings a row of it back.
NothingOutlivesItsOrg ==
    \A s \in Subs : Owner(s) \notin orgs => rows[s] = <<>> /\ free[Owner(s)] = "none"

\* handle_event: "Returns False when it was already applied".  An event Stripe
\* has stopped retrying has been applied, or a worker is still applying it.
AckedIsApplied ==
    \A e \in acked : \/ e \in applied
                     \/ \E w \in Workers : Applying(w, e)
                     \/ Owner(e.sub) \notin orgs

\* The events whose effect will not come any more: recorded, so that every
\* redelivery is answered at once, but not committed and in nobody's hands,
\* although their organisation is still there.
Lost == {e \in recorded : /\ e \notin applied
                          /\ \A w \in Workers : ~Applying(w, e)
                          /\ Owner(e.sub) \in orgs}

\* handle_event records an event before it is applied.  What that costs is one
\* event for each worker that stops in between, or call of Stripe that raises:
\* whatever overlaps, repeats or comes out of order, nothing else loses one.
LossesAreCounted == IsFiniteSet(Lost) /\ Cardinality(Lost) <= crashes

\* sync_stripe_subscription and record_paid_invoice: an event Stripe has had a
\* 200 for has left its row in the database, a PaidInvoice of its own or a row of
\* its subscription, unless it is lost, somebody is still at it, or the
\* organisation, and the plan rows with it, is gone.
LeftARow(e) == IF e.kind = "invoice" THEN e \in invoices ELSE rows[e.sub] # <<>>
HandledLeavesARow ==
    \A e \in acked : \/ LeftARow(e) \/ e \in Lost
                     \/ \E w \in Workers : Applying(w, e)
                     \/ Owner(e.sub) \notin orgs

\* "Mirror one Stripe subscription onto its row": select_for_update() has no row
\* to lock before the first one, so syncs that overlap may each insert one.  A
\* subscription never has more of them than there are workers to overlap.
RowsAreBounded == \A s \in Subs : Len(rows[s]) <= Cardinality(Workers)

\* The promise of FreePeriod, seen from these rows.
PeriodOf == [o \in Orgs |->
    IF o \notin orgs THEN "gone"
    ELSE IF free[o] = "none" THEN "none"
    ELSE IF free[o] = "trialing" THEN "open" ELSE "closed"]
FP == INSTANCE FreePeriod WITH period <- PeriodOf
FreePeriodPromise == FP!Spec

=============================================================================
