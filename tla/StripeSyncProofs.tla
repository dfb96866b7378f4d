-------------------------- MODULE StripeSyncProofs --------------------------
(***************************************************************************)
(* Proofs about StripeSync, for any number of organisations, subscriptions *)
(* and workers, any bounds, and events in any order.                       *)
(***************************************************************************)
EXTENDS StripeSync, SequenceTheorems, TLAPS

\* A checkout session is complete exactly when Stripe has its subscription.
SessionsMatch == \A s \in Subs : Created(s) <=> session[s].state = "complete"

\* What a worker holds concerns a subscription Stripe has, and a status it is
\* about to write is one that subscription has had.
WorkersHoldHistory ==
    \A w \in Workers :
        /\ ~Holds(w, "idle") => Created(worker[w].job.sub)
        /\ worker[w].pc \in {"syncing", "creating"}
               => HasHad(worker[w].job.sub, worker[w].status)

\* A delete in progress has ended in Stripe all it listed but what is left to
\* do, and a delete that is over for good has nothing left.
DeletesProgress ==
    \A o \in Orgs :
        /\ \A s \in deleting[o].listed : Created(s)
        /\ deleting[o].todo \subseteq deleting[o].listed
        /\ \A s \in deleting[o].listed \ deleting[o].todo : Current(s) \in Ended
        /\ o \notin orgs => ~deleting[o].active /\ deleting[o].todo = {}

\* The inductive invariant.
IInv == TypeOK /\ SessionsMatch /\ WorkersHoldHistory /\ RowsMirrorStripe
            /\ DeletesProgress

-----------------------------------------------------------------------------
(* Sequences of statuses *)

LEMMA CurrentIsStatus ==
    ASSUME TypeOK, NEW s \in Subs, Created(s)
    PROVE  /\ Current(s) \in Statuses
           /\ HasHad(s, Current(s))
  BY DEF TypeOK, Created, Current, HasHad

LEMMA AppendKeeps ==
    ASSUME NEW q \in Seq(Statuses), NEW st \in Statuses
    PROVE  /\ Append(q, st) \in Seq(Statuses)
           /\ Append(q, st) # <<>>
           /\ Append(q, st)[Len(Append(q, st))] = st
           /\ \A k \in DOMAIN q : k \in DOMAIN Append(q, st) /\ Append(q, st)[k] = q[k]
           /\ \E k \in DOMAIN Append(q, st) : Append(q, st)[k] = st
  OBVIOUS

-----------------------------------------------------------------------------
(* The history of a subscription only grows, and stops at an ended status. *)

HistoryGrows ==
    \A s \in Subs :
        /\ Created(s) => Created(s)'
        /\ \A st : HasHad(s, st) => HasHad(s, st)'
        /\ Created(s) /\ Current(s) \in Ended => Current(s)' = Current(s)

LEMMA AppendedHistoryGrows ==
    ASSUME TypeOK, NEW t \in Subs, Created(t), Current(t) \notin Ended,
           NEW st \in Statuses,
           history' = [history EXCEPT ![t] = Append(@, st)]
    PROVE  /\ history' \in [Subs -> Seq(Statuses)]
           /\ HistoryGrows
           /\ Created(t)' /\ Current(t)' = st
  <1>1. history[t] \in Seq(Statuses)
    BY DEF TypeOK
  <1>2. /\ Append(history[t], st) \in Seq(Statuses)
        /\ Append(history[t], st) # <<>>
        /\ Append(history[t], st)[Len(Append(history[t], st))] = st
        /\ \A k \in DOMAIN history[t] :
              k \in DOMAIN Append(history[t], st) /\ Append(history[t], st)[k] = history[t][k]
    BY <1>1, AppendKeeps
  <1>3. /\ history'[t] = Append(history[t], st)
        /\ \A s \in Subs \ {t} : history'[s] = history[s]
    BY DEF TypeOK
  <1>4. history' \in [Subs -> Seq(Statuses)]
    BY <1>2 DEF TypeOK
  <1>5. ASSUME NEW s \in Subs
        PROVE  /\ Created(s) => Created(s)'
               /\ \A x : HasHad(s, x) => HasHad(s, x)'
               /\ Created(s) /\ Current(s) \in Ended => Current(s)' = Current(s)
    <2>1. CASE s = t
      BY <2>1, <1>2, <1>3 DEF Created, Current, HasHad
    <2>2. CASE s # t
      BY <2>2, <1>3 DEF Created, Current, HasHad
    <2>3. QED BY <2>1, <2>2
  <1>6. Created(t)' /\ Current(t)' = st
    BY <1>2, <1>3 DEF Created, Current
  <1>7. QED BY <1>4, <1>5, <1>6 DEF HistoryGrows

LEMMA HistoryUnchangedGrows ==
    ASSUME history' = history
    PROVE  HistoryGrows
  BY DEF HistoryGrows, Created, Current, HasHad

\* Stripe leaves no ended status.
LEMMA NoMoveFromEnded ==
    ASSUME NEW x, NEW y, <<x, y>> \in StripeMoves
    PROVE  x \notin Ended
  BY DEF StripeMoves, Ended, Statuses, Managed

LEMMA StripeChangesGrows ==
    ASSUME TypeOK, NEW s \in Subs, StripeChanges(s)
    PROVE  history' \in [Subs -> Seq(Statuses)] /\ HistoryGrows
  BY AppendedHistoryGrows, NoMoveFromEnded DEF StripeChanges

LEMMA CancelInStripeGrows ==
    ASSUME TypeOK, NEW o \in Orgs, NEW s \in Subs, Created(s), CancelInStripe(o, s)
    PROVE  /\ history' \in [Subs -> Seq(Statuses)]
           /\ HistoryGrows
           /\ Current(s)' \in Ended
  <1>1. "canceled" \in Ended /\ "canceled" \in Statuses
    BY DEF Ended, Statuses
  <1>2. CASE Current(s) \in Ended
    BY <1>2, HistoryUnchangedGrows DEF CancelInStripe, TypeOK, HistoryGrows
  <1>3. CASE Current(s) \notin Ended
    BY <1>1, <1>3, AppendedHistoryGrows DEF CancelInStripe
  <1>4. QED BY <1>2, <1>3

LEMMA CompleteCheckoutGrows ==
    ASSUME TypeOK, SessionsMatch, NEW s \in Subs, CompleteCheckout(s)
    PROVE  /\ history' \in [Subs -> Seq(Statuses)]
           /\ HistoryGrows
           /\ Created(s)'
  <1>1. history[s] = <<>>
    BY DEF CompleteCheckout, SessionsMatch, Created
  <1>2. PICK st \in Statuses : history' = [history EXCEPT ![s] = <<st>>]
    BY DEF CompleteCheckout, Statuses, Managed
  <1>3. /\ history'[s] = <<st>>
        /\ \A t \in Subs \ {s} : history'[t] = history[t]
    BY <1>2 DEF TypeOK
  <1>4. <<st>> \in Seq(Statuses) /\ <<st>> # <<>>
    OBVIOUS
  <1>5. history' \in [Subs -> Seq(Statuses)]
    BY <1>2, <1>4 DEF TypeOK
  <1>6. ASSUME NEW t \in Subs
        PROVE  /\ Created(t) => Created(t)'
               /\ \A x : HasHad(t, x) => HasHad(t, x)'
               /\ Created(t) /\ Current(t) \in Ended => Current(t)' = Current(t)
    <2>1. CASE t = s
      BY <1>1, <2>1 DEF Created, HasHad
    <2>2. CASE t # s
      BY <2>2, <1>3 DEF Created, Current, HasHad
    <2>3. QED BY <2>1, <2>2
  <1>7. Created(s)'
    BY <1>3, <1>4 DEF Created
  <1>8. QED BY <1>5, <1>6, <1>7 DEF HistoryGrows

-----------------------------------------------------------------------------
(* The initial state, and each step, satisfy the inductive invariant. *)

LEMMA InitIInv == Init => IInv
  <1> SUFFICES ASSUME Init PROVE IInv
    OBVIOUS
  <1>1. TypeOK
    <2>1. session \in [Subs -> Sessions]
      <3>1. [state : {"none"}, org : Orgs, trial : {FALSE}] \subseteq Sessions
        BY DEF Sessions
      <3>2. QED BY <3>1 DEF Init
    <2>2. worker \in [Workers -> WorkerStates]
      BY DEF Init, WorkerStates, Idle
    <2>3. history \in [Subs -> Seq(Statuses)] /\ rows \in [Subs -> Seq(Statuses)]
      BY DEF Init
    <2>4. deleting \in [Orgs -> Deletions]
      BY DEF Init, Deletions
    <2>5. QED
      BY <2>1, <2>2, <2>3, <2>4 DEF Init, TypeOK, FreeStatuses, Clocks
  <1>2. SessionsMatch /\ WorkersHoldHistory /\ RowsMirrorStripe
    <2>1. ASSUME NEW s \in Subs
          PROVE  history[s] = <<>> /\ DOMAIN rows[s] = {} /\ session[s].state = "none"
      <3>1. history[s] = <<>> /\ rows[s] = <<>>
        BY DEF Init
      <3>2. session[s] \in [state : {"none"}, org : Orgs, trial : {FALSE}]
        BY DEF Init
      <3>3. DOMAIN <<>> = {}
        OBVIOUS
      <3>4. QED BY <3>1, <3>2, <3>3
    <2>2. \A w \in Workers : worker[w].pc = "idle"
      BY DEF Init, Idle
    <2>3. QED
      BY <2>1, <2>2 DEF SessionsMatch, Created, WorkersHoldHistory, Holds,
                        RowsMirrorStripe
  <1>3. DeletesProgress
    BY DEF Init, DeletesProgress
  <1>4. QED BY <1>1, <1>2, <1>3 DEF IInv

\* A delete lists only subscriptions that have a row, hence that Stripe has.
LEMMA CancellableIsCreated ==
    ASSUME TypeOK, RowsMirrorStripe, NEW o \in Orgs, NEW s \in Cancellable(o)
    PROVE  s \in Subs /\ Created(s)
  <1>1. PICK i \in DOMAIN rows[s] : rows[s][i] \notin Ended
    BY DEF Cancellable, OwnedBy
  <1>2. s \in Subs /\ HasHad(s, rows[s][i])
    BY <1>1 DEF RowsMirrorStripe, Cancellable, OwnedBy
  <1>3. DOMAIN history[s] # {} /\ history[s] \in Seq(Statuses)
    BY <1>2 DEF HasHad, TypeOK
  <1>4. QED BY <1>2, <1>3 DEF Created

LEMMA NextGrows ==
    ASSUME IInv, [Next]_vars
    PROVE  history' \in [Subs -> Seq(Statuses)] /\ HistoryGrows
  <1>1. CASE history' = history
    BY <1>1, HistoryUnchangedGrows DEF IInv, TypeOK
  <1>2. ASSUME NEW s \in Subs, StripeChanges(s)
        PROVE  history' \in [Subs -> Seq(Statuses)] /\ HistoryGrows
    BY <1>2, StripeChangesGrows DEF IInv
  <1>3. ASSUME NEW s \in Subs, CompleteCheckout(s)
        PROVE  history' \in [Subs -> Seq(Statuses)] /\ HistoryGrows
    BY <1>3, CompleteCheckoutGrows DEF IInv
  <1>4. ASSUME NEW o \in Orgs, NEW s \in Subs, CancelInStripe(o, s)
        PROVE  history' \in [Subs -> Seq(Statuses)] /\ HistoryGrows
    <2>1. Created(s)
      BY <1>4 DEF CancelInStripe, IInv, DeletesProgress
    <2>2. QED BY <1>4, <2>1, CancelInStripeGrows DEF IInv
  <1>5. \/ history' = history
        \/ \E s \in Subs : StripeChanges(s) \/ CompleteCheckout(s)
        \/ \E o \in Orgs, s \in Subs : CancelInStripe(o, s)
    BY DEF Next, vars, OrgStep, StripeStep, WorkerStep, Finish,
           RedeemFreePeriod, FreePeriodRunsOut, DeleteStart, DeleteRefused,
           DeleteCommit, StartCheckout, HandleEvent, ReturnFromCheckout,
           FetchSubscription, SyncExisting, SyncNoOrg, SyncMiss, SyncCreate,
           SyncCreateRefused, RecordPaidInvoice, Crash
  <1>6. QED BY <1>1, <1>2, <1>3, <1>4, <1>5

-----------------------------------------------------------------------------
(* Types *)

LEMMA WorkerAtWork ==
    ASSUME TypeOK, NEW w \in Workers, ~Holds(w, "idle")
    PROVE  /\ worker[w].job \in Events \cup Returns
           /\ worker[w].job.sub \in Subs
           /\ worker[w].job.kind # "return" => worker[w].job \in Events
           /\ worker[w].pc \in {"fetching", "invoicing"} => worker[w].job \in Events
           /\ worker[w].pc \in {"syncing", "creating"} => worker[w].status \in Statuses
  BY DEF TypeOK, WorkerStates, Holds, Events, Returns, EventKinds

LEMMA AnswerType ==
    ASSUME TypeOK, NEW w \in Workers, ~Holds(w, "idle"), Answer(w)
    PROVE  worker' \in [Workers -> WorkerStates] /\ acked' \subseteq Events
  <1>1. Idle \in WorkerStates
    BY DEF Idle, WorkerStates
  <1>2. QED BY <1>1, WorkerAtWork DEF Answer, TypeOK

LEMMA AppliedType ==
    ASSUME TypeOK, NEW w \in Workers, ~Holds(w, "idle"), Applied(w)
    PROVE  applied' \subseteq Events
  BY WorkerAtWork DEF Applied, TypeOK

LEMMA StartType ==
    ASSUME TypeOK, NEW w \in Workers, NEW pc, NEW jb, NEW st,
           [pc |-> pc, job |-> jb, status |-> st] \in WorkerStates,
           Start(w, pc, jb, st)
    PROVE  worker' \in [Workers -> WorkerStates]
  BY DEF Start, TypeOK

LEMMA EmittedHad ==
    ASSUME TypeOK, NEW e \in Emitted
    PROVE  /\ e \in Events
           /\ e.sub \in Subs
           /\ Created(e.sub)
           /\ history[e.sub][e.ver] \in Statuses
           /\ HasHad(e.sub, history[e.sub][e.ver])
  <1>1. /\ e \in [kind : Subscribed, sub : Subs, ver : 1..(MaxChanges + 1)]
        /\ e.ver <= Len(history[e.sub])
    BY DEF Emitted
  <1>2. e.sub \in Subs /\ e.ver \in Nat /\ e.ver >= 1
    BY <1>1, BoundsAssumption
  <1>3. history[e.sub] \in Seq(Statuses)
    BY <1>2 DEF TypeOK
  <1>4. e \in Events
    BY <1>1, <1>2, BoundsAssumption DEF Events, EventKinds
  <1>5. e.ver \in DOMAIN history[e.sub]
    BY <1>1, <1>2, <1>3
  <1>6. QED BY <1>2, <1>3, <1>4, <1>5 DEF Created, HasHad

LEMMA TakeOverType ==
    ASSUME TypeOK, NEW o \in Orgs, NEW st, TakeOver(o, st)
    PROVE  free' \in [Orgs -> FreeStatuses]
  BY DEF TakeOver, TypeOK, FreeStatuses

LEMMA OwnerType ==
    ASSUME TypeOK, NEW s \in Subs
    PROVE  Owner(s) \in Orgs
  BY DEF TypeOK, Sessions, Owner

LEMMA WorkerTypeStep ==
    ASSUME IInv, NEW w \in Workers, WorkerStep(w)
    PROVE  TypeOK'
  <1> USE DEF IInv
  <1>1. ASSUME NEW e \in Emitted, HandleEvent(w, e)
        PROVE  TypeOK'
    <2>1. e \in Events /\ history[e.sub][e.ver] \in Statuses
      BY EmittedHad
    <2>2. worker' \in [Workers -> WorkerStates]
      <3>1. CASE e \in recorded
        BY <1>1, <3>1 DEF HandleEvent, AlreadyRecorded, TypeOK
      <3>2. CASE e \notin recorded
        <4>1. \/ Start(w, "fetching", e, "none")
              \/ Start(w, "invoicing", e, "none")
              \/ Start(w, "syncing", e, history[e.sub][e.ver])
          BY <1>1, <3>2 DEF HandleEvent, AlreadyRecorded
        <4>2. /\ [pc |-> "fetching", job |-> e, status |-> "none"] \in WorkerStates
              /\ [pc |-> "invoicing", job |-> e, status |-> "none"] \in WorkerStates
              /\ [pc |-> "syncing", job |-> e, status |-> history[e.sub][e.ver]] \in WorkerStates
          BY <2>1 DEF WorkerStates
        <4>3. QED BY <4>1, <4>2, StartType
      <3>3. QED BY <3>1, <3>2
    <2>3. recorded' \subseteq Events /\ acked' \subseteq Events
      BY <1>1, <2>1 DEF HandleEvent, TypeOK
    <2>4. QED BY <1>1, <2>2, <2>3 DEF HandleEvent, TypeOK
  <1>2. ASSUME NEW s \in Subs, ReturnFromCheckout(w, s)
        PROVE  TypeOK'
    <2>1. Created(s)
      BY <1>2 DEF ReturnFromCheckout, SessionsMatch
    <2>2. Current(s) \in Statuses
      BY <2>1, CurrentIsStatus
    <2>3. [pc |-> "syncing", job |-> [kind |-> "return", sub |-> s, ver |-> 0],
           status |-> Current(s)] \in WorkerStates
      BY <2>2 DEF WorkerStates, Returns
    <2>4. worker' \in [Workers -> WorkerStates]
      BY <1>2, <2>3, StartType DEF ReturnFromCheckout
    <2>5. QED BY <1>2, <2>4 DEF ReturnFromCheckout, TypeOK, dbVars
  <1>3. CASE FetchSubscription(w)
    <2>1. /\ worker[w].job \in Events
          /\ worker[w].job.sub \in Subs /\ Created(worker[w].job.sub)
      BY <1>3, WorkerAtWork DEF FetchSubscription, Holds, WorkersHoldHistory
    <2>2. [pc |-> "syncing", job |-> worker[w].job,
           status |-> Current(worker[w].job.sub)] \in WorkerStates
      BY <2>1, CurrentIsStatus DEF WorkerStates
    <2>3. worker' \in [Workers -> WorkerStates]
      BY <1>3, <2>2, StartType DEF FetchSubscription, FetchedStatus
    <2>4. QED BY <1>3, <2>3 DEF FetchSubscription, TypeOK, dbVars
  <1>4. CASE RecordPaidInvoice(w)
    <2>1. ~Holds(w, "idle") /\ worker[w].job \in Events
      BY <1>4, WorkerAtWork DEF RecordPaidInvoice, Holds
    <2>2. QED
      BY <1>4, <2>1, AnswerType, AppliedType DEF RecordPaidInvoice, PaidInvoiceOf, TypeOK
  <1>5. CASE SyncExisting(w)
    <2>1. /\ ~Holds(w, "idle")
          /\ worker[w].job.sub \in Subs /\ worker[w].status \in Statuses
      BY <1>5, WorkerAtWork DEF SyncExisting, Holds
    <2>2. rows' \in [Subs -> Seq(Statuses)]
      <3> DEFINE s == worker[w].job.sub
                 q == [rows[s] EXCEPT ![1] = worker[w].status]
      <3>1. rows[s] \in Seq(Statuses) /\ 1 \in 1..Len(rows[s])
        BY <1>5, <2>1 DEF SyncExisting, TypeOK
      <3>2. q \in Seq(Statuses)
        BY <2>1, <3>1, ExceptSeq
      <3>3. rows' = [rows EXCEPT ![s] = q]
        BY <1>5 DEF SyncExisting, Updated
      <3>4. QED BY <2>1, <3>2, <3>3 DEF TypeOK
    <2>3. free' \in [Orgs -> FreeStatuses]
      BY <1>5, <2>1, OwnerType, TakeOverType DEF SyncExisting
    <2>4. QED
      BY <1>5, <2>1, <2>2, <2>3, AnswerType, AppliedType DEF SyncExisting, TypeOK
  <1>6. CASE SyncCreate(w)
    <2>1. /\ ~Holds(w, "idle")
          /\ worker[w].job.sub \in Subs /\ worker[w].status \in Statuses
      BY <1>6, WorkerAtWork DEF SyncCreate, Holds
    <2>2. rows' \in [Subs -> Seq(Statuses)]
      BY <1>6, <2>1, AppendKeeps DEF SyncCreate, TypeOK
    <2>3. free' \in [Orgs -> FreeStatuses]
      BY <1>6, <2>1, OwnerType, TakeOverType DEF SyncCreate
    <2>4. QED
      BY <1>6, <2>1, <2>2, <2>3, AnswerType, AppliedType DEF SyncCreate, TypeOK
  <1>7. CASE SyncNoOrg(w)
    <2>1. ~Holds(w, "idle")
      BY <1>7 DEF SyncNoOrg, Holds
    <2>2. QED
      BY <1>7, <2>1, AnswerType, AppliedType DEF SyncNoOrg, TypeOK
  <1>8. CASE SyncMiss(w)
    <2>1. worker' \in [Workers -> WorkerStates]
      BY <1>8 DEF SyncMiss, Goto, Holds, TypeOK, WorkerStates
    <2>2. QED BY <1>8, <2>1 DEF SyncMiss, TypeOK, dbVars
  <1>9. CASE SyncCreateRefused(w) \/ Crash(w)
    <2>1. Idle \in WorkerStates
      BY DEF Idle, WorkerStates
    <2>2. worker' = [worker EXCEPT ![w] = Idle]
      BY <1>9 DEF SyncCreateRefused, Crash
    <2>3. worker' \in [Workers -> WorkerStates]
      BY <2>1, <2>2 DEF TypeOK
    <2>4. crashes' \in Nat
      BY <1>9 DEF SyncCreateRefused, Crash, TypeOK
    <2>5. QED BY <1>9, <2>3, <2>4 DEF SyncCreateRefused, Crash, TypeOK, dbVars
  <1>10. QED
    BY <1>1, <1>2, <1>3, <1>4, <1>5, <1>6, <1>7, <1>8, <1>9
    DEF WorkerStep, Finish

LEMMA OrgTypeStep ==
    ASSUME IInv, NEW o \in Orgs, OrgStep(o)
    PROVE  TypeOK'
  <1> USE DEF IInv
  <1>1. Cancellable(o) \subseteq Subs
    BY DEF Cancellable, OwnedBy
  <1>2. CASE RedeemFreePeriod(o) \/ FreePeriodRunsOut(o)
    BY <1>2 DEF RedeemFreePeriod, FreePeriodRunsOut, TypeOK, dbVars,
                FreeStatuses, Clocks
  <1>3. CASE DeleteStart(o)
    <2>1. [active |-> TRUE, listed |-> Cancellable(o), todo |-> Cancellable(o)]
              \in Deletions
      BY <1>1 DEF Deletions
    <2>2. deleting' \in [Orgs -> Deletions]
      BY <1>3, <2>1 DEF DeleteStart, TypeOK
    <2>3. QED BY <1>3, <2>2 DEF DeleteStart, TypeOK, dbVars
  <1>4. CASE DeleteRefused(o)
    <2>1. [active |-> FALSE, listed |-> {}, todo |-> {}] \in Deletions
      BY DEF Deletions
    <2>2. deleting' \in [Orgs -> Deletions]
      BY <1>4, <2>1 DEF DeleteRefused, TypeOK
    <2>3. QED BY <1>4, <2>2 DEF DeleteRefused, TypeOK, dbVars
  <1>5. CASE DeleteCommit(o)
    <2>1. deleting' \in [Orgs -> Deletions]
      BY <1>5 DEF DeleteCommit, TypeOK, Deletions
    <2>2. rows' \in [Subs -> Seq(Statuses)]
      <3>1. <<>> \in Seq(Statuses)
        OBVIOUS
      <3>2. QED BY <1>5, <3>1 DEF DeleteCommit, TypeOK
    <2>3. free' \in [Orgs -> FreeStatuses]
      BY <1>5 DEF DeleteCommit, TypeOK, FreeStatuses
    <2>4. QED BY <1>5, <2>1, <2>2, <2>3 DEF DeleteCommit, TypeOK
  <1>6. ASSUME NEW s \in Subs, CancelInStripe(o, s)
        PROVE  TypeOK'
    <2>1. deleting' \in [Orgs -> Deletions]
      BY <1>6 DEF CancelInStripe, TypeOK, Deletions
    <2>2. Created(s)
      BY <1>6 DEF CancelInStripe, DeletesProgress
    <2>3. history' \in [Subs -> Seq(Statuses)]
      BY <1>6, <2>2, CancelInStripeGrows
    <2>4. QED BY <1>6, <2>1, <2>3 DEF CancelInStripe, TypeOK, dbVars
  <1>7. QED BY <1>2, <1>3, <1>4, <1>5, <1>6 DEF OrgStep

LEMMA StripeTypeStep ==
    ASSUME IInv, NEW s \in Subs, StripeStep(s)
    PROVE  TypeOK'
  <1> USE DEF IInv
  <1>1. CASE StartCheckout(s)
    <2>1. session' \in [Subs -> Sessions]
      BY <1>1 DEF StartCheckout, TypeOK, Sessions, CheckoutTrial
    <2>2. QED BY <1>1, <2>1 DEF StartCheckout, TypeOK, dbVars
  <1>2. CASE CompleteCheckout(s)
    <2>1. session' \in [Subs -> Sessions]
      BY <1>2 DEF CompleteCheckout, TypeOK, Sessions
    <2>2. history' \in [Subs -> Seq(Statuses)]
      BY <1>2, CompleteCheckoutGrows
    <2>3. QED BY <1>2, <2>1, <2>2 DEF CompleteCheckout, TypeOK, dbVars
  <1>3. CASE StripeChanges(s)
    <2>1. history' \in [Subs -> Seq(Statuses)]
      BY <1>3, StripeChangesGrows
    <2>2. QED BY <1>3, <2>1 DEF StripeChanges, TypeOK, dbVars
  <1>4. QED BY <1>1, <1>2, <1>3 DEF StripeStep

LEMMA TypeStep ==
    ASSUME IInv, [Next]_vars
    PROVE  TypeOK'
  <1>1. CASE Next
    BY <1>1, OrgTypeStep, StripeTypeStep, WorkerTypeStep DEF Next
  <1>2. CASE UNCHANGED vars
    BY <1>2 DEF vars, dbVars, IInv, TypeOK
  <1>3. QED BY <1>1, <1>2

-----------------------------------------------------------------------------
(* The rest of the inductive invariant *)

LEMMA SessionsMatchStep ==
    ASSUME IInv, [Next]_vars
    PROVE  SessionsMatch'
  <1> USE DEF IInv
  <1>1. HistoryGrows
    BY NextGrows
  <1>2. CASE UNCHANGED <<session, history>>
    BY <1>2 DEF SessionsMatch, Created
  <1>3. ASSUME NEW s \in Subs, StartCheckout(s)
        PROVE  SessionsMatch'
    <2>1. /\ history' = history
          /\ session[s].state = "none" /\ session'[s].state = "open"
          /\ \A t \in Subs \ {s} : session'[t] = session[t]
      BY <1>3 DEF StartCheckout, TypeOK, Sessions
    <2>2. QED BY <2>1 DEF SessionsMatch, Created
  <1>4. ASSUME NEW s \in Subs, CompleteCheckout(s)
        PROVE  SessionsMatch'
    <2>1. /\ session'[s].state = "complete"
          /\ \A t \in Subs \ {s} : session'[t] = session[t] /\ history'[t] = history[t]
      BY <1>4 DEF CompleteCheckout, TypeOK, Sessions
    <2>2. Created(s)'
      BY <1>4, CompleteCheckoutGrows
    <2>3. QED BY <2>1, <2>2 DEF SessionsMatch, Created
  <1>5. ASSUME NEW s \in Subs, Created(s), session' = session,
               \A t \in Subs \ {s} : history'[t] = history[t]
        PROVE  SessionsMatch'
    <2>1. Created(s)'
      BY <1>1, <1>5 DEF HistoryGrows
    <2>2. QED BY <1>5, <2>1 DEF SessionsMatch, Created
  <1>6. ASSUME NEW s \in Subs, StripeChanges(s)
        PROVE  SessionsMatch'
    BY <1>5, <1>6 DEF StripeChanges, TypeOK
  <1>7. ASSUME NEW o \in Orgs, NEW s \in Subs, CancelInStripe(o, s)
        PROVE  SessionsMatch'
    <2>1. Created(s)
      BY <1>7 DEF CancelInStripe, DeletesProgress
    <2>2. QED BY <1>5, <1>7, <2>1 DEF CancelInStripe, TypeOK
  <1>8. \/ UNCHANGED <<session, history>>
        \/ \E s \in Subs : StartCheckout(s) \/ CompleteCheckout(s) \/ StripeChanges(s)
        \/ \E o \in Orgs, s \in Subs : CancelInStripe(o, s)
    BY DEF Next, vars, OrgStep, StripeStep, WorkerStep, Finish,
           RedeemFreePeriod, FreePeriodRunsOut, DeleteStart, DeleteRefused,
           DeleteCommit, HandleEvent, ReturnFromCheckout,
           FetchSubscription, SyncExisting, SyncNoOrg, SyncMiss, SyncCreate,
           SyncCreateRefused, RecordPaidInvoice, Crash
  <1>9. QED BY <1>2, <1>3, <1>4, <1>6, <1>7, <1>8

\* Only two actions write a row, and what they write the worker was holding.
LEMMA RowsMirrorStep ==
    ASSUME IInv, [Next]_vars
    PROVE  RowsMirrorStripe'
  <1> USE DEF IInv
  <1>1. \A s \in Subs : \A st : HasHad(s, st) => HasHad(s, st)'
    BY NextGrows DEF HistoryGrows
  <1>2. CASE rows' = rows
    BY <1>1, <1>2 DEF RowsMirrorStripe
  <1>3. ASSUME NEW o \in Orgs, DeleteCommit(o)
        PROVE  RowsMirrorStripe'
    <2>1. \A s \in Subs : rows'[s] = <<>> \/ rows'[s] = rows[s]
      BY <1>3 DEF DeleteCommit
    <2>2. DOMAIN <<>> = {}
      OBVIOUS
    <2>3. ASSUME NEW s \in Subs, NEW i \in DOMAIN rows'[s]
          PROVE  \E k \in DOMAIN history'[s] : history'[s][k] = rows'[s][i]
      BY <1>1, <2>1, <2>2, <2>3 DEF RowsMirrorStripe, HasHad
    <2>4. QED BY <2>3 DEF RowsMirrorStripe, HasHad
  <1>4. ASSUME NEW w \in Workers, SyncExisting(w) \/ SyncCreate(w)
        PROVE  RowsMirrorStripe'
    <2> DEFINE s == worker[w].job.sub
               st == worker[w].status
    <2>1. /\ s \in Subs /\ st \in Statuses
          /\ \E k \in DOMAIN history'[s] : history'[s][k] = st
      <3>1. s \in Subs /\ st \in Statuses /\ HasHad(s, st)
        BY <1>4, WorkerAtWork DEF SyncExisting, SyncCreate, Holds, WorkersHoldHistory
      <3>2. history' = history
        BY <1>4 DEF SyncExisting, SyncCreate
      <3>3. QED BY <3>1, <3>2 DEF HasHad
    <2>2. rows[s] \in Seq(Statuses)
      BY <2>1 DEF TypeOK
    <2>3. \A t \in Subs \ {s} : rows'[t] = rows[t]
      BY <1>4 DEF SyncExisting, Updated, SyncCreate, ForeignKeyHolds, TypeOK
    <2>4. \A i \in DOMAIN rows'[s] :
              rows'[s][i] = st \/ (i \in DOMAIN rows[s] /\ rows'[s][i] = rows[s][i])
      <3>1. CASE SyncExisting(w)
        <4>1. rows'[s] = [rows[s] EXCEPT ![1] = st]
          BY <2>1, <3>1 DEF SyncExisting, Updated, TypeOK
        <4>2. QED BY <4>1, <2>2
      <3>2. CASE SyncCreate(w)
        <4>1. rows'[s] = Append(rows[s], st)
          BY <2>1, <3>2 DEF SyncCreate, TypeOK
        <4>2. QED BY <4>1, <2>1, <2>2
      <3>3. QED BY <1>4, <3>1, <3>2
    <2>5. ASSUME NEW t \in Subs, NEW i \in DOMAIN rows'[t]
          PROVE  \E k \in DOMAIN history'[t] : history'[t][k] = rows'[t][i]
      <3>1. CASE t = s
        BY <1>1, <2>1, <2>4, <2>5, <3>1 DEF RowsMirrorStripe, HasHad
      <3>2. CASE t # s
        BY <1>1, <2>3, <2>5, <3>2 DEF RowsMirrorStripe, HasHad
      <3>3. QED BY <3>1, <3>2
    <2>6. QED BY <2>5 DEF RowsMirrorStripe, HasHad
  <1>5. \/ rows' = rows
        \/ \E o \in Orgs : DeleteCommit(o)
        \/ \E w \in Workers : SyncExisting(w) \/ SyncCreate(w)
    BY DEF Next, vars, dbVars, OrgStep, StripeStep, WorkerStep, Finish,
           RedeemFreePeriod, FreePeriodRunsOut, DeleteStart, DeleteRefused,
           StartCheckout, CompleteCheckout, StripeChanges, CancelInStripe,
           HandleEvent, ReturnFromCheckout, FetchSubscription, SyncNoOrg,
           SyncMiss, SyncCreateRefused, RecordPaidInvoice, Crash
  <1>6. QED BY <1>2, <1>3, <1>4, <1>5

\* A worker that starts, or fetches, takes a status its subscription has had;
\* the others only hold what they held while the history grew.
LEMMA WorkersHoldHistoryStep ==
    ASSUME IInv, [Next]_vars
    PROVE  WorkersHoldHistory'
  <1> USE DEF IInv
  <1> DEFINE Sound(x) ==
        /\ ~Holds(x, "idle") => Created(worker[x].job.sub)
        /\ worker[x].pc \in {"syncing", "creating"}
               => HasHad(worker[x].job.sub, worker[x].status)
  <1>1. HistoryGrows
    BY NextGrows
  <1>2. ASSUME NEW x \in Workers, worker'[x] = worker[x]
        PROVE  Sound(x)'
    <2>1. Sound(x) /\ (~Holds(x, "idle") => worker[x].job.sub \in Subs)
      BY WorkerAtWork DEF WorkersHoldHistory
    <2>2. worker[x].pc \in {"syncing", "creating"} => ~Holds(x, "idle")
      BY DEF Holds
    <2>3. QED
      BY <1>1, <1>2, <2>1, <2>2 DEF HistoryGrows, Holds, Created, HasHad
  <1>3. CASE worker' = worker
    BY <1>2, <1>3 DEF WorkersHoldHistory
  <1>4. ASSUME NEW w \in Workers, WorkerStep(w), Sound(w)'
        PROVE  WorkersHoldHistory'
    <2>1. \A x \in Workers \ {w} : worker'[x] = worker[x]
      BY <1>4 DEF WorkerStep, Finish, HandleEvent, ReturnFromCheckout,
             FetchSubscription, SyncExisting, SyncNoOrg, SyncMiss, SyncCreate,
             SyncCreateRefused, RecordPaidInvoice, Crash, Start, Goto, Answer,
             TypeOK
    <2>2. QED BY <1>2, <1>4, <2>1 DEF WorkersHoldHistory
  <1>5. ASSUME NEW w \in Workers, worker' = [worker EXCEPT ![w] = Idle]
        PROVE  Sound(w)'
    BY <1>5 DEF Idle, Holds, TypeOK
  <1>6. ASSUME NEW w \in Workers, WorkerStep(w)
        PROVE  worker' = worker \/ Sound(w)'
    <2>1. CASE \E e \in Emitted : HandleEvent(w, e)
      <3> PICK e \in Emitted : HandleEvent(w, e)
        BY <2>1
      <3>1. Created(e.sub) /\ HasHad(e.sub, history[e.sub][e.ver])
        BY EmittedHad
      <3>2. \/ worker' = worker
            \/ worker'[w].job = e /\ worker'[w].pc \in {"fetching", "invoicing"}
            \/ worker'[w].job = e /\ worker'[w].status = history[e.sub][e.ver]
        BY DEF HandleEvent, Start, TypeOK
      <3>3. history' = history
        BY DEF HandleEvent
      <3>4. QED BY <3>1, <3>2, <3>3 DEF Created, HasHad
    <2>2. CASE \E s \in Subs : ReturnFromCheckout(w, s)
      <3> PICK s \in Subs : ReturnFromCheckout(w, s)
        BY <2>2
      <3>1. Created(s) /\ HasHad(s, Current(s))
        BY CurrentIsStatus DEF ReturnFromCheckout, SessionsMatch
      <3>2. /\ history' = history
            /\ worker'[w].job.sub = s /\ worker'[w].status = Current(s)
        BY DEF ReturnFromCheckout, Start, TypeOK
      <3>3. QED BY <3>1, <3>2 DEF Created, HasHad
    <2>3. CASE FetchSubscription(w)
      <3> DEFINE s == worker[w].job.sub
      <3>1. s \in Subs /\ Created(s)
        BY <2>3, WorkerAtWork DEF FetchSubscription, Holds, WorkersHoldHistory
      <3>2. HasHad(s, Current(s))
        BY <3>1, CurrentIsStatus
      <3>3. /\ history' = history
            /\ worker'[w].job.sub = s /\ worker'[w].status = Current(s)
        BY <2>3 DEF FetchSubscription, FetchedStatus, Start, TypeOK
      <3>4. QED BY <3>1, <3>2, <3>3 DEF Created, HasHad
    <2>4. CASE SyncMiss(w)
      <3>1. /\ history' = history
            /\ worker'[w].job = worker[w].job /\ worker'[w].status = worker[w].status
            /\ Holds(w, "syncing")
        BY <2>4 DEF SyncMiss, Goto, TypeOK, WorkerStates
      <3>2. Sound(w)
        BY DEF WorkersHoldHistory
      <3>3. QED BY <3>1, <3>2 DEF Created, HasHad, Holds
    <2>5. CASE worker' = [worker EXCEPT ![w] = Idle]
      BY <1>5, <2>5
    <2>6. QED
      BY <1>6, <2>1, <2>2, <2>3, <2>4, <2>5
      DEF WorkerStep, Finish, SyncExisting, SyncNoOrg, SyncCreate,
          SyncCreateRefused, RecordPaidInvoice, Crash, Answer
  <1>7. worker' = worker \/ \E w \in Workers : WorkerStep(w)
    BY DEF Next, vars, OrgStep, StripeStep,
           RedeemFreePeriod, FreePeriodRunsOut, DeleteStart, DeleteRefused,
           DeleteCommit, StartCheckout, CompleteCheckout, StripeChanges,
           CancelInStripe
  <1>8. QED BY <1>3, <1>4, <1>6, <1>7

\* The listed subscriptions stay as the delete left them: Stripe has no move
\* out of an ended status, so the cancellation of the rest cannot undo one.
LEMMA DeletesProgressStep ==
    ASSUME IInv, [Next]_vars
    PROVE  DeletesProgress'
  <1> USE DEF IInv
  <1> DEFINE Kept(o) ==
        /\ \A s \in deleting[o].listed : Created(s)
        /\ deleting[o].todo \subseteq deleting[o].listed
        /\ \A s \in deleting[o].listed \ deleting[o].todo : Current(s) \in Ended
        /\ o \notin orgs => ~deleting[o].active /\ deleting[o].todo = {}
  <1>1. HistoryGrows
    BY NextGrows
  <1>2. ASSUME NEW o \in Orgs, deleting'[o] = deleting[o], o \in orgs => o \in orgs'
        PROVE  Kept(o)'
    <2>1. Kept(o) /\ deleting[o].listed \subseteq Subs
      BY DEF DeletesProgress, TypeOK, Deletions
    <2>2. QED BY <1>1, <1>2, <2>1 DEF HistoryGrows, Created, Current
  <1>3. CASE UNCHANGED <<deleting, orgs>>
    BY <1>2, <1>3 DEF DeletesProgress
  <1>4. ASSUME NEW o \in Orgs, DeleteStart(o) \/ DeleteRefused(o)
                    \/ (\E s \in Subs : CancelInStripe(o, s)) \/ DeleteCommit(o)
        PROVE  DeletesProgress'
    <2>1. \A p \in Orgs \ {o} : deleting'[p] = deleting[p] /\ (p \in orgs => p \in orgs')
      BY <1>4 DEF DeleteStart, DeleteRefused, CancelInStripe, DeleteCommit, TypeOK
    <2>2. Kept(o)'
      <3>1. CASE DeleteStart(o)
        <4>1. /\ deleting'[o].listed = Cancellable(o) /\ deleting'[o].todo = Cancellable(o)
              /\ history' = history /\ orgs' = orgs /\ o \in orgs
          BY <3>1 DEF DeleteStart, TypeOK
        <4>2. \A s \in Cancellable(o) : Created(s)
          BY CancellableIsCreated
        <4>3. QED BY <4>1, <4>2 DEF Created
      <3>2. CASE DeleteRefused(o)
        <4>1. deleting'[o] = [active |-> FALSE, listed |-> {}, todo |-> {}]
          BY <3>2 DEF DeleteRefused, TypeOK
        <4>2. QED BY <4>1
      <3>3. CASE \E s \in Subs : CancelInStripe(o, s)
        <4> PICK s \in Subs : CancelInStripe(o, s)
          BY <3>3
        <4>1. /\ deleting'[o].listed = deleting[o].listed
              /\ deleting'[o].todo = deleting[o].todo \ {s}
              /\ deleting'[o].active = deleting[o].active
              /\ orgs' = orgs
          BY DEF CancelInStripe, TypeOK, Deletions
        <4>2. Kept(o) /\ deleting[o].listed \subseteq Subs /\ Created(s)
          BY DEF DeletesProgress, TypeOK, Deletions, CancelInStripe
        <4>3. Current(s)' \in Ended
          BY <4>2, CancelInStripeGrows
        <4>4. QED BY <1>1, <4>1, <4>2, <4>3 DEF HistoryGrows, Created, Current
      <3>4. CASE DeleteCommit(o)
        <4>1. /\ deleting'[o].listed = deleting[o].listed
              /\ deleting'[o].todo = deleting[o].todo
              /\ deleting[o].todo = {} /\ ~deleting'[o].active
              /\ history' = history
          BY <3>4 DEF DeleteCommit, AllReleased, TypeOK, Deletions
        <4>2. Kept(o)
          BY DEF DeletesProgress
        <4>3. QED BY <4>1, <4>2 DEF Created, Current
      <3>5. QED BY <1>4, <3>1, <3>2, <3>3, <3>4
    <2>3. QED BY <1>2, <2>1, <2>2 DEF DeletesProgress
  <1>5. \/ UNCHANGED <<deleting, orgs>>
        \/ \E o \in Orgs : \/ DeleteStart(o) \/ DeleteRefused(o) \/ DeleteCommit(o)
                          \/ \E s \in Subs : CancelInStripe(o, s)
    BY DEF Next, vars, OrgStep, StripeStep, WorkerStep, Finish,
           RedeemFreePeriod, FreePeriodRunsOut, StartCheckout, CompleteCheckout,
           StripeChanges, HandleEvent, ReturnFromCheckout, FetchSubscription,
           SyncExisting, SyncNoOrg, SyncMiss, SyncCreate, SyncCreateRefused,
           RecordPaidInvoice, Crash
  <1>6. QED BY <1>3, <1>4, <1>5

LEMMA InvariantStep == IInv /\ [Next]_vars => IInv'
  BY TypeStep, SessionsMatchStep, WorkersHoldHistoryStep, RowsMirrorStep,
     DeletesProgressStep DEF IInv

-----------------------------------------------------------------------------
(* An event is applied at most once *)

\* A worker past the recording of an event holds an event that is recorded,
\* not applied, and held by nobody else; only what is recorded is applied.
Exclusive ==
    /\ applied \subseteq recorded
    /\ \A w \in Workers :
          ~Holds(w, "idle") /\ worker[w].job.kind # "return" =>
              /\ worker[w].job \in recorded \ applied
              /\ \A x \in Workers \ {w} :
                    ~Holds(x, "idle") => worker[x].job # worker[w].job

LEMMA InitExclusive == Init => Exclusive
  BY DEF Init, Exclusive, Holds, Idle

LEMMA ExclusiveStep ==
    ASSUME TypeOK, Exclusive, [Next]_vars
    PROVE  Exclusive'
  <1> DEFINE OfEvent(w) == ~Holds(w, "idle") /\ worker[w].job.kind # "return"
  <1>1. CASE UNCHANGED <<worker, recorded, applied>>
    BY <1>1 DEF Exclusive, Holds
  <1>2. ASSUME NEW w \in Workers, worker' = [worker EXCEPT ![w] = Idle],
               recorded' = recorded,
               \/ applied' = applied
               \/ OfEvent(w) /\ applied' = applied \cup {worker[w].job}
        PROVE  Exclusive'
    <2>1. /\ worker'[w].pc = "idle"
          /\ \A x \in Workers \ {w} : worker'[x] = worker[x]
      BY <1>2 DEF TypeOK, Idle
    <2>2. applied' \subseteq recorded'
      BY <1>2 DEF Exclusive
    <2>3. QED BY <1>2, <2>1, <2>2 DEF Exclusive, Holds
  <1>3. ASSUME NEW w \in Workers, ~Holds(w, "idle"), Answer(w), Applied(w),
               recorded' = recorded
        PROVE  Exclusive'
    BY <1>2, <1>3 DEF Answer, Applied
  <1>4. ASSUME NEW w \in Workers, UNCHANGED <<recorded, applied>>,
               \A x \in Workers \ {w} : worker'[x] = worker[x],
               \/ worker'[w].job = worker[w].job /\ ~Holds(w, "idle")
               \/ worker'[w].job.kind = "return"
                   /\ \A x \in Workers : OfEvent(x) => worker[x].job # worker'[w].job
        PROVE  Exclusive'
    BY <1>4 DEF Exclusive, Holds
  <1>5. ASSUME NEW w \in Workers, NEW e \in Emitted, HandleEvent(w, e)
        PROVE  Exclusive'
    <2>1. CASE e \in recorded
      BY <1>1, <1>5, <2>1 DEF HandleEvent, AlreadyRecorded
    <2>2. CASE e \notin recorded
      <3>1. /\ recorded' = recorded \cup {e} /\ applied' = applied
            /\ worker'[w].job = e
            /\ \A x \in Workers \ {w} : worker'[x] = worker[x]
        BY <1>5, <2>2 DEF HandleEvent, AlreadyRecorded, Start, TypeOK
      <3>2. e \in Events /\ e.kind # "return"
        BY EmittedHad DEF Events, EventKinds
      <3>3. QED BY <2>2, <3>1, <3>2 DEF Exclusive, Holds
    <2>3. QED BY <2>1, <2>2
  <1>6. ASSUME NEW w \in Workers, NEW s \in Subs, ReturnFromCheckout(w, s)
        PROVE  Exclusive'
    <2>1. /\ worker'[w].job.kind = "return"
          /\ \A x \in Workers \ {w} : worker'[x] = worker[x]
      BY <1>6 DEF ReturnFromCheckout, Start, TypeOK
    <2>2. QED BY <1>4, <1>6, <2>1 DEF ReturnFromCheckout, dbVars
  <1>7. ASSUME NEW w \in Workers, FetchSubscription(w) \/ SyncMiss(w)
        PROVE  Exclusive'
    <2>1. /\ worker'[w].job = worker[w].job /\ ~Holds(w, "idle")
          /\ \A x \in Workers \ {w} : worker'[x] = worker[x]
      BY <1>7 DEF FetchSubscription, SyncMiss, Start, Goto, Holds, TypeOK, WorkerStates
    <2>2. QED BY <1>4, <1>7, <2>1 DEF FetchSubscription, SyncMiss, dbVars
  <1>8. ASSUME NEW w \in Workers,
               SyncExisting(w) \/ SyncNoOrg(w) \/ SyncCreate(w) \/ RecordPaidInvoice(w)
        PROVE  Exclusive'
    BY <1>3, <1>8 DEF SyncExisting, SyncNoOrg, SyncCreate, RecordPaidInvoice, Holds
  <1>9. ASSUME NEW w \in Workers, SyncCreateRefused(w) \/ Crash(w)
        PROVE  Exclusive'
    BY <1>2, <1>9 DEF SyncCreateRefused, Crash, dbVars
  <1>10. \/ UNCHANGED <<worker, recorded, applied>>
         \/ \E w \in Workers : WorkerStep(w)
    BY DEF Next, vars, dbVars, OrgStep, StripeStep,
           RedeemFreePeriod, FreePeriodRunsOut, DeleteStart, DeleteRefused,
           DeleteCommit, StartCheckout, CompleteCheckout, StripeChanges,
           CancelInStripe
  <1>11. QED
    BY <1>1, <1>5, <1>6, <1>7, <1>8, <1>9, <1>10 DEF WorkerStep, Finish

-----------------------------------------------------------------------------
(* The theorems *)

LEMMA SpecIInv == Spec => []IInv
  <1>1. IInv /\ UNCHANGED vars => IInv'
    BY InvariantStep
  <1>2. QED BY InitIInv, InvariantStep, PTL DEF Spec

\* Every variable keeps its type: in particular a worker that is about to
\* write holds a subscription and one of Stripe's statuses, and a delete works
\* on subscriptions of ours only.
THEOREM TypeCorrect == Spec => []TypeOK
  BY SpecIInv, PTL DEF IInv

\* Every row of billing.Subscription with a provider_ref only ever shows a
\* status that this very subscription has had in Stripe, with any number of
\* workers, events, orders, redeliveries, crashes and deletions.
THEOREM RowsAlwaysMirror == Spec => []RowsMirrorStripe
  BY SpecIInv, PTL DEF IInv

\* When an organisation has been deleted, every subscription that the delete
\* listed (release_stripe_subscriptions) is ended in Stripe, however many
\* deletes failed half way before and whatever Stripe did in between.
THEOREM DeletedOrgStops == Spec => []DeletedOrgStopsWhatItListed
  <1>1. IInv => DeletedOrgStopsWhatItListed
    BY DEF IInv, DeletesProgress, DeletedOrgStopsWhatItListed
  <1>2. QED BY <1>1, SpecIInv, PTL

\* The row that handle_event inserts in StripeEvent makes each effect happen
\* at most once: no event is being applied by two workers, or after it was.
THEOREM EffectsHappenOnce == Spec => []AppliedAtMostOnce
  <1>1. TypeOK /\ Exclusive /\ [Next]_vars => Exclusive'
    BY ExclusiveStep
  <1>2. ASSUME TypeOK, Exclusive
        PROVE  AppliedAtMostOnce
    <2>1. ASSUME NEW w \in Workers, NEW e \in recorded, Applying(w, e)
          PROVE  /\ e \notin applied
                 /\ \A x \in Workers \ {w} : ~Applying(x, e)
      <3>1. e.kind # "return" /\ ~Holds(w, "idle") /\ worker[w].job = e
        BY <1>2, <2>1 DEF TypeOK, Events, EventKinds, Applying, Holds
      <3>2. QED BY <1>2, <3>1 DEF Exclusive, Applying, Holds
    <2>2. QED BY <2>1 DEF AppliedAtMostOnce
  <1>3. QED BY <1>1, <1>2, InitExclusive, TypeCorrect, PTL DEF Spec

-----------------------------------------------------------------------------
(* What a subscription does to an organisation's access: the free period it
   was promised, its end by a paid subscription, and the end of the
   organisation itself. *)

\* Only the subscription of a checkout with a trial has ever been trialing.
TrialsAreKnown == \A s \in Subs : HasHad(s, "trialing") => session[s].trial

\* A checkout has a trial only where a free period was granted, and while that
\* free period is open no row of the organisation is managed by Stripe: every
\* managed status written closes it, and start_checkout wanted none.
TrialsWait ==
    \A s \in Subs :
        session[s].state # "none" /\ session[s].trial /\ Owner(s) \in orgs =>
            /\ free[Owner(s)] # "none"
            /\ free[Owner(s)] = "trialing" => ~IsManaged(Owner(s))

\* A session that is not open has no trial yet.
NoTrialYet == \A s \in Subs : session[s].state = "none" => ~session[s].trial

\* No row, and no free period, belongs to an organisation that is gone.
NoOrphans ==
    /\ \A s \in Subs : Owner(s) \notin orgs => rows[s] = <<>>
    /\ \A o \in Orgs \ orgs : free[o] = "none"

AInv == IInv /\ NoOrphans /\ TrialsAreKnown /\ NoTrialYet /\ TrialsWait

-----------------------------------------------------------------------------
(* The organisation of a checkout session never changes. *)

LEMMA OwnerKept ==
    ASSUME TypeOK, [Next]_vars, NEW s \in Subs
    PROVE  Owner(s)' = Owner(s)
  <1>1. CASE session' = session
    BY <1>1 DEF Owner
  <1>2. ASSUME NEW t \in Subs, StartCheckout(t) \/ CompleteCheckout(t)
        PROVE  Owner(s)' = Owner(s)
    <2>1. session'[t].org = session[t].org
      BY <1>2 DEF StartCheckout, CompleteCheckout, TypeOK, Sessions
    <2>2. s # t => session'[s] = session[s]
      BY <1>2 DEF StartCheckout, CompleteCheckout, TypeOK, Sessions
    <2>3. QED BY <2>1, <2>2 DEF Owner
  <1>3. session' = session \/ \E t \in Subs : StartCheckout(t) \/ CompleteCheckout(t)
    BY DEF Next, vars, OrgStep, StripeStep, WorkerStep, Finish,
           RedeemFreePeriod, FreePeriodRunsOut, DeleteStart, DeleteRefused,
           DeleteCommit, CancelInStripe, StripeChanges,
           HandleEvent, ReturnFromCheckout, FetchSubscription, SyncExisting,
           SyncNoOrg, SyncMiss, SyncCreate, SyncCreateRefused,
           RecordPaidInvoice, Crash
  <1>4. QED BY <1>1, <1>2, <1>3

LEMMA AppendAddsOne ==
    ASSUME NEW q \in Seq(Statuses), NEW st \in Statuses,
           NEW i \in DOMAIN Append(q, st)
    PROVE  Append(q, st)[i] = st \/ (i \in DOMAIN q /\ Append(q, st)[i] = q[i])
  OBVIOUS

\* What a sync that writes does: one row of one subscription of an
\* organisation that exists, and the free period of that organisation.
LEMMA SyncWrites ==
    ASSUME IInv, NoOrphans, NEW w \in Workers, SyncExisting(w) \/ SyncCreate(w)
    PROVE  /\ worker[w].job.sub \in Subs
           /\ Owner(worker[w].job.sub) \in orgs
           /\ session[worker[w].job.sub].state = "complete"
           /\ worker[w].status \in Statuses
           /\ HasHad(worker[w].job.sub, worker[w].status)
           /\ \A t \in Subs \ {worker[w].job.sub} : rows'[t] = rows[t]
           /\ \E i \in DOMAIN rows'[worker[w].job.sub] :
                 rows'[worker[w].job.sub][i] = worker[w].status
           /\ \A i \in DOMAIN rows'[worker[w].job.sub] :
                 \/ rows'[worker[w].job.sub][i] = worker[w].status
                 \/ /\ i \in DOMAIN rows[worker[w].job.sub]
                    /\ rows'[worker[w].job.sub][i] = rows[worker[w].job.sub][i]
           /\ TakeOver(Owner(worker[w].job.sub), worker[w].status)
           /\ UNCHANGED <<orgs, clock, session, history>>
  <1> USE DEF IInv
  <1> DEFINE s == worker[w].job.sub
             st == worker[w].status
  <1>1. /\ s \in Subs /\ st \in Statuses /\ HasHad(s, st) /\ Created(s)
    BY WorkerAtWork DEF SyncExisting, SyncCreate, Holds, WorkersHoldHistory
  <1>2. /\ rows[s] \in Seq(Statuses)
        /\ session[s].state = "complete"
    BY <1>1 DEF TypeOK, SessionsMatch
  <1>3. Owner(s) \in orgs
    BY <1>1 DEF SyncExisting, Updated, SyncCreate, ForeignKeyHolds, NoOrphans
  <1>4. /\ \A t \in Subs \ {s} : rows'[t] = rows[t]
        /\ TakeOver(Owner(s), st)
        /\ UNCHANGED <<orgs, clock, session, history>>
    BY DEF SyncExisting, Updated, SyncCreate, ForeignKeyHolds, TypeOK
  <1>5. /\ \E i \in DOMAIN rows'[s] : rows'[s][i] = st
        /\ \A i \in DOMAIN rows'[s] :
              rows'[s][i] = st \/ (i \in DOMAIN rows[s] /\ rows'[s][i] = rows[s][i])
    <2>1. CASE SyncExisting(w)
      <3>1. rows'[s] = [rows[s] EXCEPT ![1] = st]
        BY <1>1, <2>1 DEF SyncExisting, Updated, TypeOK
      <3>2. 1 \in DOMAIN rows[s]
        BY <1>2, <2>1 DEF SyncExisting
      <3>3. QED BY <3>1, <3>2
    <2>2. CASE SyncCreate(w)
      <3>1. rows'[s] = Append(rows[s], st)
        BY <1>1, <2>2 DEF SyncCreate, TypeOK
      <3>2. \E i \in DOMAIN rows'[s] : rows'[s][i] = st
        <4> HIDE DEF s, st
        <4>1. \E k \in DOMAIN Append(rows[s], st) : Append(rows[s], st)[k] = st
          BY <1>1, <1>2, AppendKeeps
        <4>2. QED BY <3>1, <4>1
      <3>3. \A i \in DOMAIN rows'[s] :
                rows'[s][i] = st \/ (i \in DOMAIN rows[s] /\ rows'[s][i] = rows[s][i])
        <4> HIDE DEF s, st
        <4>1. QED BY <1>1, <1>2, <3>1, AppendAddsOne
      <3>4. QED BY <3>2, <3>3
    <2>3. QED BY <2>1, <2>2
  <1>6. QED BY <1>1, <1>2, <1>3, <1>4, <1>5

\* The steps that leave rows, free, orgs, session and history alone are of no
\* interest here; the others are these.
LEMMA WhatMoves ==
    ASSUME [Next]_vars
    PROVE  \/ UNCHANGED <<orgs, free, session, history, rows>>
           \/ \E o \in Orgs : \/ RedeemFreePeriod(o) \/ DeleteCommit(o)
                              \/ \E s \in Subs : CancelInStripe(o, s)
           \/ \E s \in Subs : StartCheckout(s) \/ CompleteCheckout(s) \/ StripeChanges(s)
           \/ \E w \in Workers : SyncExisting(w) \/ SyncCreate(w)
  BY DEF Next, vars, dbVars, OrgStep, StripeStep, WorkerStep, Finish,
         FreePeriodRunsOut, DeleteStart, DeleteRefused, HandleEvent,
         ReturnFromCheckout, FetchSubscription, SyncNoOrg, SyncMiss,
         SyncCreateRefused, RecordPaidInvoice, Crash

-----------------------------------------------------------------------------
(* The invariant *)

LEMMA InitAInv == Init => AInv
  <1> SUFFICES ASSUME Init PROVE AInv
    OBVIOUS
  <1>1. IInv
    BY InitIInv
  <1>2. ASSUME NEW s \in Subs
        PROVE  /\ history[s] = <<>> /\ Owner(s) \in orgs
               /\ session[s].state = "none" /\ ~session[s].trial
    <2>1. session[s] \in [state : {"none"}, org : Orgs, trial : {FALSE}]
      BY DEF Init
    <2>2. QED BY <2>1 DEF Init, Owner
  <1>3. DOMAIN <<>> = {}
    OBVIOUS
  <1>4. NoOrphans
    BY <1>2 DEF Init, NoOrphans
  <1>5. TrialsAreKnown /\ NoTrialYet /\ TrialsWait
    BY <1>2, <1>3 DEF TrialsAreKnown, NoTrialYet, TrialsWait, HasHad
  <1>6. QED BY <1>1, <1>4, <1>5 DEF AInv

LEMMA NoOrphansStep ==
    ASSUME AInv, [Next]_vars
    PROVE  NoOrphans'
  <1> USE DEF AInv, IInv
  <1>1. \A s \in Subs : Owner(s)' = Owner(s) /\ Owner(s) \in Orgs
    BY OwnerKept, OwnerType
  <1>2. CASE UNCHANGED <<orgs, free, rows>>
    BY <1>1, <1>2 DEF NoOrphans
  <1>3. ASSUME NEW o \in Orgs, RedeemFreePeriod(o)
        PROVE  NoOrphans'
    BY <1>1, <1>3 DEF RedeemFreePeriod, NoOrphans, dbVars, TypeOK
  <1>4. ASSUME NEW o \in Orgs, DeleteCommit(o)
        PROVE  NoOrphans'
    <2>1. ASSUME NEW s \in Subs, Owner(s) \notin orgs'
          PROVE  rows'[s] = <<>>
      <3>1. CASE Owner(s) = o
        <4>1. rows[s] = <<>> \/ Created(s)
          <5>1. CASE rows[s] # <<>>
            <6>1. rows[s] \in Seq(Statuses) /\ 1 \in DOMAIN rows[s]
              BY <5>1 DEF TypeOK
            <6>2. HasHad(s, rows[s][1])
              BY <6>1 DEF RowsMirrorStripe
            <6>3. QED BY <6>2 DEF HasHad, Created
          <5>2. QED BY <5>1
        <4>2. Created(s) => s \in OwnedBy(o)
          BY <3>1 DEF OwnedBy, SessionsMatch
        <4>3. QED BY <1>4, <4>1, <4>2 DEF DeleteCommit
      <3>2. CASE Owner(s) # o
        BY <1>4, <2>1, <3>2 DEF DeleteCommit, NoOrphans
      <3>3. QED BY <3>1, <3>2
    <2>2. \A p \in Orgs \ orgs' : free'[p] = "none"
      BY <1>4 DEF DeleteCommit, NoOrphans, TypeOK
    <2>3. QED BY <1>1, <2>1, <2>2 DEF NoOrphans
  <1>5. ASSUME NEW w \in Workers, SyncExisting(w) \/ SyncCreate(w)
        PROVE  NoOrphans'
    <2> DEFINE s == worker[w].job.sub
    <2>1. /\ s \in Subs /\ Owner(s) \in orgs /\ orgs' = orgs
          /\ \A t \in Subs \ {s} : rows'[t] = rows[t]
          /\ TakeOver(Owner(s), worker[w].status)
      BY <1>5, SyncWrites
    <2>2. \A o \in Orgs : o # Owner(s) => free'[o] = free[o]
      BY <2>1 DEF TakeOver, TypeOK
    <2>3. \A t \in Subs : Owner(t) \notin orgs => rows'[t] = <<>>
      BY <2>1 DEF NoOrphans
    <2>4. \A o \in Orgs \ orgs : free'[o] = "none"
      BY <2>1, <2>2 DEF NoOrphans
    <2>5. QED
      <3> HIDE DEF s
      <3>1. QED BY <1>1, <2>1, <2>3, <2>4 DEF NoOrphans
  <1>6. \/ UNCHANGED <<orgs, free, rows>>
        \/ \E o \in Orgs : RedeemFreePeriod(o) \/ DeleteCommit(o)
        \/ \E w \in Workers : SyncExisting(w) \/ SyncCreate(w)
    BY WhatMoves DEF CancelInStripe, StartCheckout, CompleteCheckout,
                     StripeChanges, dbVars
  <1>7. QED BY <1>2, <1>3, <1>4, <1>5, <1>6

LEMMA TrialsAreKnownStep ==
    ASSUME AInv, [Next]_vars
    PROVE  TrialsAreKnown' /\ NoTrialYet'
  <1> USE DEF AInv, IInv
  <1>1. CASE UNCHANGED <<session, history>>
    BY <1>1 DEF TrialsAreKnown, NoTrialYet, HasHad
  <1>2. ASSUME NEW s \in Subs, StartCheckout(s)
        PROVE  TrialsAreKnown' /\ NoTrialYet'
    <2>1. history[s] = <<>> /\ history' = history
      BY <1>2 DEF StartCheckout, SessionsMatch, Created
    <2>2. /\ session'[s].state = "open"
          /\ \A t \in Subs \ {s} : session'[t] = session[t]
      BY <1>2 DEF StartCheckout, TypeOK, Sessions
    <2>3. DOMAIN history[s] = {}
      BY <2>1
    <2>4. QED BY <2>1, <2>2, <2>3 DEF TrialsAreKnown, NoTrialYet, HasHad
  <1>3. ASSUME NEW s \in Subs, CompleteCheckout(s)
        PROVE  TrialsAreKnown' /\ NoTrialYet'
    <2>1. /\ session'[s].state = "complete" /\ session'[s].trial = session[s].trial
          /\ \A t \in Subs \ {s} : session'[t] = session[t] /\ history'[t] = history[t]
      BY <1>3 DEF CompleteCheckout, TypeOK, Sessions
    <2>2. PICK st : /\ history' = [history EXCEPT ![s] = <<st>>]
                    /\ st = "trialing" => session[s].trial
      BY <1>3 DEF CompleteCheckout
    <2>3. \A k \in DOMAIN history'[s] : history'[s][k] = st
      BY <2>2 DEF TypeOK
    <2>4. QED BY <2>1, <2>2, <2>3 DEF TrialsAreKnown, NoTrialYet, HasHad
  <1>4. ASSUME NEW s \in Subs, NEW st \in Statuses \ {"trialing"}, session' = session,
               history' = [history EXCEPT ![s] = Append(@, st)]
        PROVE  TrialsAreKnown' /\ NoTrialYet'
    <2>1. /\ history[s] \in Seq(Statuses) /\ history'[s] = Append(history[s], st)
          /\ \A t \in Subs \ {s} : history'[t] = history[t]
      BY <1>4 DEF TypeOK
    <2>2. HasHad(s, "trialing")' => HasHad(s, "trialing")
      BY <2>1, AppendAddsOne DEF HasHad
    <2>3. QED BY <1>4, <2>1, <2>2 DEF TrialsAreKnown, NoTrialYet, HasHad
  <1>5. ASSUME NEW s \in Subs, StripeChanges(s)
        PROVE  TrialsAreKnown' /\ NoTrialYet'
    <2>1. \A x, st : <<x, st>> \in StripeMoves => st # "trialing"
      BY DEF StripeMoves
    <2>2. QED BY <1>4, <1>5, <2>1 DEF StripeChanges
  <1>6. ASSUME NEW o \in Orgs, NEW s \in Subs, CancelInStripe(o, s)
        PROVE  TrialsAreKnown' /\ NoTrialYet'
    <2>1. "canceled" \in Statuses \ {"trialing"}
      BY DEF Statuses, Ended
    <2>2. QED BY <1>1, <1>4, <1>6, <2>1 DEF CancelInStripe
  <1>7. QED
    BY <1>1, <1>2, <1>3, <1>5, <1>6, WhatMoves
    DEF RedeemFreePeriod, DeleteCommit, SyncExisting, SyncCreate, dbVars

\* A subscription that no checkout has created has no row.
LEMMA NoRowYet ==
    ASSUME IInv, NEW s \in Subs, session[s].state # "complete"
    PROVE  DOMAIN rows[s] = {}
  <1>1. ASSUME NEW i \in DOMAIN rows[s]
        PROVE  FALSE
    <2>1. HasHad(s, rows[s][i])
      BY DEF IInv, RowsMirrorStripe
    <2>2. DOMAIN history[s] = {}
      BY DEF IInv, SessionsMatch, Created
    <2>3. QED BY <2>1, <2>2 DEF HasHad
  <1>2. QED BY <1>1

LEMMA TrialsWaitStep ==
    ASSUME AInv, [Next]_vars
    PROVE  TrialsWait'
  <1> USE DEF AInv, IInv
  <1> DEFINE Waits(o) == free[o] # "none" /\ (free[o] = "trialing" => ~IsManaged(o))
             HasTrial(s) == session[s].state # "none" /\ session[s].trial
  <1>1. \A s \in Subs : Owner(s)' = Owner(s) /\ Owner(s) \in Orgs
    BY OwnerKept, OwnerType
  <1>2. CASE UNCHANGED <<orgs, free, session, rows>>
    BY <1>2 DEF TrialsWait, Owner, IsManaged, OwnedBy
  <1>3. ASSUME NEW o \in Orgs, RedeemFreePeriod(o)
        PROVE  TrialsWait'
    <2>1. \A s \in Subs : HasTrial(s) => Owner(s) # o
      BY <1>3 DEF RedeemFreePeriod, FreePeriodUsed, TrialsWait
    <2>2. \A p \in Orgs \ {o} : free'[p] = free[p]
      BY <1>3 DEF RedeemFreePeriod, TypeOK
    <2>3. UNCHANGED <<orgs, session, rows>>
      BY <1>3 DEF RedeemFreePeriod, dbVars
    <2>4. QED BY <1>1, <2>1, <2>2, <2>3 DEF TrialsWait, Owner, IsManaged, OwnedBy
  <1>4. ASSUME NEW o \in Orgs, DeleteCommit(o)
        PROVE  TrialsWait'
    <2>1. /\ orgs' = orgs \ {o} /\ session' = session
          /\ \A p \in Orgs \ {o} : free'[p] = free[p]
      BY <1>4 DEF DeleteCommit, TypeOK
    <2>2. \A s \in Subs : Owner(s) # o => rows'[s] = rows[s]
      BY <1>4 DEF DeleteCommit, OwnedBy
    <2>3. \A p \in Orgs \ {o} : IsManaged(p)' => IsManaged(p)
      BY <2>1, <2>2 DEF IsManaged, OwnedBy, Owner
    <2>4. QED BY <1>1, <2>1, <2>3 DEF TrialsWait, Owner
  <1>5. ASSUME NEW s \in Subs, StartCheckout(s)
        PROVE  TrialsWait'
    <2>1. /\ UNCHANGED <<orgs, free, rows>>
          /\ session'[s].trial = CheckoutTrial(Owner(s)) /\ ~IsManaged(Owner(s))
          /\ \A t \in Subs \ {s} : session'[t] = session[t]
      BY <1>5 DEF StartCheckout, TypeOK, Sessions, dbVars
    <2>2. DOMAIN rows[s] = {}
      BY <1>5, NoRowYet DEF StartCheckout
    <2>3. \A o \in Orgs : IsManaged(o)' => IsManaged(o)
      BY <2>1, <2>2 DEF IsManaged, OwnedBy, Owner
    <2>4. ASSUME NEW t \in Subs, HasTrial(t)', Owner(t) \in orgs
          PROVE  Waits(Owner(t)) /\ ~(IsManaged(Owner(t)) /\ free[Owner(t)] = "trialing")
      <3>1. CASE t = s
        BY <2>1, <2>4, <3>1 DEF CheckoutTrial
      <3>2. CASE t # s
        BY <2>1, <2>4, <3>2 DEF TrialsWait
      <3>3. QED BY <3>1, <3>2
    <2>5. ASSUME NEW t \in Subs, HasTrial(t)', Owner(t)' \in orgs'
          PROVE  Waits(Owner(t))'
      <3> DEFINE o == Owner(t)
      <3>1. o \in Orgs /\ o \in orgs /\ o' = o
        BY <1>1, <2>1, <2>5
      <3>2. Waits(o)
        BY <2>4, <2>5, <3>1
      <3>3. QED BY <2>1, <2>3, <3>1, <3>2 DEF IsManaged, OwnedBy
    <2>6. QED BY <2>5 DEF TrialsWait
  <1>6. ASSUME NEW s \in Subs, CompleteCheckout(s)
        PROVE  TrialsWait'
    <2>1. /\ UNCHANGED <<orgs, free, rows>>
          /\ \A t \in Subs : /\ session'[t].state = "none" <=> session[t].state = "none"
                            /\ session'[t].trial = session[t].trial
                            /\ session'[t].org = session[t].org
      BY <1>6 DEF CompleteCheckout, TypeOK, Sessions, dbVars
    <2>2. QED BY <2>1 DEF TrialsWait, Owner, IsManaged, OwnedBy
  <1>7. ASSUME NEW w \in Workers, SyncExisting(w) \/ SyncCreate(w)
        PROVE  TrialsWait'
    <2> DEFINE s == worker[w].job.sub
               st == worker[w].status
    <2>1. /\ s \in Subs /\ UNCHANGED <<orgs, session>>
          /\ \A t \in Subs \ {s} : rows'[t] = rows[t]
          /\ \A i \in DOMAIN rows'[s] :
                rows'[s][i] = st \/ (i \in DOMAIN rows[s] /\ rows'[s][i] = rows[s][i])
          /\ TakeOver(Owner(s), st)
      BY <1>7, SyncWrites
    <2> HIDE DEF s, st
    <2>2. ASSUME NEW o \in Orgs, Waits(o)
          PROVE  /\ free'[o] # "none"
                 /\ free'[o] = "trialing" => ~IsManaged(o)'
      <3>1. free'[o] # "none" /\ (free'[o] = "trialing" => free[o] = "trialing")
        BY <2>1, <2>2 DEF TakeOver, TypeOK
      <3>2. ASSUME free'[o] = "trialing", IsManaged(o)'
            PROVE  FALSE
        <4> PICK t \in Subs : /\ session[t].state # "none" /\ Owner(t) = o
                              /\ \E i \in DOMAIN rows'[t] : rows'[t][i] \in Managed
          BY <2>1, <3>2 DEF IsManaged, OwnedBy, Owner
        <4>1. PICK i \in DOMAIN rows'[t] : rows'[t][i] \in Managed
          OBVIOUS
        <4>2. t # s \/ rows'[t][i] # st => i \in DOMAIN rows[t] /\ rows'[t][i] = rows[t][i]
          BY <2>1
        <4>3. CASE i \in DOMAIN rows[t] /\ rows'[t][i] = rows[t][i]
          BY <2>2, <3>1, <3>2, <4>1, <4>3 DEF IsManaged, OwnedBy
        <4>4. CASE t = s /\ rows'[t][i] = st
          BY <2>1, <3>1, <3>2, <4>1, <4>4 DEF TakeOver, TypeOK
        <4>5. QED BY <4>2, <4>3, <4>4
      <3>3. QED BY <3>1, <3>2
    <2>3. QED BY <1>1, <2>1, <2>2 DEF TrialsWait, Owner
  <1>8. UNCHANGED <<orgs, free, session, rows>> => TrialsWait'
    BY <1>2
  <1>9. QED
    BY <1>3, <1>4, <1>5, <1>6, <1>7, <1>8, WhatMoves
    DEF StripeChanges, CancelInStripe, dbVars

LEMMA AInvStep == AInv /\ [Next]_vars => AInv'
  BY InvariantStep, NoOrphansStep, TrialsAreKnownStep, TrialsWaitStep DEF AInv

LEMMA SpecAInv == Spec => []AInv
  <1>1. AInv /\ UNCHANGED vars => AInv'
    BY AInvStep
  <1>2. QED BY InitAInv, AInvStep, PTL DEF Spec

-----------------------------------------------------------------------------
(* The theorems *)

\* Once an organisation is deleted, neither a late event, nor a sync that had
\* decided to insert, nor a code redeemed brings a plan row of it back.
THEOREM NothingComesBack == Spec => []NothingOutlivesItsOrg
  <1>1. AInv => NothingOutlivesItsOrg
    BY OwnerType DEF AInv, IInv, NoOrphans, NothingOutlivesItsOrg
  <1>2. QED BY <1>1, SpecAInv, PTL

\* sync_stripe_subscription never takes the free year from an organisation
\* that has access without leaving it a Stripe row that grants access.
THEOREM TakeOverIsSafe == Spec => TakeOverKeepsAccess
  <1>1. ASSUME AInv, [Next]_vars
        PROVE  KeepsAccess
    <2>1. SUFFICES ASSUME NEW o \in orgs', free[o] = "trialing",
                          free'[o] = "canceled", HasAccess(o)
                   PROVE  PaidAccess(o)'
      BY DEF KeepsAccess
    <2>2. PICK w \in Workers : SyncExisting(w) \/ SyncCreate(w)
      BY <1>1, <2>1, WhatMoves
      DEF RedeemFreePeriod, DeleteCommit, CancelInStripe, StartCheckout,
          CompleteCheckout, StripeChanges, AInv, IInv, TypeOK
    <2> DEFINE s == worker[w].job.sub
               st == worker[w].status
    <2>3. /\ s \in Subs /\ Owner(s) \in orgs /\ session[s].state = "complete"
          /\ HasHad(s, st)
          /\ \E i \in DOMAIN rows'[s] : rows'[s][i] = st
          /\ TakeOver(Owner(s), st)
          /\ UNCHANGED <<orgs, clock, session, history>>
      BY <1>1, <2>2, SyncWrites DEF AInv
    <2> HIDE DEF s, st
    <2>4. o = Owner(s) /\ st \in Managed
      BY <1>1, <2>1, <2>3 DEF TakeOver, AInv, IInv, TypeOK
    <2>5. st = "trialing" => session[s].trial /\ clock[o] # "over"
      <3>1. SUFFICES ASSUME st = "trialing"
                     PROVE  session[s].trial /\ clock[o] # "over"
        OBVIOUS
      <3>2. session[s].trial
        BY <1>1, <2>3, <3>1 DEF AInv, TrialsAreKnown
      <3>3. ~IsManaged(o)
        BY <1>1, <2>1, <2>3, <2>4, <3>2 DEF AInv, TrialsWait
      <3>4. ~PaidAccess(o)
        BY <3>3 DEF PaidAccess, IsManaged, Managed
      <3>5. QED BY <2>1, <3>2, <3>4 DEF HasAccess
    <2>6. s \in OwnedBy(o)'
      BY <2>3, <2>4 DEF OwnedBy, Owner
    <2>7. QED BY <2>3, <2>4, <2>5, <2>6 DEF PaidAccess, Managed
  <1>2. QED BY <1>1, SpecAInv, PTL DEF Spec, TakeOverKeepsAccess

\* The rows implement the promise of FreePeriod: one free period per
\* organisation, never reopened, whatever Stripe, the workers and the deletes do.
THEOREM FreePeriodIsKept == Spec => FreePeriodPromise
  <1>1. ASSUME Init
        PROVE  FP!Init
    BY <1>1 DEF Init, FP!Init, PeriodOf
  <1>2. ASSUME AInv, [Next]_vars
        PROVE  [FP!Next]_PeriodOf
    <2> USE <1>2 DEF AInv, IInv
    <2>1. CASE UNCHANGED <<orgs, free>>
      BY <2>1 DEF PeriodOf
    <2>2. ASSUME NEW o \in Orgs, RedeemFreePeriod(o)
          PROVE  FP!Next
      <3>1. PeriodOf[o] = "none" /\ PeriodOf' = [PeriodOf EXCEPT ![o] = "open"]
        BY <2>2 DEF RedeemFreePeriod, FreePeriodUsed, PeriodOf, TypeOK
      <3>2. FP!Grant(o)
        BY <3>1 DEF FP!Grant
      <3>3. QED BY <3>2 DEF FP!Next
    <2>3. ASSUME NEW o \in Orgs, DeleteCommit(o)
          PROVE  FP!Next
      <3>1. o \in orgs
        BY <2>3 DEF DeleteCommit, DeletesProgress
      <3>2. PeriodOf[o] # "gone" /\ PeriodOf' = [PeriodOf EXCEPT ![o] = "gone"]
        BY <2>3, <3>1 DEF DeleteCommit, PeriodOf, TypeOK
      <3>3. FP!Leave(o)
        BY <3>2 DEF FP!Leave
      <3>4. QED BY <3>3 DEF FP!Next
    <2>4. ASSUME NEW w \in Workers, SyncExisting(w) \/ SyncCreate(w)
          PROVE  [FP!Next]_PeriodOf
      <3> DEFINE o == Owner(worker[w].job.sub)
      <3>1. /\ o \in Orgs /\ o \in orgs /\ orgs' = orgs
            /\ TakeOver(o, worker[w].status)
        BY <2>4, SyncWrites, OwnerType
      <3> HIDE DEF o
      <3>2. CASE free' = free
        BY <2>1, <3>1, <3>2
      <3>3. CASE free' # free
        <4>1. free[o] = "trialing" /\ free' = [free EXCEPT ![o] = "canceled"]
          BY <3>1, <3>3 DEF TakeOver
        <4>2. /\ PeriodOf[o] = "open"
              /\ PeriodOf' = [p \in Orgs |-> IF p \in {o} THEN "closed" ELSE PeriodOf[p]]
          BY <3>1, <4>1 DEF PeriodOf, TypeOK
        <4>3. FP!Close({o})
          BY <4>2 DEF FP!Close
        <4>4. QED BY <3>1, <4>3 DEF FP!Next
      <3>4. QED BY <3>2, <3>3
    <2>5. \/ UNCHANGED <<orgs, free>>
          \/ \E o \in Orgs : RedeemFreePeriod(o) \/ DeleteCommit(o)
          \/ \E w \in Workers : SyncExisting(w) \/ SyncCreate(w)
      BY WhatMoves DEF CancelInStripe, StartCheckout, CompleteCheckout, StripeChanges
    <2>6. QED BY <2>1, <2>2, <2>3, <2>4, <2>5
  <1>3. QED
    BY <1>1, <1>2, SpecAInv, PTL DEF Spec, FreePeriodPromise, FP!Spec

=============================================================================
