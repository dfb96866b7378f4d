------------------------- MODULE StripeMirrorProofs -------------------------
(***************************************************************************)
(* How the database of StripeSync keeps up with Stripe, for any number of  *)
(* organisations, subscriptions and workers: what crashes cost, what an    *)
(* event leaves behind, and what overlapping workers cost.                 *)
(***************************************************************************)
EXTENDS StripeSyncProofs, FiniteSetTheorems

(* What a crash costs *)

\* Only what is recorded is ever answered.
LossInv == acked \subseteq recorded /\ crashes <= MaxCrashes /\ LossesAreCounted

LEMMA InitLossInv == Init => LossInv
  <1> SUFFICES ASSUME Init PROVE LossInv
    OBVIOUS
  <1>1. Lost = {}
    BY DEF Init, Lost
  <1>2. QED
    BY <1>1, FS_EmptySet, BoundsAssumption DEF Init, LossInv, LossesAreCounted

\* A worker at work on an event is applying it.
LEMMA HeldIsApplying ==
    ASSUME TypeOK, NEW w \in Workers
    PROVE  \A e \in Events : Applying(w, e) <=> ~Holds(w, "idle") /\ worker[w].job = e
  <1>1. worker[w] \in WorkerStates
    BY DEF TypeOK
  <1>2. worker[w].pc \in {"idle", "fetching", "syncing", "creating", "invoicing"}
    BY <1>1 DEF WorkerStates
  <1>3. QED BY <1>2 DEF Applying, Holds

LEMMA NoneLost ==
    ASSUME LossesAreCounted, crashes' = crashes, Lost' \subseteq Lost, crashes \in Nat
    PROVE  LossesAreCounted'
  <1>1. /\ IsFiniteSet(Lost') /\ Cardinality(Lost') <= Cardinality(Lost)
        /\ Cardinality(Lost) \in Nat /\ Cardinality(Lost') \in Nat
    BY FS_Subset, FS_CardinalityType DEF LossesAreCounted
  <1>2. QED BY <1>1 DEF LossesAreCounted

LEMMA LossStep ==
    ASSUME IInv, Exclusive, LossInv, [Next]_vars
    PROVE  LossInv'
  <1> USE DEF IInv
  <1>1. /\ TypeOK' /\ crashes \in Nat /\ recorded \subseteq Events
        /\ \A e \in Events : e.sub \in Subs /\ e.kind # "return"
    BY TypeStep DEF TypeOK, Events, EventKinds
  <1>2. \A s \in Subs : Owner(s)' = Owner(s)
    BY OwnerKept
  <1>3. \A w \in Workers : \A e \in Events :
            /\ Applying(w, e) <=> ~Holds(w, "idle") /\ worker[w].job = e
            /\ Applying(w, e)' <=> ~Holds(w, "idle")' /\ worker[w].job' = e
    <2>1. ASSUME NEW w \in Workers
          PROVE  \A e \in Events :
                    Applying(w, e)' <=> ~Holds(w, "idle")' /\ worker[w].job' = e
      <3>1. worker'[w] \in WorkerStates
        BY <1>1 DEF TypeOK
      <3>2. worker'[w].pc \in {"idle", "fetching", "syncing", "creating", "invoicing"}
        BY <3>1 DEF WorkerStates
      <3>3. QED BY <3>2 DEF Applying, Holds
    <2>2. QED BY <2>1, HeldIsApplying
  <1>4. CASE UNCHANGED <<recorded, applied, acked, worker, crashes>> /\ orgs' \subseteq orgs
    <2>1. Lost' \subseteq Lost
      BY <1>1, <1>2, <1>4 DEF Lost, Applying
    <2>2. QED BY <1>1, <1>4, <2>1, NoneLost DEF LossInv
  <1>5. ASSUME NEW w \in Workers, NEW e \in Emitted, HandleEvent(w, e)
        PROVE  LossInv'
    <2>1. CASE e \in recorded
      <3>1. /\ UNCHANGED <<recorded, applied, worker, crashes, orgs>>
            /\ acked' = acked \cup {e}
        BY <1>5, <2>1 DEF HandleEvent, AlreadyRecorded
      <3>2. Lost' \subseteq Lost
        BY <1>1, <1>2, <3>1 DEF Lost, Applying
      <3>3. QED BY <1>1, <2>1, <3>1, <3>2, NoneLost DEF LossInv
    <2>2. CASE e \notin recorded
      <3>1. /\ recorded' = recorded \cup {e}
            /\ UNCHANGED <<applied, acked, crashes, orgs>>
            /\ Holds(w, "idle") /\ ~Holds(w, "idle")' /\ worker'[w].job = e
            /\ \A x \in Workers \ {w} : worker'[x] = worker[x]
        BY <1>5, <2>2 DEF HandleEvent, AlreadyRecorded, Start, Holds, TypeOK
      <3>2. e \in Events
        BY EmittedHad
      <3>3. Applying(w, e)'
        BY <1>3, <3>1, <3>2
      <3>4. ASSUME NEW d \in Lost'
            PROVE  d \in Lost
        <4>1. d \in recorded /\ d \notin applied /\ Owner(d.sub)' \in orgs
          BY <3>1, <3>3 DEF Lost
        <4>2. \A x \in Workers : ~Applying(x, d)
          BY <1>1, <1>3, <3>1, <4>1 DEF Lost, Applying
        <4>3. QED BY <1>1, <1>2, <4>1, <4>2 DEF Lost
      <3>5. QED BY <1>1, <3>1, <3>4, NoneLost DEF LossInv
    <2>3. QED BY <2>1, <2>2
  <1>6. ASSUME NEW w \in Workers, UNCHANGED <<recorded, applied, acked, crashes, orgs>>,
               \A x \in Workers \ {w} : worker'[x] = worker[x],
               \A e \in recorded : Applying(w, e) => Applying(w, e)'
        PROVE  LossInv'
    <2>1. Lost' \subseteq Lost
      BY <1>1, <1>2, <1>6 DEF Lost, Applying
    <2>2. QED BY <1>1, <1>6, <2>1, NoneLost DEF LossInv
  <1>7. ASSUME NEW w \in Workers, NEW s \in Subs, ReturnFromCheckout(w, s)
        PROVE  LossInv'
    <2>1. \A e \in recorded : ~Applying(w, e)
      BY <1>1, <1>3, <1>7 DEF ReturnFromCheckout
    <2>2. \A x \in Workers \ {w} : worker'[x] = worker[x]
      BY <1>7 DEF ReturnFromCheckout, Start, TypeOK
    <2>3. QED BY <1>6, <1>7, <2>1, <2>2 DEF ReturnFromCheckout, dbVars
  <1>8. ASSUME NEW w \in Workers, FetchSubscription(w) \/ SyncMiss(w)
        PROVE  LossInv'
    <2>1. /\ worker'[w].job = worker[w].job /\ ~Holds(w, "idle")'
          /\ \A x \in Workers \ {w} : worker'[x] = worker[x]
      BY <1>8 DEF FetchSubscription, SyncMiss, Start, Goto, Holds, TypeOK, WorkerStates
    <2>2. \A e \in recorded : Applying(w, e) => Applying(w, e)'
      BY <1>1, <1>3, <2>1
    <2>3. QED BY <1>6, <1>8, <2>1, <2>2 DEF FetchSubscription, SyncMiss, dbVars
  <1>9. ASSUME NEW w \in Workers, ~Holds(w, "idle"), Answer(w), Applied(w),
               UNCHANGED <<recorded, crashes, orgs>>
        PROVE  LossInv'
    <2>1. \A x \in Workers \ {w} : worker'[x] = worker[x]
      BY <1>9 DEF Answer, TypeOK
    <2>2. worker[w].job.kind # "return" => worker[w].job \in recorded
      BY <1>9 DEF Exclusive
    <2>3. /\ acked' \subseteq recorded' /\ applied \subseteq applied'
          /\ worker[w].job.kind # "return" => worker[w].job \in applied'
      BY <1>9, <2>2 DEF Answer, Applied, LossInv
    <2>4. \A e \in recorded : Applying(w, e) => e \in applied'
      BY <1>1, <1>3, <2>3
    <2>5. Lost' \subseteq Lost
      BY <1>1, <1>2, <1>9, <2>1, <2>3, <2>4 DEF Lost, Applying
    <2>6. QED BY <1>1, <1>9, <2>3, <2>5, NoneLost DEF LossInv
  <1>10. ASSUME NEW w \in Workers,
                SyncExisting(w) \/ SyncNoOrg(w) \/ SyncCreate(w) \/ RecordPaidInvoice(w)
         PROVE  LossInv'
    BY <1>9, <1>10 DEF SyncExisting, SyncNoOrg, SyncCreate, RecordPaidInvoice, Holds
  <1>11. ASSUME NEW w \in Workers, SyncCreateRefused(w)
         PROVE  LossInv'
    <2>1. /\ \A x \in Workers \ {w} : worker'[x] = worker[x]
          /\ UNCHANGED <<recorded, applied, acked, crashes, orgs>>
      BY <1>11 DEF SyncCreateRefused, dbVars, TypeOK
    <2>2. \A e \in recorded : Applying(w, e) => Owner(e.sub) \notin orgs
      BY <1>11 DEF SyncCreateRefused, ForeignKeyHolds, Applying
    <2>3. Lost' \subseteq Lost
      BY <1>1, <1>2, <2>1, <2>2 DEF Lost, Applying
    <2>4. QED BY <1>1, <2>1, <2>3, NoneLost DEF LossInv
  <1>12. ASSUME NEW w \in Workers, Crash(w)
         PROVE  LossInv'
    <2>1. /\ \A x \in Workers \ {w} : worker'[x] = worker[x]
          /\ UNCHANGED <<recorded, applied, acked, orgs>>
          /\ crashes' = crashes + 1 /\ crashes < MaxCrashes
      BY <1>12 DEF Crash, dbVars, TypeOK
    <2>2. Lost' \subseteq Lost \cup {worker[w].job}
      BY <1>1, <1>2, <1>3, <2>1 DEF Lost, Applying
    <2>3. /\ IsFiniteSet(Lost \cup {worker[w].job})
          /\ Cardinality(Lost \cup {worker[w].job}) <= Cardinality(Lost) + 1
          /\ Cardinality(Lost) \in Nat
      <3>1. IsFiniteSet(Lost) /\ Cardinality(Lost) \in Nat
        BY FS_CardinalityType DEF LossInv, LossesAreCounted
      <3>2. \/ Cardinality(Lost \cup {worker[w].job}) = Cardinality(Lost)
            \/ Cardinality(Lost \cup {worker[w].job}) = Cardinality(Lost) + 1
        BY <3>1, FS_AddElement
      <3>3. IsFiniteSet(Lost \cup {worker[w].job})
        BY <3>1, FS_AddElement
      <3>4. QED BY <3>1, <3>2, <3>3
    <2>4. /\ IsFiniteSet(Lost') /\ Cardinality(Lost') \in Nat
          /\ Cardinality(Lost') <= Cardinality(Lost \cup {worker[w].job})
          /\ Cardinality(Lost \cup {worker[w].job}) \in Nat
      BY <2>2, <2>3, FS_Subset, FS_CardinalityType
    <2>5. Cardinality(Lost) <= crashes /\ crashes \in Nat /\ MaxCrashes \in Nat
      BY <1>1, BoundsAssumption DEF LossInv, LossesAreCounted
    <2>6. Cardinality(Lost') <= crashes' /\ crashes' <= MaxCrashes
      BY <2>1, <2>3, <2>4, <2>5
    <2>7. QED BY <2>1, <2>4, <2>6 DEF LossInv, LossesAreCounted
  <1>13. \/ UNCHANGED <<recorded, applied, acked, worker, crashes>> /\ orgs' \subseteq orgs
         \/ \E w \in Workers : WorkerStep(w)
    BY DEF Next, vars, dbVars, OrgStep, StripeStep,
           RedeemFreePeriod, FreePeriodRunsOut, DeleteStart, DeleteRefused,
           DeleteCommit, StartCheckout, CompleteCheckout, StripeChanges,
           CancelInStripe
  <1>14. QED
    BY <1>4, <1>5, <1>7, <1>8, <1>10, <1>11, <1>12, <1>13 DEF WorkerStep, Finish

LEMMA SpecLossInv == Spec => [](IInv /\ Exclusive /\ LossInv)
  <1>1. IInv /\ Exclusive /\ LossInv /\ [Next]_vars => Exclusive' /\ LossInv'
    BY ExclusiveStep, LossStep DEF IInv
  <1>2. QED BY <1>1, InitExclusive, InitLossInv, SpecIInv, PTL DEF Spec

\* Every crash of a worker, or call of Stripe that raises, costs at most one
\* event: for any number of workers, in any order of events.
THEOREM CrashesAreCounted == Spec => []LossesAreCounted
  BY SpecLossInv, PTL DEF LossInv

-----------------------------------------------------------------------------
(* What a handled event leaves in the database *)

\* Only the event of an invoice is invoicing, and it does nothing else; what is
\* applied left its row, or its organisation is gone.
InvoicesApart ==
    \A w \in Workers :
        /\ Holds(w, "invoicing") => worker[w].job.kind = "invoice"
        /\ Holds(w, "fetching") \/ Holds(w, "syncing") \/ Holds(w, "creating")
              => worker[w].job.kind # "invoice"
AppliedLeftARow ==
    \A e \in applied : LeftARow(e) \/ (e.kind # "invoice" /\ Owner(e.sub) \notin orgs)

LEMMA InvoicesApartStep ==
    ASSUME TypeOK, InvoicesApart, [Next]_vars
    PROVE  InvoicesApart'
  <1>1. CASE worker' = worker
    BY <1>1 DEF InvoicesApart, Holds
  <1>2. ASSUME NEW w \in Workers, \A x \in Workers \ {w} : worker'[x] = worker[x],
               /\ worker'[w].pc = "invoicing" => worker'[w].job.kind = "invoice"
               /\ worker'[w].pc \in {"fetching", "syncing", "creating"}
                     => worker'[w].job.kind # "invoice"
        PROVE  InvoicesApart'
    BY <1>2 DEF InvoicesApart, Holds
  <1>3. ASSUME NEW w \in Workers, worker' = [worker EXCEPT ![w] = Idle]
        PROVE  InvoicesApart'
    BY <1>2, <1>3 DEF Idle, TypeOK
  <1>4. ASSUME NEW w \in Workers, NEW pc, NEW job, NEW st, Start(w, pc, job, st),
               pc = "invoicing" => job.kind = "invoice",
               pc \in {"fetching", "syncing", "creating"} => job.kind # "invoice"
        PROVE  InvoicesApart'
    <2>1. /\ worker'[w].pc = pc /\ worker'[w].job = job
          /\ \A x \in Workers \ {w} : worker'[x] = worker[x]
      BY <1>4 DEF Start, TypeOK
    <2>2. QED BY <1>2, <1>4, <2>1
  <1>5. ASSUME NEW w \in Workers, NEW e \in Emitted, HandleEvent(w, e)
        PROVE  InvoicesApart'
    <2>1. CASE e \in recorded
      BY <1>1, <1>5, <2>1 DEF HandleEvent, AlreadyRecorded
    <2>2. CASE e \notin recorded
      <3>1. CASE e.kind = "session"
        <4>1. Start(w, "fetching", e, "none")
          BY <1>5, <2>2, <3>1 DEF HandleEvent, AlreadyRecorded
        <4>2. QED BY <1>4, <3>1, <4>1
      <3>2. CASE e.kind = "invoice"
        <4>1. Start(w, "invoicing", e, "none")
          BY <1>5, <2>2, <3>2 DEF HandleEvent, AlreadyRecorded
        <4>2. QED BY <1>4, <3>2, <4>1
      <3>3. CASE e.kind # "session" /\ e.kind # "invoice"
        <4>1. Start(w, "syncing", e, history[e.sub][e.ver])
          BY <1>5, <2>2, <3>3 DEF HandleEvent, AlreadyRecorded
        <4>2. QED BY <1>4, <3>3, <4>1
      <3>4. QED BY <3>1, <3>2, <3>3
    <2>3. QED BY <2>1, <2>2
  <1>6. ASSUME NEW w \in Workers, NEW s \in Subs, ReturnFromCheckout(w, s)
        PROVE  InvoicesApart'
    <2>1. Start(w, "syncing", [kind |-> "return", sub |-> s, ver |-> 0], Current(s))
      BY <1>6 DEF ReturnFromCheckout
    <2>2. [kind |-> "return", sub |-> s, ver |-> 0].kind # "invoice"
      OBVIOUS
    <2>3. QED BY <1>4, <2>1, <2>2
  <1>7. ASSUME NEW w \in Workers, FetchSubscription(w) \/ SyncMiss(w)
        PROVE  InvoicesApart'
    <2>1. worker[w].job.kind # "invoice"
      BY <1>7 DEF FetchSubscription, SyncMiss, InvoicesApart
    <2>2. CASE FetchSubscription(w)
      <3>1. Start(w, "syncing", worker[w].job, FetchedStatus(worker[w].job))
        BY <2>2 DEF FetchSubscription
      <3>2. QED BY <1>4, <2>1, <3>1
    <2>3. CASE SyncMiss(w)
      <3>1. /\ worker'[w].pc = "creating" /\ worker'[w].job = worker[w].job
            /\ \A x \in Workers \ {w} : worker'[x] = worker[x]
        BY <2>3 DEF SyncMiss, Goto, TypeOK, WorkerStates
      <3>2. QED BY <1>2, <2>1, <3>1
    <2>4. QED BY <1>7, <2>2, <2>3
  <1>8. ASSUME NEW w \in Workers,
               \/ SyncExisting(w) \/ SyncNoOrg(w) \/ SyncCreate(w) \/ SyncCreateRefused(w)
               \/ RecordPaidInvoice(w) \/ Crash(w)
        PROVE  InvoicesApart'
    BY <1>3, <1>8 DEF SyncExisting, SyncNoOrg, SyncCreate, SyncCreateRefused,
                      RecordPaidInvoice, Crash, Answer
  <1>9. QED
    BY <1>1, <1>5, <1>6, <1>7, <1>8
    DEF Next, vars, OrgStep, StripeStep, WorkerStep, Finish, RedeemFreePeriod,
        FreePeriodRunsOut, DeleteStart, DeleteRefused, DeleteCommit, StartCheckout,
        CompleteCheckout, StripeChanges, CancelInStripe

LEMMA AppliedLeftARowStep ==
    ASSUME AInv, InvoicesApart, AppliedLeftARow, [Next]_vars
    PROVE  AppliedLeftARow'
  <1> USE DEF AInv, IInv
  <1>1. /\ \A s \in Subs : Owner(s)' = Owner(s)
        /\ \A e \in applied : e.sub \in Subs
        /\ \A s \in Subs : rows[s] \in Seq(Statuses)
    BY OwnerKept DEF TypeOK, Events
  <1>2. CASE UNCHANGED <<applied, rows, invoices, orgs>>
    BY <1>1, <1>2 DEF AppliedLeftARow, LeftARow
  <1>3. ASSUME NEW o \in Orgs, DeleteCommit(o)
        PROVE  AppliedLeftARow'
    <2>1. UNCHANGED <<applied, invoices>> /\ orgs' = orgs \ {o}
      BY <1>3 DEF DeleteCommit
    <2>2. \A s \in Subs : Owner(s) # o => rows'[s] = rows[s]
      BY <1>3 DEF DeleteCommit, OwnedBy
    <2>3. QED BY <1>1, <2>1, <2>2 DEF AppliedLeftARow, LeftARow
  <1>4. ASSUME NEW w \in Workers, SyncExisting(w) \/ SyncCreate(w)
        PROVE  AppliedLeftARow'
    <2> DEFINE job == worker[w].job
    <2>1. /\ job.sub \in Subs /\ UNCHANGED <<orgs, invoices>>
          /\ \A t \in Subs \ {job.sub} : rows'[t] = rows[t]
          /\ rows'[job.sub] # <<>>
      <3>1. /\ job.sub \in Subs /\ orgs' = orgs
            /\ \A t \in Subs \ {job.sub} : rows'[t] = rows[t]
            /\ \E i \in DOMAIN rows'[job.sub] : TRUE
        BY <1>4, SyncWrites
      <3>2. DOMAIN <<>> = {}
        OBVIOUS
      <3>3. QED BY <1>4, <3>1, <3>2 DEF SyncExisting, SyncCreate
    <2>2. job.kind # "invoice" /\ Applied(w)
      BY <1>4 DEF SyncExisting, SyncCreate, InvoicesApart
    <2>3. applied' \subseteq applied \cup {job}
      BY <2>2 DEF Applied
    <2> HIDE DEF job
    <2>4. QED BY <1>1, <2>1, <2>2, <2>3 DEF AppliedLeftARow, LeftARow
  <1>5. ASSUME NEW w \in Workers, SyncNoOrg(w)
        PROVE  AppliedLeftARow'
    <2> DEFINE job == worker[w].job
    <2>1. /\ UNCHANGED <<orgs, invoices, rows>> /\ Applied(w)
          /\ Owner(job.sub) \notin orgs /\ job.kind # "invoice"
      BY <1>5 DEF SyncNoOrg, InvoicesApart
    <2>2. applied' \subseteq applied \cup {job} /\ job.sub \in Subs
      BY <1>5, <2>1, WorkerAtWork DEF Applied, SyncNoOrg, Holds
    <2> HIDE DEF job
    <2>3. QED BY <1>1, <2>1, <2>2 DEF AppliedLeftARow, LeftARow
  <1>6. ASSUME NEW w \in Workers, RecordPaidInvoice(w)
        PROVE  AppliedLeftARow'
    <2> DEFINE job == worker[w].job
    <2>1. /\ UNCHANGED <<orgs, rows>> /\ Applied(w)
          /\ invoices' = invoices \cup {job} /\ job.kind = "invoice"
      BY <1>6 DEF RecordPaidInvoice, PaidInvoiceOf, InvoicesApart
    <2>2. applied' \subseteq applied \cup {job}
      BY <2>1 DEF Applied
    <2> HIDE DEF job
    <2>3. QED BY <1>1, <2>1, <2>2 DEF AppliedLeftARow, LeftARow
  <1>7. \/ UNCHANGED <<applied, rows, invoices, orgs>>
        \/ \E o \in Orgs : DeleteCommit(o)
        \/ \E w \in Workers : \/ SyncExisting(w) \/ SyncCreate(w)
                              \/ SyncNoOrg(w) \/ RecordPaidInvoice(w)
    BY DEF Next, vars, dbVars, OrgStep, StripeStep, WorkerStep, Finish, RedeemFreePeriod,
           FreePeriodRunsOut, DeleteStart, DeleteRefused, CancelInStripe, StartCheckout,
           CompleteCheckout, StripeChanges, HandleEvent, ReturnFromCheckout,
           FetchSubscription, SyncMiss, SyncCreateRefused, Crash
  <1>8. QED BY <1>2, <1>3, <1>4, <1>5, <1>6, <1>7

\* What Stripe has had a 200 for left its row, whatever overlapped, repeated or
\* came out of order, unless it is one of the lost events CrashesAreCounted counts.
THEOREM HandledEventsLeaveARow == Spec => []HandledLeavesARow
  <1>1. Init => InvoicesApart /\ AppliedLeftARow
    BY DEF Init, InvoicesApart, AppliedLeftARow, Holds, Idle
  <1>2. AInv /\ InvoicesApart /\ AppliedLeftARow /\ [Next]_vars
           => InvoicesApart' /\ AppliedLeftARow'
    BY InvoicesApartStep, AppliedLeftARowStep DEF AInv, IInv
  <1>3. LossInv /\ AppliedLeftARow => HandledLeavesARow
    BY DEF LossInv, AppliedLeftARow, HandledLeavesARow, Lost
  <1>4. QED BY <1>1, <1>2, <1>3, SpecAInv, SpecLossInv, PTL DEF Spec

-----------------------------------------------------------------------------
(* How many rows one subscription gets *)

\* The workers that found no row of the subscription and go on to insert one.
Creating(s) == {w \in Workers : Holds(w, "creating") /\ worker[w].job.sub = s}

\* Only workers that found no row insert one, so the rows there are and those
\* about to be inserted are never more than the workers.
RowsToCome ==
    \A s \in Subs :
        Len(rows[s]) + Cardinality(Creating(s)) <= Cardinality(Workers)

LEMMA CreatingIsFinite ==
    ASSUME IsFiniteSet(Workers), NEW s
    PROVE  /\ IsFiniteSet(Creating(s)) /\ IsFiniteSet(Creating(s)')
           /\ Cardinality(Creating(s)) \in Nat /\ Cardinality(Creating(s)') \in Nat
           /\ Cardinality(Creating(s)') <= Cardinality(Workers)
           /\ Cardinality(Workers) \in Nat
  <1>1. Creating(s) \subseteq Workers /\ Creating(s)' \subseteq Workers
    BY DEF Creating
  <1>2. QED BY <1>1, FS_Subset, FS_CardinalityType

LEMMA RowsToComeStep ==
    ASSUME IsFiniteSet(Workers), IInv, RowsToCome, [Next]_vars
    PROVE  RowsToCome'
  <1> USE DEF IInv
  <1>1. TypeOK'
    BY TypeStep
  <1>2. \A s \in Subs : rows[s] \in Seq(Statuses) /\ rows'[s] \in Seq(Statuses)
    BY <1>1 DEF TypeOK
  <1>3. ASSUME NEW s \in Subs,
               \/ rows'[s] = <<>>
               \/ Len(rows'[s]) = Len(rows[s]) /\ Creating(s)' \subseteq Creating(s)
               \/ /\ Len(rows'[s]) = Len(rows[s]) + 1
                  /\ \E w \in Creating(s) : Creating(s)' \subseteq Creating(s) \ {w}
        PROVE  Len(rows'[s]) + Cardinality(Creating(s)') <= Cardinality(Workers)
    <2>1. /\ Len(rows[s]) \in Nat /\ Len(rows'[s]) \in Nat
          /\ Len(rows[s]) + Cardinality(Creating(s)) <= Cardinality(Workers)
      BY <1>2 DEF RowsToCome
    <2>2. /\ Cardinality(Creating(s)) \in Nat /\ Cardinality(Creating(s)') \in Nat
          /\ Cardinality(Creating(s)') <= Cardinality(Workers)
          /\ Cardinality(Workers) \in Nat /\ IsFiniteSet(Creating(s))
      BY CreatingIsFinite
    <2>3. CASE rows'[s] = <<>>
      <3>1. Len(rows'[s]) = 0
        BY <2>3
      <3>2. QED BY <2>2, <3>1
    <2>4. CASE Len(rows'[s]) = Len(rows[s]) /\ Creating(s)' \subseteq Creating(s)
      <3>1. Cardinality(Creating(s)') <= Cardinality(Creating(s))
        BY <2>2, <2>4, FS_Subset
      <3>2. QED BY <2>1, <2>2, <2>4, <3>1
    <2>5. CASE /\ Len(rows'[s]) = Len(rows[s]) + 1
               /\ \E w \in Creating(s) : Creating(s)' \subseteq Creating(s) \ {w}
      <3>1. PICK w \in Creating(s) : Creating(s)' \subseteq Creating(s) \ {w}
        BY <2>5
      <3>2. /\ IsFiniteSet(Creating(s) \ {w})
            /\ Cardinality(Creating(s) \ {w}) = Cardinality(Creating(s)) - 1
        BY <2>2, <3>1, FS_RemoveElement
      <3>3. Cardinality(Creating(s)') <= Cardinality(Creating(s) \ {w})
        BY <3>1, <3>2, FS_Subset
      <3>4. QED BY <2>1, <2>2, <2>5, <3>2, <3>3
    <2>6. QED BY <1>3, <2>3, <2>4, <2>5
  <1>4. CASE UNCHANGED <<rows, worker>>
    BY <1>3, <1>4 DEF RowsToCome, Creating, Holds
  <1>5. ASSUME NEW w \in Workers, rows' = rows,
               \A x \in Workers \ {w} : worker'[x] = worker[x],
               ~Holds(w, "creating")'
        PROVE  RowsToCome'
    <2>1. \A s \in Subs : Creating(s)' \subseteq Creating(s)
      BY <1>5 DEF Creating, Holds
    <2>2. QED BY <1>3, <1>5, <2>1 DEF RowsToCome
  <1>6. ASSUME NEW w \in Workers, NEW e \in Emitted, HandleEvent(w, e)
        PROVE  RowsToCome'
    <2>1. \/ worker' = worker
          \/ /\ \A x \in Workers \ {w} : worker'[x] = worker[x]
             /\ ~Holds(w, "creating")'
      BY <1>6 DEF HandleEvent, Start, Holds, TypeOK
    <2>2. rows' = rows
      BY <1>6 DEF HandleEvent
    <2>3. QED BY <1>4, <1>5, <2>1, <2>2
  <1>7. ASSUME NEW w \in Workers,
               \/ \E s \in Subs : ReturnFromCheckout(w, s)
               \/ FetchSubscription(w) \/ SyncNoOrg(w) \/ RecordPaidInvoice(w)
               \/ SyncCreateRefused(w) \/ Crash(w)
        PROVE  RowsToCome'
    <2>1. /\ rows' = rows
          /\ \A x \in Workers \ {w} : worker'[x] = worker[x]
          /\ ~Holds(w, "creating")'
      BY <1>7 DEF ReturnFromCheckout, FetchSubscription, SyncNoOrg, RecordPaidInvoice,
                  SyncCreateRefused, Crash, Start, Answer, Idle, Holds, TypeOK, dbVars
    <2>2. QED BY <1>5, <2>1
  <1>8. ASSUME NEW w \in Workers, SyncMiss(w)
        PROVE  RowsToCome'
    <2>1. /\ rows' = rows /\ rows[worker[w].job.sub] = <<>>
          /\ \A x \in Workers \ {w} : worker'[x] = worker[x]
          /\ worker'[w].job = worker[w].job
      BY <1>8 DEF SyncMiss, Goto, dbVars, TypeOK
    <2>2. \A s \in Subs \ {worker[w].job.sub} : Creating(s)' \subseteq Creating(s)
      BY <2>1 DEF Creating, Holds
    <2>3. QED BY <1>3, <2>1, <2>2 DEF RowsToCome
  <1>9. ASSUME NEW w \in Workers, SyncExisting(w)
        PROVE  RowsToCome'
    <2>1. /\ worker[w].job.sub \in Subs /\ worker[w].status \in Statuses
      BY <1>9, WorkerAtWork DEF SyncExisting, Holds
    <2>2. /\ rows' = [rows EXCEPT ![worker[w].job.sub] = [@ EXCEPT ![1] = worker[w].status]]
      BY <1>9 DEF SyncExisting, Updated
    <2>3. \A s \in Subs : Len(rows'[s]) = Len(rows[s])
      <3>1. \A q \in Seq(Statuses), st \in Statuses : Len([q EXCEPT ![1] = st]) = Len(q)
        OBVIOUS
      <3>2. QED BY <1>2, <2>1, <2>2, <3>1 DEF TypeOK
    <2>4. /\ \A x \in Workers \ {w} : worker'[x] = worker[x]
          /\ ~Holds(w, "creating")'
      BY <1>9 DEF SyncExisting, Answer, Idle, Holds, TypeOK
    <2>5. \A s \in Subs : Creating(s)' \subseteq Creating(s)
      BY <2>4 DEF Creating, Holds
    <2>6. QED BY <1>3, <2>3, <2>5 DEF RowsToCome
  <1>10. ASSUME NEW w \in Workers, SyncCreate(w)
         PROVE  RowsToCome'
    <2>1. /\ worker[w].job.sub \in Subs /\ worker[w].status \in Statuses
          /\ w \in Creating(worker[w].job.sub)
      BY <1>10, WorkerAtWork DEF SyncCreate, Holds, Creating
    <2>2. /\ rows'[worker[w].job.sub] = Append(rows[worker[w].job.sub], worker[w].status)
          /\ \A s \in Subs \ {worker[w].job.sub} : rows'[s] = rows[s]
      BY <1>10, <2>1 DEF SyncCreate, TypeOK
    <2>3. Len(rows'[worker[w].job.sub]) = Len(rows[worker[w].job.sub]) + 1
      <3>1. \A q \in Seq(Statuses), st \in Statuses : Len(Append(q, st)) = Len(q) + 1
        OBVIOUS
      <3>2. QED BY <1>2, <2>1, <2>2, <3>1
    <2>4. /\ \A x \in Workers \ {w} : worker'[x] = worker[x]
          /\ ~Holds(w, "creating")'
      BY <1>10 DEF SyncCreate, Answer, Idle, Holds, TypeOK
    <2>5. \A s \in Subs : Creating(s)' \subseteq Creating(s)
      BY <2>4 DEF Creating, Holds
    <2>6. ASSUME NEW s \in Subs
          PROVE  \/ Len(rows'[s]) = Len(rows[s]) /\ Creating(s)' \subseteq Creating(s)
                 \/ /\ Len(rows'[s]) = Len(rows[s]) + 1
                    /\ \E x \in Creating(s) : Creating(s)' \subseteq Creating(s) \ {x}
      <3>1. CASE s # worker[w].job.sub
        BY <2>2, <2>5, <3>1
      <3>2. CASE s = worker[w].job.sub
        <4>1. Creating(s)' \subseteq Creating(s) \ {w}
          <5> DEFINE now == Creating(s)
                     next == Creating(s)'
          <5>1. next \subseteq now /\ w \notin next
            BY <2>4, <2>5 DEF Creating
          <5> HIDE DEF now, next
          <5>2. next \subseteq now \ {w}
            BY <5>1
          <5>3. QED BY <5>2 DEF now, next
        <4>2. QED BY <2>1, <2>3, <3>2, <4>1
      <3>3. QED BY <3>1, <3>2
    <2>7. QED BY <1>3, <2>6 DEF RowsToCome
  <1>11. ASSUME NEW o \in Orgs, DeleteCommit(o)
         PROVE  RowsToCome'
    <2>1. \A s \in Subs : rows'[s] = <<>> \/ rows'[s] = rows[s]
      BY <1>11 DEF DeleteCommit
    <2>2. \A s \in Subs : Creating(s)' = Creating(s)
      BY <1>11 DEF DeleteCommit, Creating, Holds
    <2>3. QED BY <1>3, <2>1, <2>2 DEF RowsToCome
  <1>12. \/ UNCHANGED <<rows, worker>>
         \/ \E o \in Orgs : DeleteCommit(o)
         \/ \E w \in Workers : WorkerStep(w)
    BY DEF Next, vars, dbVars, OrgStep, StripeStep,
           RedeemFreePeriod, FreePeriodRunsOut, DeleteStart, DeleteRefused,
           StartCheckout, CompleteCheckout, StripeChanges, CancelInStripe
  <1>13. QED
    BY <1>4, <1>6, <1>7, <1>8, <1>9, <1>10, <1>11, <1>12 DEF WorkerStep, Finish

LEMMA SpecRowsToCome ==
    ASSUME IsFiniteSet(Workers)
    PROVE  Spec => []RowsToCome
  <1>1. Init => RowsToCome
    <2>1. ASSUME Init, NEW s \in Subs
          PROVE  Len(rows[s]) + Cardinality(Creating(s)) <= Cardinality(Workers)
      <3>1. rows[s] = <<>> /\ Creating(s) = {}
        BY <2>1 DEF Init, Creating, Holds, Idle
      <3>2. Len(rows[s]) = 0 /\ Cardinality(Creating(s)) = 0 /\ Cardinality(Workers) \in Nat
        BY <3>1, FS_EmptySet, FS_CardinalityType
      <3>3. QED BY <3>2
    <2>2. QED BY <2>1 DEF RowsToCome
  <1>2. IInv /\ RowsToCome /\ [Next]_vars => RowsToCome'
    BY RowsToComeStep
  <1>3. QED BY <1>1, <1>2, SpecIInv, PTL DEF Spec

\* sync_stripe_subscription has no row to lock the first time, and workers that
\* overlap there may each insert one: a subscription never has more rows than
\* there are workers.
THEOREM RowsBounded ==
    ASSUME IsFiniteSet(Workers)
    PROVE  Spec => []RowsAreBounded
  <1>1. ASSUME TypeOK, RowsToCome
        PROVE  RowsAreBounded
    <2>1. \A s \in Subs : Len(rows[s]) \in Nat
      BY <1>1 DEF TypeOK
    <2>2. QED BY <1>1, <2>1, CreatingIsFinite DEF RowsToCome, RowsAreBounded
  <1>2. QED BY <1>1, SpecIInv, SpecRowsToCome, PTL DEF IInv

=============================================================================
