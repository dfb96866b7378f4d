----------------------- MODULE BillingRemindersProofs -----------------------
(***************************************************************************)
(* Proofs about BillingReminders, for any number of organisations and any  *)
(* finite number of overlapping runs of the job and of webhook workers.    *)
(***************************************************************************)
EXTENDS BillingReminders, FiniteSetTheorems, TLAPS

\* The free period of an organisation that is gone went with it.
GoneHaveNoRow == \A o \in Orgs \ orgs : row[o] = "none"

\* A list may be behind, but never ahead: what it has at its end is at its end,
\* and a free period it has is not undone while the organisation exists.
ListsAreBehind ==
    \A j \in Jobs, o \in Orgs, k \in Stages :
        <<o, k>> \in job[j].list =>
            /\ o \in orgs => row[o] # "none"
            /\ k = "ended" => left[o] = "ended"

\* What a run has paused was at its end, and is locked until the run is over.
PausedHaveEnded ==
    \A j \in Jobs, o \in Orgs :
        o \in job[j].paused =>
            o \in orgs /\ row[o] # "none" /\ left[o] = "ended"

BInv == TypeOK /\ GoneHaveNoRow /\ ListsAreBehind /\ PausedHaveEnded

-----------------------------------------------------------------------------
(* Types *)

\* A step of a run leaves the other runs alone.
LEMMA JobType ==
    ASSUME TypeOK, NEW j \in Jobs, NEW s \in JobStates, job' = [job EXCEPT ![j] = s]
    PROVE  /\ job' \in [Jobs -> JobStates]
           /\ job'[j] = s
           /\ \A i \in Jobs \ {j} : job'[i] = job[i]
  BY DEF TypeOK

LEMMA JobFields ==
    ASSUME TypeOK, NEW j \in Jobs
    PROVE  /\ job[j] = [pc |-> job[j].pc, list |-> job[j].list,
                        paused |-> job[j].paused, notes |-> job[j].notes]
           /\ job[j].pc \in {"idle", "running"}
           /\ job[j].list \subseteq Orgs \X Stages
           /\ job[j].paused \subseteq Orgs
           /\ job[j].notes \subseteq Orgs \X Keys
  BY DEF TypeOK, JobStates

LEMMA JobIdleType == JobIdle \in JobStates
  BY DEF JobIdle, JobStates

\* What a step of a run does to it, and to the others.
LEMMA WorksStep ==
    ASSUME TypeOK, NEW j \in Jobs, NEW D, NEW P \in SUBSET Orgs,
           NEW N \in SUBSET (Orgs \X Keys), Works(j, D, P, N)
    PROVE  /\ job' \in [Jobs -> JobStates]
           /\ \A i \in Jobs \ {j} : job'[i] = job[i]
           /\ job'[j].pc = "running"
           /\ job'[j].list = job[j].list \ D
           /\ job'[j].paused = job[j].paused \cup P
           /\ job'[j].notes = job[j].notes \cup N
  <1> DEFINE s == [pc |-> "running", list |-> job[j].list \ D,
                   paused |-> job[j].paused \cup P, notes |-> job[j].notes \cup N]
  <1>1. s \in JobStates
    BY JobFields DEF JobStates
  <1>2. job' = [job EXCEPT ![j] = s]
    BY DEF Works
  <1> HIDE DEF s
  <1>3. /\ job' \in [Jobs -> JobStates]
        /\ job'[j] = s
        /\ \A i \in Jobs \ {j} : job'[i] = job[i]
    BY <1>1, <1>2, JobType
  <1>4. QED BY <1>3 DEF s

\* A notice is sent and noted, or there was no need to.
Noted(j, o, k, N) ==
    /\ sent' \in [Orgs \X Keys -> Nat]
    /\ \/ N = {} /\ sent' = sent
       \/ /\ NotTold(j, <<o, k>>)
          /\ N = {<<o, k>>}
          /\ sent' = [sent EXCEPT ![<<o, k>>] = @ + 1]

\* What Tell does to the run that tells, and to the emails sent.
LEMMA TellStep ==
    ASSUME TypeOK, NEW j \in Jobs, NEW o \in Orgs, NEW k \in Keys,
           NEW P \in SUBSET Orgs, Tell(j, o, k, P)
    PROVE  \E N \in SUBSET (Orgs \X Keys) :
              /\ Works(j, {o} \X Stages, P, N)
              /\ Noted(j, o, k, N)
  <1> DEFINE news == o \in orgs /\ NotTold(j, <<o, k>>)
  <1>1. CASE news
    <2>1. sent' = [sent EXCEPT ![<<o, k>>] = @ + 1]
      BY <1>1 DEF Tell, Mail
    <2>2. <<o, k>> \in Orgs \X Keys /\ sent[<<o, k>>] + 1 \in Nat
      BY DEF TypeOK
    <2>3. sent' \in [Orgs \X Keys -> Nat]
      BY <2>1, <2>2 DEF TypeOK
    <2>4. Works(j, {o} \X Stages, P, {<<o, k>>})
      BY <1>1 DEF Tell
    <2>5. Noted(j, o, k, {<<o, k>>})
      BY <1>1, <2>1, <2>3 DEF Noted
    <2>6. QED BY <2>2, <2>4, <2>5
  <1>2. CASE ~news
    <2>1. Works(j, {o} \X Stages, P, {}) /\ sent' = sent
      BY <1>2 DEF Tell
    <2>2. QED BY <2>1 DEF TypeOK, Noted
  <1>3. QED BY <1>1, <1>2

\* A step of a run through its list: an organisation reminded, passed over, or
\* found at its end and paused.
LEMMA ListStep ==
    ASSUME TypeOK, NEW j \in Jobs, NEW o \in Orgs, JobRemind(j, o) \/ JobPause(j, o)
    PROVE  \E D \in SUBSET (Orgs \X Stages), P \in SUBSET {o},
              N \in SUBSET (Orgs \X Keys), k \in Keys \ {"payment_failed"} :
              /\ Works(j, D, P, N)
              /\ P # {} => o \in orgs /\ <<o, "ended">> \in job[j].list
              /\ Noted(j, o, k, N)
  <1>0. UNCHANGED sent => \A k \in Keys : Noted(j, o, k, {})
    BY DEF TypeOK, Noted
  <1>1. "ended" \in Keys \ {"payment_failed"} /\ "ended" \in Stages
    BY DEF Keys, Stages
  <1>2. {o} \X Stages \in SUBSET (Orgs \X Stages)
    OBVIOUS
  <1>3. CASE JobRemind(j, o)
    <2>1. PICK k \in Stages \ {"ended"} :
              IF NearThreshold(k) THEN Tell(j, o, k, {})
              ELSE Works(j, {<<o, k>>}, {}, {}) /\ UNCHANGED sent
      BY <1>3 DEF JobRemind
    <2>2. CASE NearThreshold(k)
      <3>1. k \in Keys \ {"payment_failed"}
        BY <2>2 DEF NearThreshold, Keys, Stages
      <3>2. PICK N \in SUBSET (Orgs \X Keys) :
                Works(j, {o} \X Stages, {}, N) /\ Noted(j, o, k, N)
        BY <2>1, <2>2, <3>1, TellStep
      <3>3. QED BY <1>2, <3>1, <3>2
    <2>3. CASE ~NearThreshold(k)
      <3>1. Works(j, {<<o, k>>}, {}, {}) /\ Noted(j, o, "ended", {})
        BY <1>0, <1>1, <2>1, <2>3
      <3>2. {<<o, k>>} \in SUBSET (Orgs \X Stages)
        OBVIOUS
      <3>3. QED BY <1>1, <3>1, <3>2
    <2>4. QED BY <2>2, <2>3
  <1>4. CASE JobPause(j, o)
    <2>1. o \in orgs /\ <<o, "ended">> \in job[j].list
      BY <1>4 DEF JobPause, PastEnd
    <2>2. CASE paid[o]
      <3>1. Works(j, {<<o, "ended">>}, {o}, {}) /\ Noted(j, o, "ended", {})
        BY <1>0, <1>1, <1>4, <2>2 DEF JobPause, PastEnd
      <3>2. {<<o, "ended">>} \in SUBSET (Orgs \X Stages)
        BY <1>1
      <3>3. QED BY <1>1, <2>1, <3>1, <3>2
    <2>3. CASE ~paid[o]
      <3>1. Tell(j, o, "ended", {o})
        BY <1>4, <2>3 DEF JobPause
      <3>2. PICK N \in SUBSET (Orgs \X Keys) :
                Works(j, {o} \X Stages, {o}, N) /\ Noted(j, o, "ended", N)
        BY <1>1, <3>1, TellStep
      <3>3. QED BY <1>1, <1>2, <2>1, <3>2
    <2>4. QED BY <2>2, <2>3
  <1>5. QED BY <1>3, <1>4

\* The steps that only take from a run's list or add to what it paused.
LEMMA OrgStepType ==
    ASSUME TypeOK, NEW o \in Orgs, OrgStep(o)
    PROVE  TypeOK'
  <1>1. CASE RedeemFreePeriod(o)
    <2>1. PICK s \in Lengths : left' = [left EXCEPT ![o] = s]
      BY <1>1 DEF RedeemFreePeriod
    <2>2. s \in Stages
      BY LengthsAssumption DEF Stages
    <2>3. QED BY <1>1, <2>1, <2>2 DEF RedeemFreePeriod, TypeOK, Statuses
  <1>2. CASE TimePasses(o)
    <2>1. left[o] \in Stages \ {"ended"}
      BY <1>2 DEF TimePasses, TypeOK
    <2>2. Next1[left[o]] \in Stages
      BY <2>1 DEF Next1, Stages
    <2>3. QED BY <1>2, <2>2 DEF TimePasses, TypeOK
  <1>3. CASE TakeOver(o)
    BY <1>3 DEF TakeOver, TypeOK, Statuses
  <1>4. CASE PaidEnds(o)
    BY <1>4 DEF PaidEnds, TypeOK
  <1>5. CASE ChargeSucceeds(o)
    BY <1>5 DEF ChargeSucceeds, TypeOK
  <1>6. CASE DeleteOrg(o)
    BY <1>6 DEF DeleteOrg, TypeOK, Statuses
  <1>7. QED BY <1>1, <1>2, <1>3, <1>4, <1>5, <1>6 DEF OrgStep

LEMMA StartedType ==
    ASSUME TypeOK
    PROVE  [pc |-> "running", list |-> {<<o, left[o]>> : o \in FreePeriods},
            paused |-> {}, notes |-> {}] \in JobStates
  <1>1. {<<o, left[o]>> : o \in FreePeriods} \subseteq Orgs \X Stages
    BY DEF FreePeriods, TypeOK
  <1> DEFINE l == {<<o, left[o]>> : o \in FreePeriods}
  <1> HIDE DEF l
  <1>2. QED BY <1>1 DEF JobStates, l

LEMMA JobStepType ==
    ASSUME TypeOK, NEW j \in Jobs, JobStep(j)
    PROVE  TypeOK'
  <1>1. CASE JobStart(j)
    BY <1>1, StartedType, JobType DEF JobStart, TypeOK, envVars
  <1>2. CASE JobCommit(j)
    <2>1. told' \subseteq Orgs \X Keys
      BY <1>2, JobFields DEF JobCommit, TypeOK
    <2>2. row' \in [Orgs -> Statuses]
      BY <1>2 DEF JobCommit, TypeOK, Statuses
    <2>3. QED
      BY <1>2, <2>1, <2>2, JobIdleType, JobType DEF JobCommit, TypeOK, envVars
  <1>3. ASSUME NEW o \in Orgs, JobRemind(j, o) \/ JobPause(j, o)
        PROVE  TypeOK'
    <2>1. UNCHANGED <<envVars, row, told, hook, aborts>>
      BY <1>3 DEF JobRemind, JobPause
    <2>2. sent' \in [Orgs \X Keys -> Nat] /\ job' \in [Jobs -> JobStates]
      <3>1. PICK D \in SUBSET (Orgs \X Stages), P \in SUBSET {o},
                 N \in SUBSET (Orgs \X Keys), k \in Keys :
                Works(j, D, P, N) /\ Noted(j, o, k, N)
        BY <1>3, ListStep
      <3>2. QED BY <3>1, WorksStep DEF Noted
    <2>3. QED BY <2>1, <2>2 DEF TypeOK, envVars
  <1>4. ASSUME JobCrash(j) \/ \E o \in Orgs : JobSaveFails(j, o)
        PROVE  TypeOK'
    <2>1. /\ UNCHANGED <<envVars, row, told, sent, hook>>
          /\ job' = [job EXCEPT ![j] = JobIdle]
          /\ aborts < MaxAborts /\ aborts' = aborts + 1
      BY <1>4 DEF JobCrash, JobSaveFails
    <2>2. aborts' \in 0..MaxAborts
      BY <2>1, BoundsAssumption DEF TypeOK
    <2>3. QED BY <2>1, <2>2, JobIdleType, JobType DEF TypeOK, envVars
  <1>5. QED BY <1>1, <1>2, <1>3, <1>4 DEF JobStep, JobWork

LEMMA HookStepType ==
    ASSUME TypeOK, NEW h \in Hooks, HookStep(h)
    PROVE  TypeOK'
  <1>1. ASSUME NEW o \in Orgs, PaymentFailed(h, o)
        PROVE  TypeOK'
    <2>1. failures' \in [Orgs -> 0..MaxFailures]
      BY <1>1, BoundsAssumption DEF PaymentFailed, TypeOK
    <2>2. hook' \in [Hooks -> {"idle"} \cup Orgs]
      BY <1>1 DEF PaymentFailed, TypeOK
    <2>3. QED BY <1>1, <2>1, <2>2 DEF PaymentFailed, TypeOK
  <1>2. CASE HookTells(h)
    <2>1. hook[h] \in Orgs /\ <<hook[h], "payment_failed">> \in Orgs \X Keys
      BY <1>2 DEF HookTells, TypeOK, Keys
    <2>2. sent' \in [Orgs \X Keys -> Nat]
      BY <1>2, <2>1 DEF HookTells, Mail, TypeOK
    <2>3. QED BY <1>2, <2>1, <2>2 DEF HookTells, TypeOK, envVars
  <1>3. CASE HookCrash(h)
    <2>1. hook[h] \in Orgs /\ <<hook[h], "payment_failed">> \in Orgs \X Keys
      BY <1>3 DEF HookCrash, TypeOK, Keys
    <2>2. aborts' \in 0..MaxAborts
      BY <1>3, BoundsAssumption DEF HookCrash, TypeOK
    <2>3. QED BY <1>3, <2>1, <2>2 DEF HookCrash, TypeOK, envVars
  <1>4. QED BY <1>1, <1>2, <1>3 DEF HookStep

-----------------------------------------------------------------------------
(* The invariant *)

LEMMA InitBInv == Init => BInv
  <1> SUFFICES ASSUME Init PROVE BInv
    OBVIOUS
  <1>1. TypeOK
    BY BoundsAssumption, JobIdleType DEF Init, TypeOK, Statuses, Stages
  <1>2. \A j \in Jobs : job[j].list = {} /\ job[j].paused = {}
    BY DEF Init, JobIdle
  <1>3. QED
    BY <1>1, <1>2 DEF Init, BInv, GoneHaveNoRow, ListsAreBehind, PausedHaveEnded

\* The runs' lists and locks stay as they are, and what they say stays true.
LEMMA OrgStepBInv ==
    ASSUME BInv, NEW o \in Orgs, OrgStep(o)
    PROVE  BInv'
  <1> USE DEF BInv
  <1>1. TypeOK' /\ job' = job
    BY OrgStepType DEF OrgStep, RedeemFreePeriod, TimePasses, TakeOver, PaidEnds,
                       ChargeSucceeds, DeleteOrg
  <1>2. CASE RedeemFreePeriod(o)
    <2>1. /\ o \in orgs /\ row[o] = "none" /\ orgs' = orgs
          /\ row' = [row EXCEPT ![o] = "trialing"]
          /\ \A p \in Orgs \ {o} : left'[p] = left[p]
      BY <1>2 DEF RedeemFreePeriod, FreePeriodUsed, TypeOK
    <2>2. GoneHaveNoRow'
      BY <2>1 DEF GoneHaveNoRow, TypeOK
    <2>3. ListsAreBehind'
      BY <1>1, <2>1 DEF ListsAreBehind, TypeOK
    <2>4. PausedHaveEnded'
      BY <1>1, <2>1 DEF PausedHaveEnded, TypeOK
    <2>5. QED BY <1>1, <2>2, <2>3, <2>4
  <1>3. CASE TimePasses(o)
    <2>1. /\ left[o] # "ended" /\ UNCHANGED <<orgs, row>>
          /\ \A p \in Orgs \ {o} : left'[p] = left[p]
      BY <1>3 DEF TimePasses, TypeOK
    <2>2. QED
      BY <1>1, <2>1 DEF GoneHaveNoRow, ListsAreBehind, PausedHaveEnded
  <1>4. CASE TakeOver(o)
    <2>1. /\ o \in orgs /\ ~Locked(o) /\ UNCHANGED <<orgs, left>>
          /\ row' = [row EXCEPT ![o] = IF @ = "trialing" THEN "canceled" ELSE @]
      BY <1>4 DEF TakeOver
    <2>2. \A p \in Orgs : row'[p] = "none" <=> row[p] = "none"
      BY <2>1 DEF TypeOK
    <2>3. QED
      BY <1>1, <2>1, <2>2 DEF GoneHaveNoRow, ListsAreBehind, PausedHaveEnded
  <1>5. CASE PaidEnds(o) \/ ChargeSucceeds(o)
    <2>1. UNCHANGED <<orgs, left, row>>
      BY <1>5 DEF PaidEnds, ChargeSucceeds
    <2>2. QED
      BY <1>1, <2>1 DEF GoneHaveNoRow, ListsAreBehind, PausedHaveEnded
  <1>6. CASE DeleteOrg(o)
    <2>1. /\ ~Locked(o) /\ orgs' = orgs \ {o} /\ left' = left
          /\ row' = [row EXCEPT ![o] = "none"]
      BY <1>6 DEF DeleteOrg
    <2>2. GoneHaveNoRow' /\ ListsAreBehind'
      BY <1>1, <2>1 DEF GoneHaveNoRow, ListsAreBehind, TypeOK
    <2>3. PausedHaveEnded'
      BY <1>1, <2>1 DEF PausedHaveEnded, Locked, TypeOK
    <2>4. QED BY <1>1, <2>2, <2>3
  <1>7. QED BY <1>2, <1>3, <1>4, <1>5, <1>6 DEF OrgStep

LEMMA JobStepBInv ==
    ASSUME BInv, NEW j \in Jobs, JobStep(j)
    PROVE  BInv'
  <1> USE DEF BInv
  <1>1. TypeOK' /\ UNCHANGED <<orgs, left>>
    BY JobStepType DEF JobStep, JobWork, JobStart, JobRemind, JobPause, JobCommit,
                       JobCrash, JobSaveFails, envVars
  <1>2. CASE JobStart(j)
    <2>1. /\ row' = row
          /\ job'[j].list = {<<o, left[o]>> : o \in FreePeriods}
          /\ job'[j].paused = {}
          /\ \A i \in Jobs \ {j} : job'[i] = job[i]
      BY <1>2, StartedType, JobType DEF JobStart
    <2>2. ListsAreBehind'
      BY <1>1, <2>1 DEF ListsAreBehind, FreePeriods
    <2>3. QED
      BY <1>1, <2>1, <2>2 DEF GoneHaveNoRow, PausedHaveEnded
  <1>3. ASSUME NEW o \in Orgs, JobRemind(j, o) \/ JobPause(j, o)
        PROVE  BInv'
    <2>1. PICK D \in SUBSET (Orgs \X Stages), P \in SUBSET {o},
               N \in SUBSET (Orgs \X Keys) :
              /\ Works(j, D, P, N)
              /\ P # {} => o \in orgs /\ <<o, "ended">> \in job[j].list
      BY <1>3, ListStep
    <2>2. /\ \A i \in Jobs \ {j} : job'[i] = job[i]
          /\ job'[j].list = job[j].list \ D
          /\ job'[j].paused = job[j].paused \cup P
      BY <2>1, WorksStep
    <2>3. row' = row
      BY <1>3 DEF JobRemind, JobPause
    <2>4. GoneHaveNoRow' /\ ListsAreBehind'
      BY <1>1, <2>2, <2>3 DEF GoneHaveNoRow, ListsAreBehind
    <2>5. P # {} => row[o] # "none" /\ left[o] = "ended"
      BY <2>1 DEF ListsAreBehind, Stages
    <2>6. PausedHaveEnded'
      BY <1>1, <2>1, <2>2, <2>3, <2>5 DEF PausedHaveEnded
    <2>7. QED BY <1>1, <2>4, <2>6
  <1>4. CASE JobCommit(j)
    <2>1. /\ row' = [o \in Orgs |-> IF o \in job[j].paused THEN "paused" ELSE row[o]]
          /\ job' = [job EXCEPT ![j] = JobIdle]
      BY <1>4 DEF JobCommit
    <2>2. /\ \A i \in Jobs \ {j} : job'[i] = job[i]
          /\ job'[j].list = {} /\ job'[j].paused = {}
      BY <2>1, JobIdleType, JobType DEF JobIdle
    <2>3. GoneHaveNoRow'
      BY <1>1, <2>1 DEF GoneHaveNoRow, PausedHaveEnded
    <2>4. \A o \in Orgs : row[o] # "none" => row'[o] # "none"
      BY <2>1
    <2>5. QED
      BY <1>1, <2>2, <2>3, <2>4 DEF ListsAreBehind, PausedHaveEnded
  <1>5. ASSUME JobCrash(j) \/ \E o \in Orgs : JobSaveFails(j, o)
        PROVE  BInv'
    <2>1. row' = row /\ job' = [job EXCEPT ![j] = JobIdle]
      BY <1>5 DEF JobCrash, JobSaveFails
    <2>2. /\ \A i \in Jobs \ {j} : job'[i] = job[i]
          /\ job'[j].list = {} /\ job'[j].paused = {}
      BY <2>1, JobIdleType, JobType DEF JobIdle
    <2>3. QED
      BY <1>1, <2>1, <2>2 DEF GoneHaveNoRow, ListsAreBehind, PausedHaveEnded
  <1>6. QED BY <1>2, <1>3, <1>4, <1>5 DEF JobStep, JobWork

LEMMA BInvStep == BInv /\ [Next]_vars => BInv'
  <1> SUFFICES ASSUME BInv, [Next]_vars PROVE BInv'
    OBVIOUS
  <1>1. ASSUME NEW h \in Hooks, HookStep(h)
        PROVE  BInv'
    <2>1. TypeOK'
      BY <1>1, HookStepType DEF BInv
    <2>2. UNCHANGED <<orgs, left, row, job>>
      BY <1>1 DEF HookStep, PaymentFailed, HookTells, HookCrash, envVars
    <2>3. QED
      BY <2>1, <2>2 DEF BInv, GoneHaveNoRow, ListsAreBehind, PausedHaveEnded
  <1>2. CASE UNCHANGED vars
    BY <1>2 DEF vars, envVars, BInv, TypeOK, GoneHaveNoRow, ListsAreBehind,
                PausedHaveEnded
  <1>3. QED BY <1>1, <1>2, OrgStepBInv, JobStepBInv DEF Next

LEMMA SpecBInv == Spec => []BInv
  <1>1. QED BY InitBInv, BInvStep, PTL DEF Spec

\* Type correctness of BillingReminders, for any constants.
THEOREM RemindersTypeCorrect == Spec => []TypeOK
  <1>1. BInv => TypeOK
    BY DEF BInv
  <1>2. QED BY <1>1, SpecBInv, PTL

-----------------------------------------------------------------------------
(* The free year *)

\* What moves the row of a free period.
LEMMA WhatMoves ==
    ASSUME [Next]_vars
    PROVE  \/ UNCHANGED <<orgs, row>>
           \/ \E o \in Orgs : RedeemFreePeriod(o) \/ TakeOver(o) \/ DeleteOrg(o)
           \/ \E j \in Jobs : JobCommit(j)
  BY DEF Next, vars, envVars, OrgStep, JobStep, JobWork, HookStep, TimePasses, PaidEnds,
         ChargeSucceeds, JobStart, JobRemind, JobPause, JobSaveFails, JobCrash,
         PaymentFailed, HookTells, HookCrash

\* "A free year ends at trial_end": whatever lists the runs of the job work
\* from, what they save closes only periods at their end; before that only the
\* take-over by a Stripe subscription that pays the way does.
THEOREM YearsRunTheirCourse == Spec => NoYearCutShort
  <1>1. ASSUME BInv, [Next]_vars, NEW o \in orgs', row[o] = "trialing", row'[o] # "trialing"
        PROVE  left[o] = "ended" \/ paid'[o]
    <2> USE DEF BInv
    <2>1. o \in Orgs /\ row \in [Orgs -> Statuses] /\ paid \in [Orgs -> BOOLEAN]
      BY <1>1, BInvStep DEF TypeOK
    <2>2. CASE UNCHANGED <<orgs, row>>
      BY <1>1, <2>2
    <2>3. ASSUME NEW p \in Orgs, RedeemFreePeriod(p)
          PROVE  FALSE
      BY <1>1, <2>1, <2>3 DEF RedeemFreePeriod, FreePeriodUsed
    <2>4. ASSUME NEW p \in Orgs, TakeOver(p)
          PROVE  paid'[o]
      BY <1>1, <2>1, <2>4 DEF TakeOver
    <2>5. ASSUME NEW p \in Orgs, DeleteOrg(p)
          PROVE  FALSE
      BY <1>1, <2>1, <2>5 DEF DeleteOrg
    <2>6. ASSUME NEW j \in Jobs, JobCommit(j)
          PROVE  left[o] = "ended"
      <3>1. o \in job[j].paused
        BY <1>1, <2>1, <2>6 DEF JobCommit
      <3>2. QED BY <1>1, <2>1, <3>1 DEF PausedHaveEnded
    <2>7. QED BY <1>1, <2>2, <2>3, <2>4, <2>5, <2>6, WhatMoves
  <1>2. BInv /\ [Next]_vars =>
           [\A o \in orgs' : row[o] = "trialing" /\ row'[o] # "trialing"
                              => left[o] = "ended" \/ paid'[o]]_vars
    BY <1>1
  <1>3. QED BY <1>2, SpecBInv, PTL DEF Spec, NoYearCutShort

\* The daily job, the webhook and the deletion together keep the promise of
\* FreePeriod: a free year that was paused or taken over never opens again,
\* however stale the list of the run that saves it.
THEOREM RemindersKeepThePromise == Spec => FreePeriodPromise
  <1>1. ASSUME Init
        PROVE  FP!Init
    BY <1>1 DEF Init, FP!Init, PeriodOf
  <1>2. ASSUME BInv, [Next]_vars
        PROVE  [FP!Next]_PeriodOf
    <2> USE <1>2 DEF BInv
    <2>1. CASE UNCHANGED <<orgs, row>>
      BY <2>1 DEF PeriodOf
    <2>2. ASSUME NEW o \in Orgs, RedeemFreePeriod(o)
          PROVE  FP!Next
      <3>1. /\ o \in orgs /\ row[o] = "none" /\ orgs' = orgs
            /\ row' = [row EXCEPT ![o] = "trialing"]
        BY <2>2 DEF RedeemFreePeriod, FreePeriodUsed
      <3>2. PeriodOf[o] = "none" /\ PeriodOf' = [PeriodOf EXCEPT ![o] = "open"]
        BY <3>1 DEF PeriodOf, TypeOK
      <3>3. QED BY <3>2 DEF FP!Next, FP!Grant
    <2>3. ASSUME NEW o \in Orgs, TakeOver(o)
          PROVE  [FP!Next]_PeriodOf
      <3>1. /\ o \in orgs /\ orgs' = orgs
            /\ row' = [row EXCEPT ![o] = IF @ = "trialing" THEN "canceled" ELSE @]
        BY <2>3 DEF TakeOver
      <3>2. CASE row[o] = "trialing"
        <4>1. /\ PeriodOf[o] = "open"
              /\ PeriodOf' = [p \in Orgs |-> IF p \in {o} THEN "closed" ELSE PeriodOf[p]]
          BY <3>1, <3>2 DEF PeriodOf, TypeOK
        <4>2. FP!Close({o})
          BY <4>1 DEF FP!Close
        <4>3. QED BY <4>2 DEF FP!Next
      <3>3. CASE row[o] # "trialing"
        <4>1. row' = row
          BY <3>1, <3>3 DEF TypeOK
        <4>2. QED BY <2>1, <3>1, <4>1
      <3>4. QED BY <3>2, <3>3
    <2>4. ASSUME NEW o \in Orgs, DeleteOrg(o)
          PROVE  FP!Next
      <3>1. PeriodOf[o] # "gone" /\ PeriodOf' = [PeriodOf EXCEPT ![o] = "gone"]
        BY <2>4 DEF DeleteOrg, PeriodOf, TypeOK
      <3>2. FP!Leave(o)
        BY <3>1 DEF FP!Leave
      <3>3. QED BY <3>2 DEF FP!Next
    <2>5. ASSUME NEW j \in Jobs, JobCommit(j)
          PROVE  FP!Next
      <3> DEFINE S == {o \in Orgs : o \in job[j].paused /\ row[o] = "trialing"}
      <3>1. /\ orgs' = orgs
            /\ row' = [o \in Orgs |-> IF o \in job[j].paused THEN "paused" ELSE row[o]]
        BY <2>5 DEF JobCommit, envVars
      <3>2. \A o \in Orgs : o \in job[j].paused => o \in orgs /\ row[o] # "none"
        BY DEF PausedHaveEnded
      <3>3. \A o \in S : PeriodOf[o] = "open"
        BY <3>2 DEF PeriodOf
      <3>4. ASSUME NEW o \in Orgs
            PROVE  PeriodOf'[o] = IF o \in S THEN "closed" ELSE PeriodOf[o]
        BY <3>1, <3>2 DEF PeriodOf, TypeOK, Statuses
      <3>5. PeriodOf' = [o \in Orgs |-> IF o \in S THEN "closed" ELSE PeriodOf[o]]
        BY <3>4 DEF PeriodOf
      <3>6. FP!Close(S) /\ S \in SUBSET Orgs
        BY <3>3, <3>5 DEF FP!Close
      <3>7. QED BY <3>6 DEF FP!Next
    <2>6. QED BY <2>1, <2>2, <2>3, <2>4, <2>5, WhatMoves
  <1>3. QED
    BY <1>1, <1>2, SpecBInv, PTL DEF Spec, FreePeriodPromise, FP!Spec

-----------------------------------------------------------------------------
(* How many times one notice is sent *)

Noting(n) == {j \in Jobs : n \in job[j].notes}
Waiting(o) == {h \in Hooks : hook[h] = o}

\* Until it has a Notification, a notice was sent by runs that still hold it
\* and by runs that never committed; afterwards no run sends it again.
NoticesInReach ==
    \A o \in Orgs, k \in Keys \ {"payment_failed"} :
        /\ sent[<<o, k>>] <= Cardinality(Jobs) + aborts
        /\ <<o, k>> \notin told => sent[<<o, k>>] <= Cardinality(Noting(<<o, k>>)) + aborts

\* A failed payment is told by workers that found no Notification, and no
\* worker joins them once there is one.
WarningsInReach ==
    \A o \in Orgs :
        /\ sent[<<o, "payment_failed">>] + Cardinality(Waiting(o)) <= Cardinality(Hooks)
        /\ <<o, "payment_failed">> \notin told => sent[<<o, "payment_failed">>] = 0

\* A run begins with nothing of an earlier one.
IdleHoldNothing == \A j \in Jobs : job[j].pc = "idle" => job[j].notes = {}

DInv == TypeOK /\ NoticesInReach /\ WarningsInReach /\ IdleHoldNothing

LEMMA Counted ==
    /\ Cardinality(Jobs) \in Nat /\ Cardinality(Hooks) \in Nat
    /\ \A n : /\ IsFiniteSet(Noting(n)) /\ Cardinality(Noting(n)) \in Nat
             /\ Cardinality(Noting(n)) <= Cardinality(Jobs)
    /\ \A o : /\ IsFiniteSet(Waiting(o)) /\ Cardinality(Waiting(o)) \in Nat
             /\ Cardinality(Waiting(o)) <= Cardinality(Hooks)
  <1>1. \A n : Noting(n) \subseteq Jobs
    BY DEF Noting
  <1>2. \A o : Waiting(o) \subseteq Hooks
    BY DEF Waiting
  <1>3. QED BY <1>1, <1>2, FS_Subset, FS_CardinalityType, WorkersAssumption

LEMMA CountedNext ==
    /\ \A n : /\ IsFiniteSet(Noting(n)') /\ Cardinality(Noting(n)') \in Nat
             /\ Cardinality(Noting(n)') <= Cardinality(Jobs)
    /\ \A o : /\ IsFiniteSet(Waiting(o)') /\ Cardinality(Waiting(o)') \in Nat
             /\ Cardinality(Waiting(o)') <= Cardinality(Hooks)
  <1>1. \A n : Noting(n)' \subseteq Jobs
    BY DEF Noting
  <1>2. \A o : Waiting(o)' \subseteq Hooks
    BY DEF Waiting
  <1>3. QED BY <1>1, <1>2, FS_Subset, FS_CardinalityType, WorkersAssumption

LEMMA InitDInv == Init => DInv
  <1> SUFFICES ASSUME Init PROVE DInv
    OBVIOUS
  <1>1. TypeOK
    BY InitBInv DEF BInv
  <1>2. \A o \in Orgs, k \in Keys : sent[<<o, k>>] = 0
    BY DEF Init
  <1>3. "payment_failed" \in Keys /\ aborts = 0
    BY DEF Init, Keys
  <1>4. ASSUME NEW o \in Orgs, NEW k \in Keys
        PROVE  /\ sent[<<o, k>>] <= Cardinality(Jobs) + aborts
               /\ sent[<<o, k>>] <= Cardinality(Noting(<<o, k>>)) + aborts
    <2>1. sent[<<o, k>>] = 0 /\ Cardinality(Jobs) \in Nat
      BY <1>2, Counted
    <2>2. Cardinality(Noting(<<o, k>>)) \in Nat
      BY Counted
    <2>3. QED BY <1>3, <2>1, <2>2
  <1>5. NoticesInReach
    BY <1>4 DEF NoticesInReach
  <1>6. WarningsInReach
    BY <1>2, <1>3, Counted DEF WarningsInReach
  <1>7. IdleHoldNothing
    BY DEF Init, JobIdle, IdleHoldNothing
  <1>8. QED BY <1>1, <1>5, <1>6, <1>7 DEF DInv

\* Steps that send nothing, and after which no fewer runs hold a notice, or
\* more has aborted instead.
LEMMA WarningsKept ==
    ASSUME DInv, hook' = hook, told \subseteq told',
           \A o \in Orgs : sent'[<<o, "payment_failed">>] = sent[<<o, "payment_failed">>]
    PROVE  WarningsInReach'
  <1>1. \A o : Waiting(o)' = Waiting(o)
    BY DEF Waiting
  <1>2. QED BY <1>1 DEF DInv, WarningsInReach

\* A run sends a notice it did not hold yet, and now holds it.
LEMMA ListStepDInv ==
    ASSUME DInv, NEW j \in Jobs, NEW o \in Orgs, JobRemind(j, o) \/ JobPause(j, o)
    PROVE  NoticesInReach' /\ WarningsInReach' /\ IdleHoldNothing'
  <1> USE DEF DInv
  <1>1. PICK D \in SUBSET (Orgs \X Stages), P \in SUBSET {o},
             N \in SUBSET (Orgs \X Keys), k \in Keys \ {"payment_failed"} :
            Works(j, D, P, N) /\ Noted(j, o, k, N)
    BY ListStep
  <1>2. /\ \A i \in Jobs \ {j} : job'[i] = job[i]
        /\ job'[j].pc = "running"
        /\ job'[j].notes = job[j].notes \cup N
    <2>1. TypeOK /\ P \in SUBSET Orgs /\ Works(j, D, P, N)
      BY <1>1
    <2>2. QED BY <2>1, WorksStep
  <1>3. IdleHoldNothing'
    BY <1>2 DEF IdleHoldNothing
  <1>4. UNCHANGED <<told, hook, aborts>>
    BY DEF JobRemind, JobPause
  <1>5. \A n : Noting(n)' = IF n \in N THEN Noting(n) \cup {j} ELSE Noting(n)
    BY <1>2 DEF Noting
  <1>6. CASE N = {} /\ sent' = sent
    <2>1. \A n : Noting(n)' = Noting(n)
      BY <1>5, <1>6
    <2>2. NoticesInReach'
      BY <1>4, <1>6, <2>1 DEF NoticesInReach
    <2>3. QED BY <1>3, <1>4, <1>6, <2>2, WarningsKept
  <1>7. CASE /\ NotTold(j, <<o, k>>)
             /\ N = {<<o, k>>}
             /\ sent' = [sent EXCEPT ![<<o, k>>] = @ + 1]
    <2>1. <<o, k>> \notin told /\ j \notin Noting(<<o, k>>)
      BY <1>7 DEF NotTold, Noting
    <2>2. Noting(<<o, k>>)' = Noting(<<o, k>>) \cup {j}
      BY <1>5, <1>7
    <2>3. Cardinality(Noting(<<o, k>>)') = Cardinality(Noting(<<o, k>>)) + 1
      BY <2>1, <2>2, Counted, FS_AddElement
    <2>4. /\ <<o, k>> \in Orgs \X Keys
          /\ sent'[<<o, k>>] = sent[<<o, k>>] + 1
          /\ \A n \in (Orgs \X Keys) \ {<<o, k>>} : sent'[n] = sent[n]
      BY <1>7 DEF TypeOK
    <2>5. sent'[<<o, k>>] <= Cardinality(Noting(<<o, k>>)') + aborts
      <3>1. sent[<<o, k>>] <= Cardinality(Noting(<<o, k>>)) + aborts
        BY <2>1 DEF NoticesInReach
      <3>2. sent[<<o, k>>] \in Nat /\ aborts \in Nat
        BY <2>4, BoundsAssumption DEF TypeOK
      <3>3. QED BY <2>3, <2>4, <3>1, <3>2, Counted
    <2>6. sent'[<<o, k>>] <= Cardinality(Jobs) + aborts
      <3>1. sent'[<<o, k>>] \in Nat /\ aborts \in Nat
        BY <1>1, <2>4, BoundsAssumption DEF Noted, TypeOK
      <3>2. QED BY <2>5, <3>1, Counted, CountedNext
    <2>7. NoticesInReach'
      <3>1. ASSUME NEW p \in Orgs, NEW q \in Keys \ {"payment_failed"}, <<p, q>> # <<o, k>>
            PROVE  /\ sent'[<<p, q>>] <= Cardinality(Jobs) + aborts
                   /\ <<p, q>> \notin told =>
                         sent'[<<p, q>>] <= Cardinality(Noting(<<p, q>>)') + aborts
        <4>1. Noting(<<p, q>>)' = Noting(<<p, q>>)
          BY <1>5, <1>7, <3>1
        <4>2. sent'[<<p, q>>] = sent[<<p, q>>]
          BY <2>4, <3>1
        <4>3. QED BY <4>1, <4>2 DEF NoticesInReach
      <3>2. QED BY <1>4, <2>5, <2>6, <3>1 DEF NoticesInReach
    <2>8. \A p \in Orgs : sent'[<<p, "payment_failed">>] = sent[<<p, "payment_failed">>]
      BY <2>4 DEF Keys
    <2>9. QED BY <1>3, <1>4, <2>7, <2>8, WarningsKept
  <1>8. QED BY <1>1, <1>6, <1>7 DEF Noted

\* A run that ends lets go of what it held: for good if it commits, and one more
\* abort makes up for it otherwise.
LEMMA RunEndsDInv ==
    ASSUME DInv, NEW j \in Jobs,
           JobCommit(j) \/ JobCrash(j) \/ \E o \in Orgs : JobSaveFails(j, o)
    PROVE  NoticesInReach' /\ WarningsInReach' /\ IdleHoldNothing'
  <1> USE DEF DInv
  <1>1. /\ UNCHANGED <<sent, hook>>
        /\ job' = [job EXCEPT ![j] = JobIdle]
        /\ \/ told' = told \cup job[j].notes /\ aborts' = aborts
           \/ told' = told /\ aborts' = aborts + 1
    BY DEF JobCommit, JobCrash, JobSaveFails
  <1>2. /\ \A i \in Jobs \ {j} : job'[i] = job[i]
        /\ job'[j].notes = {}
    BY <1>1, JobIdleType, JobType DEF JobIdle
  <1>3. \A n : Noting(n)' = Noting(n) \ {j}
    BY <1>2 DEF Noting
  <1>4. aborts \in Nat /\ \A n \in Orgs \X Keys : sent[n] \in Nat
    BY BoundsAssumption DEF TypeOK
  <1>5. ASSUME NEW o \in Orgs, NEW k \in Keys \ {"payment_failed"}
        PROVE  /\ sent'[<<o, k>>] <= Cardinality(Jobs) + aborts'
               /\ <<o, k>> \notin told' =>
                     sent'[<<o, k>>] <= Cardinality(Noting(<<o, k>>)') + aborts'
    <2> DEFINE n == <<o, k>>
    <2>1. /\ sent[n] <= Cardinality(Jobs) + aborts
          /\ n \notin told => sent[n] <= Cardinality(Noting(n)) + aborts
          /\ sent[n] \in Nat /\ sent'[n] = sent[n]
      BY <1>1, <1>4 DEF NoticesInReach
    <2> HIDE DEF n
    <2>2. CASE told' = told \cup job[j].notes /\ aborts' = aborts
      <3>1. n \notin told' => Noting(n)' = Noting(n) /\ n \notin told
        BY <1>3, <2>2 DEF Noting
      <3>2. QED BY <2>1, <2>2, <3>1 DEF n
    <2>3. CASE told' = told /\ aborts' = aborts + 1
      <3>1. Cardinality(Noting(n)) <= Cardinality(Noting(n)') + 1
        BY <1>3, Counted, CountedNext, FS_RemoveElement
      <3>2. QED BY <1>4, <2>1, <2>3, <3>1, Counted, CountedNext DEF n
    <2>4. QED BY <1>1, <2>2, <2>3
  <1>6. NoticesInReach'
    BY <1>5 DEF NoticesInReach
  <1>7. told \subseteq told'
    BY <1>1
  <1>8. IdleHoldNothing'
    BY <1>2 DEF IdleHoldNothing
  <1>9. QED BY <1>1, <1>6, <1>7, <1>8, WarningsKept

LEMMA StartDInv ==
    ASSUME DInv, NEW j \in Jobs, JobStart(j)
    PROVE  NoticesInReach' /\ WarningsInReach' /\ IdleHoldNothing'
  <1> USE DEF DInv
  <1> DEFINE s == [pc |-> "running", list |-> {<<o, left[o]>> : o \in FreePeriods},
                   paused |-> {}, notes |-> {}]
  <1>1. s \in JobStates /\ s.notes = {} /\ s.pc = "running"
    BY StartedType
  <1>2. job' = [job EXCEPT ![j] = s] /\ job[j].pc = "idle"
    BY DEF JobStart
  <1>3. UNCHANGED <<sent, told, hook, aborts>>
    BY DEF JobStart
  <1> HIDE DEF s
  <1>4. job'[j] = s /\ \A i \in Jobs \ {j} : job'[i] = job[i]
    BY <1>1, <1>2, JobType
  <1>5. job[j].notes = {}
    BY <1>2 DEF IdleHoldNothing
  <1>6. \A n : Noting(n)' = Noting(n)
    BY <1>1, <1>4, <1>5 DEF Noting
  <1>7. NoticesInReach'
    BY <1>3, <1>6 DEF NoticesInReach
  <1>8. IdleHoldNothing'
    BY <1>1, <1>4 DEF IdleHoldNothing
  <1>9. QED BY <1>3, <1>7, <1>8, WarningsKept

\* A worker asks before notify(), and the one that tells stops waiting.
LEMMA HookStepDInv ==
    ASSUME DInv, NEW h \in Hooks, HookStep(h)
    PROVE  NoticesInReach' /\ WarningsInReach' /\ IdleHoldNothing'
  <1> USE DEF DInv
  <1>0. "payment_failed" \in Keys
    BY DEF Keys
  <1>1. ASSUME NEW p \in Orgs, PaymentFailed(h, p)
        PROVE  WarningsInReach' /\ told' = told /\ sent' = sent /\ aborts' = aborts
    <2>1. UNCHANGED <<told, sent, aborts>> /\ hook[h] = "idle"
      BY <1>1 DEF PaymentFailed
    <2>2. CASE hook' = hook
      BY <2>1, <2>2, WarningsKept
    <2>3. CASE <<p, "payment_failed">> \notin told /\ hook' = [hook EXCEPT ![h] = p]
      <3>1. sent[<<p, "payment_failed">>] = 0
        BY <2>3 DEF WarningsInReach
      <3>2. \A o \in Orgs \ {p} : Waiting(o)' = Waiting(o)
        BY <2>1, <2>3, OrgsAssumption DEF Waiting, TypeOK
      <3>3. QED BY <2>1, <3>1, <3>2, Counted, CountedNext DEF WarningsInReach
    <2>4. QED BY <1>1, <2>1, <2>2, <2>3 DEF PaymentFailed
  <1>2. ASSUME HookTells(h) \/ HookCrash(h)
        PROVE  /\ WarningsInReach'
               /\ \A n \in Orgs \X (Keys \ {"payment_failed"}) :
                     sent'[n] = sent[n] /\ (n \in told' <=> n \in told)
               /\ aborts' \in Nat /\ aborts <= aborts'
    <2>0. PICK o \in Orgs : hook[h] = o
      BY <1>2 DEF HookTells, HookCrash, TypeOK
    <2> DEFINE w == <<o, "payment_failed">>
    <2>1. o \in Orgs /\ w \in Orgs \X Keys /\ hook' = [hook EXCEPT ![h] = "idle"]
      BY <1>0, <1>2, <2>0 DEF HookTells, HookCrash, TypeOK
    <2>2. \/ told' = told \cup {w} /\ sent' = [sent EXCEPT ![w] = @ + 1] /\ aborts' = aborts
          \/ told' \in {told, told \cup {w}} /\ sent' = sent /\ aborts' = aborts + 1
      BY <1>2, <2>0 DEF HookTells, HookCrash, Mail
    <2>4. h \in Waiting(o) /\ Waiting(o)' = Waiting(o) \ {h}
      BY <2>1, <2>0, OrgsAssumption DEF Waiting, TypeOK
    <2>5. Cardinality(Waiting(o)') = Cardinality(Waiting(o)) - 1
      BY <2>4, Counted, FS_RemoveElement
    <2>6. \A p \in Orgs \ {o} : Waiting(p)' = Waiting(p)
      BY <2>1, <2>0, OrgsAssumption DEF Waiting, TypeOK
    <2>7. sent[w] \in Nat /\ sent'[w] \in {sent[w], sent[w] + 1}
      BY <2>1, <2>2 DEF TypeOK
    <2>8. \A n \in (Orgs \X Keys) \ {w} :
             sent'[n] = sent[n] /\ (n \in told' <=> n \in told)
      BY <2>2 DEF TypeOK
    <2>9. sent'[w] + Cardinality(Waiting(o)') <= Cardinality(Hooks)
      <3>1. sent[w] + Cardinality(Waiting(o)) <= Cardinality(Hooks)
        BY <2>1 DEF WarningsInReach
      <3>2. QED BY <2>5, <2>7, <3>1, Counted
    <2>10. w \notin told' => sent'[w] = 0
      <3>1. w \notin told => sent[w] = 0
        BY <2>1 DEF WarningsInReach
      <3>2. QED BY <2>2, <3>1
    <2>11. ASSUME NEW p \in Orgs, p # o
           PROVE  /\ sent'[<<p, "payment_failed">>] + Cardinality(Waiting(p)')
                        <= Cardinality(Hooks)
                  /\ <<p, "payment_failed">> \notin told'
                        => sent'[<<p, "payment_failed">>] = 0
      <3>1. <<p, "payment_failed">> \in (Orgs \X Keys) \ {w}
        BY <1>0, <2>11
      <3>2. QED BY <2>6, <2>8, <2>11, <3>1 DEF WarningsInReach
    <2>12. WarningsInReach'
      BY <2>9, <2>10, <2>11 DEF WarningsInReach
    <2>13. \A n \in Orgs \X (Keys \ {"payment_failed"}) : n # w /\ n \in Orgs \X Keys
      OBVIOUS
    <2>14. aborts' \in Nat /\ aborts <= aborts'
      BY <2>2, BoundsAssumption DEF TypeOK
    <2>15. QED BY <2>8, <2>12, <2>13, <2>14
  <1>3. job' = job
    BY DEF HookStep, PaymentFailed, HookTells, HookCrash
  <1>4. \A n : Noting(n)' = Noting(n)
    BY <1>3 DEF Noting
  <1>5. NoticesInReach'
    <2>1. aborts \in Nat /\ \A n \in Orgs \X Keys : sent[n] \in Nat
      BY BoundsAssumption DEF TypeOK
    <2>2. ASSUME NEW p \in Orgs, PaymentFailed(h, p)
          PROVE  NoticesInReach'
      BY <1>1, <1>4, <2>2 DEF NoticesInReach
    <2>3. ASSUME HookTells(h) \/ HookCrash(h), NEW o \in Orgs,
                 NEW k \in Keys \ {"payment_failed"}
          PROVE  /\ sent'[<<o, k>>] <= Cardinality(Jobs) + aborts'
                 /\ <<o, k>> \notin told' =>
                       sent'[<<o, k>>] <= Cardinality(Noting(<<o, k>>)') + aborts'
      <3>1. /\ sent'[<<o, k>>] = sent[<<o, k>>]
            /\ <<o, k>> \in told' <=> <<o, k>> \in told
            /\ aborts' \in Nat /\ aborts <= aborts'
        BY <1>2, <2>3
      <3>2. sent[<<o, k>>] \in Nat
        BY <2>1
      <3>3. /\ sent[<<o, k>>] <= Cardinality(Jobs) + aborts
            /\ <<o, k>> \notin told =>
                  sent[<<o, k>>] <= Cardinality(Noting(<<o, k>>)) + aborts
        BY DEF NoticesInReach
      <3>4. Cardinality(Noting(<<o, k>>)) \in Nat
        BY Counted
      <3>5. QED BY <1>4, <2>1, <3>1, <3>2, <3>3, <3>4, Counted
    <2>4. QED BY <2>2, <2>3 DEF HookStep, NoticesInReach
  <1>6. IdleHoldNothing'
    BY <1>3 DEF IdleHoldNothing
  <1>7. QED BY <1>1, <1>2, <1>5, <1>6 DEF HookStep

LEMMA DInvStep == DInv /\ [Next]_vars => DInv'
  <1> SUFFICES ASSUME DInv, [Next]_vars PROVE DInv'
    OBVIOUS
  <1>1. TypeOK'
    <2>1. CASE UNCHANGED vars
      BY <2>1 DEF vars, envVars, DInv, TypeOK
    <2>2. CASE Next
      BY <2>2, OrgStepType, JobStepType, HookStepType DEF Next, DInv
    <2>3. QED BY <2>1, <2>2
  <1>2. CASE UNCHANGED <<sent, told, job, hook, aborts>>
    <2>1. \A n : Noting(n)' = Noting(n)
      BY <1>2 DEF Noting
    <2>2. NoticesInReach' /\ IdleHoldNothing'
      BY <1>2, <2>1 DEF DInv, NoticesInReach, IdleHoldNothing
    <2>3. QED BY <1>1, <1>2, <2>2, WarningsKept DEF DInv
  <1>3. ASSUME NEW o \in Orgs, OrgStep(o)
        PROVE  DInv'
    BY <1>2, <1>3 DEF OrgStep, RedeemFreePeriod, TimePasses, TakeOver, PaidEnds,
                      ChargeSucceeds, DeleteOrg
  <1>4. ASSUME NEW j \in Jobs, JobStep(j)
        PROVE  DInv'
    BY <1>1, <1>4, StartDInv, ListStepDInv, RunEndsDInv DEF JobStep, JobWork, DInv
  <1>5. ASSUME NEW h \in Hooks, HookStep(h)
        PROVE  DInv'
    BY <1>1, <1>5, HookStepDInv DEF DInv
  <1>6. QED BY <1>2, <1>3, <1>4, <1>5 DEF Next, vars

\* "Once per `key`" at the level of the code: however the runs of the job and the
\* workers of the webhook overlap and however they die, a notice is sent at most
\* once for each run and for each one that aborted, a failed payment at most once
\* for each worker.
THEOREM NoticesAreBounded == Spec => []DuplicatesAreBounded
  <1>1. DInv => DuplicatesAreBounded
    <2> SUFFICES ASSUME DInv, NEW o \in Orgs, NEW k \in Keys
                 PROVE  sent[<<o, k>>] <= IF k = "payment_failed" THEN Cardinality(Hooks)
                                          ELSE Cardinality(Jobs) + aborts
      BY DEF DuplicatesAreBounded
    <2>1. CASE k = "payment_failed"
      <3>1. sent[<<o, k>>] + Cardinality(Waiting(o)) <= Cardinality(Hooks)
        BY <2>1 DEF DInv, WarningsInReach
      <3>2. sent[<<o, k>>] \in Nat
        BY DEF DInv, TypeOK
      <3>3. QED BY <2>1, <3>1, <3>2, Counted
    <2>2. CASE k # "payment_failed"
      BY <2>2 DEF DInv, NoticesInReach
    <2>3. QED BY <2>1, <2>2
  <1>2. QED BY <1>1, InitDInv, DInvStep, PTL DEF Spec

=============================================================================
