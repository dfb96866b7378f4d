-------------------------- MODULE TeamInvitesProofs --------------------------
(***************************************************************************)
(* Proofs about TeamInvites, for any addresses and limits and any finite   *)
(* number of requests and of overlapping runs of the upkeep job.           *)
(***************************************************************************)
EXTENDS TeamInvites, FiniteSetTheorems, SequenceTheorems, WellFoundedInduction, TLAPS

\* A row keeps its address as long as it has no answer, and not longer.
Addresses ==
    \A i \in Ids : invites[i].email = IF Unanswered(i) THEN invites[i].to ELSE ""

\* A request that saved an invite saved one that exists.
SavedExist == \A r \in Requests : request[r].pc = "saved" => request[r].id \in Ids

\* Until it starts again, a run of the job holds nothing.
IdleHoldNothing ==
    \A j \in Jobs : ~Running(j) =>
        job[j].expired = {} /\ job[j].stamped = {} /\ job[j].list = {}

\* The row a run is at is one of those it has left.
NextIsListed == \A j \in Jobs : job[j].next \in First(job[j].list)

\* The rows a run has written are its own until it ends, and those it expires
\* stay without an answer meanwhile.
LocksExclude ==
    \A j, k \in Jobs, i \in Ids : Holds(j, i) /\ Holds(k, i) => j = k
ExpiringAreUnanswered ==
    \A j \in Jobs : \A i \in job[j].expired : Unanswered(i)

\* A report is about an invite, and holds the address it was made for.
ComplaintsHold ==
    \A i \in 1..MaxInvites :
        /\ complaint[i].pc # "none" => i \in Ids
        /\ complaint[i].held => /\ complaint[i].pc # "none"
                                /\ complaint[i].email = invites[i].to

IInv ==
    /\ TypeOK
    /\ Len(invites) <= MaxInvites
    /\ Addresses /\ SavedExist /\ IdleHoldNothing /\ NextIsListed
    /\ LocksExclude /\ ExpiringAreUnanswered
    /\ ComplaintsHold /\ ReportBlocks

-----------------------------------------------------------------------------
(* What the steps do to the rows *)

LEMMA IdsAre ==
    ASSUME TypeOK
    PROVE  /\ Len(invites) \in Nat /\ Ids = 1..Len(invites)
           /\ \A i \in Ids : invites[i] \in InviteRows
  <1>1. invites \in Seq(InviteRows)
    BY DEF TypeOK
  <1>2. Len(invites) \in Nat /\ DOMAIN invites = 1..Len(invites)
    BY <1>1, LenProperties
  <1>3. \A i \in 1..Len(invites) : invites[i] \in InviteRows
    BY <1>1, ElementOfSeq
  <1>4. QED BY <1>2, <1>3 DEF Ids

LEMMA RowFields ==
    ASSUME NEW row \in InviteRows
    PROVE  /\ row = [to |-> row.to, email |-> row.email, answer |-> row.answer,
                     age |-> row.age, reminded |-> row.reminded]
           /\ row.to \in Emails /\ row.email \in Emails \cup {""}
           /\ row.answer \in Answers /\ row.age \in Ages /\ row.reminded \in BOOLEAN
  BY DEF InviteRows

\* A row for another, in a sequence of rows.
LEMMA RowStep ==
    ASSUME TypeOK, NEW i \in Ids, NEW row \in InviteRows,
           invites' = [invites EXCEPT ![i] = row]
    PROVE  /\ invites' \in Seq(InviteRows)
           /\ Ids' = Ids /\ Len(invites') = Len(invites)
           /\ invites'[i] = row
           /\ \A k \in Ids \ {i} : invites'[k] = invites[k]
  <1>1. i \in 1..Len(invites) /\ invites \in Seq(InviteRows)
    BY IdsAre DEF TypeOK
  <1>2. /\ invites' \in Seq(InviteRows) /\ Len(invites') = Len(invites)
        /\ \A k \in 1..Len(invites) : invites'[k] = IF k = i THEN row ELSE invites[k]
    BY <1>1, ExceptSeq
  <1>3. Ids' = 1..Len(invites')
    BY <1>2 DEF Ids
  <1>4. QED BY <1>1, <1>2, <1>3, IdsAre

LEMMA CloseStep ==
    ASSUME TypeOK, NEW i \in Ids, NEW a \in Answers, invites' = Close(i, a)
    PROVE  /\ invites' \in Seq(InviteRows)
           /\ Ids' = Ids /\ Len(invites') = Len(invites)
           /\ invites'[i].answer = a /\ invites'[i].email = ""
           /\ invites'[i].to = invites[i].to /\ invites'[i].age = invites[i].age
           /\ invites'[i].reminded = invites[i].reminded
           /\ \A k \in Ids \ {i} : invites'[k] = invites[k]
  <1> DEFINE row == [invites[i] EXCEPT !.answer = a, !.email = ""]
  <1>1. invites[i] \in InviteRows
    BY IdsAre
  <1>2. /\ row \in InviteRows /\ row.answer = a /\ row.email = ""
        /\ row.to = invites[i].to /\ row.age = invites[i].age
        /\ row.reminded = invites[i].reminded
    BY <1>1 DEF InviteRows
  <1>3. invites' = [invites EXCEPT ![i] = row]
    BY DEF Close
  <1> HIDE DEF row
  <1>4. QED BY <1>2, <1>3, RowStep

LEMMA AgeStep ==
    ASSUME TypeOK, NEW i \in Ids, TimePasses(i)
    PROVE  /\ invites' \in Seq(InviteRows)
           /\ Ids' = Ids /\ Len(invites') = Len(invites)
           /\ invites'[i].answer = invites[i].answer
           /\ invites'[i].email = invites[i].email
           /\ invites'[i].to = invites[i].to
           /\ invites'[i].age = invites[i].age + 1 /\ invites'[i].age > 0
           /\ invites'[i].reminded = invites[i].reminded
           /\ \A k \in Ids \ {i} : invites'[k] = invites[k]
  <1> DEFINE row == [invites[i] EXCEPT !.age = invites[i].age + 1]
  <1>0. invites[i] \in InviteRows
    BY IdsAre
  <1>1. invites[i].age \in Ages /\ invites[i].age < ExpiredAge
    BY <1>0, RowFields DEF TimePasses
  <1>1a. invites[i].age + 1 \in Ages /\ invites[i].age + 1 > 0
    BY <1>1 DEF Ages, ExpiredAge
  <1>2. /\ row \in InviteRows /\ row.answer = invites[i].answer
        /\ row.email = invites[i].email
        /\ row.to = invites[i].to /\ row.age = invites[i].age + 1
        /\ row.reminded = invites[i].reminded
    BY <1>0, <1>1a DEF InviteRows
  <1>3. invites' = [invites EXCEPT ![i] = row]
    BY DEF TimePasses
  <1> HIDE DEF row
  <1>4. QED BY <1>1a, <1>2, <1>3, RowStep

NewRow(e) == [to |-> e, email |-> e, answer |-> "open", age |-> 0, reminded |-> FALSE]

LEMMA CreateStep ==
    ASSUME TypeOK, NEW e \in Emails, invites' = Append(invites, NewRow(e))
    PROVE  /\ invites' \in Seq(InviteRows)
           /\ Len(invites') = Len(invites) + 1
           /\ Ids' = Ids \cup {Len(invites) + 1} /\ Len(invites) + 1 \notin Ids
           /\ invites'[Len(invites) + 1] = NewRow(e)
           /\ \A k \in Ids : invites'[k] = invites[k]
  <1>0. "open" \in Answers /\ 0 \in Ages
    BY DEF Answers, Ages
  <1>1. NewRow(e) \in InviteRows
    BY <1>0 DEF NewRow, InviteRows
  <1>2. invites \in Seq(InviteRows) /\ Len(invites) \in Nat /\ Ids = 1..Len(invites)
    BY IdsAre DEF TypeOK
  <1>3. /\ invites' \in Seq(InviteRows)
        /\ Len(invites') = Len(invites) + 1
        /\ \A k \in 1..Len(invites) : invites'[k] = invites[k]
        /\ invites'[Len(invites) + 1] = NewRow(e)
    BY <1>1, <1>2, AppendProperties
  <1>4. Ids' = 1..(Len(invites) + 1)
    BY <1>3 DEF Ids
  <1>5. QED BY <1>2, <1>3, <1>4

LEMMA CommitStep ==
    ASSUME TypeOK, NEW j \in Jobs, JobCommit(j)
    PROVE  /\ invites' \in Seq(InviteRows)
           /\ Ids' = Ids /\ Len(invites') = Len(invites)
           /\ \A k \in Ids :
                 /\ invites'[k].to = invites[k].to /\ invites'[k].age = invites[k].age
                 /\ k \in job[j].expired =>
                       invites'[k].answer = "expired" /\ invites'[k].email = ""
                 /\ k \notin job[j].expired =>
                       /\ invites'[k].answer = invites[k].answer
                       /\ invites'[k].email = invites[k].email
                 /\ invites'[k].reminded <=> invites[k].reminded \/ k \in job[j].stamped
  <1> DEFINE Row(k) == [invites[k] EXCEPT
                           !.answer = IF k \in job[j].expired THEN "expired" ELSE @,
                           !.email = IF k \in job[j].expired THEN "" ELSE @,
                           !.reminded = @ \/ Stamped(j, k)]
  <1>1. \A k \in Ids : invites[k] \in InviteRows
    BY IdsAre
  <1>2. ASSUME NEW k \in Ids
        PROVE  /\ Row(k) \in InviteRows
               /\ Row(k).to = invites[k].to /\ Row(k).age = invites[k].age
               /\ k \in job[j].expired => Row(k).answer = "expired" /\ Row(k).email = ""
               /\ k \notin job[j].expired =>
                     Row(k).answer = invites[k].answer /\ Row(k).email = invites[k].email
               /\ Row(k).reminded <=> invites[k].reminded \/ k \in job[j].stamped
    BY <1>1 DEF InviteRows, Answers, Stamped
  <1>3. invites' = [k \in Ids |-> Row(k)]
    BY DEF JobCommit
  <1> HIDE DEF Row
  <1>4. Ids = 1..Len(invites) /\ Len(invites) \in Nat
    BY IdsAre
  <1>5. invites' \in Seq(InviteRows) /\ Len(invites') = Len(invites)
    <2>1. invites' = [k \in 1..Len(invites) |-> Row(k)]
      BY <1>3, <1>4
    <2>2. \A k \in 1..Len(invites) : Row(k) \in InviteRows
      BY <1>2, <1>4
    <2>3. [k \in 1..Len(invites) |-> Row(k)] \in Seq(InviteRows)
      BY <1>4, <2>2, IsASeq
    <2>4. QED BY <1>4, <2>1, <2>3, LenProperties
  <1>6. Ids' = Ids
    BY <1>4, <1>5 DEF Ids
  <1>7. QED BY <1>2, <1>3, <1>5, <1>6

\* A row closes when somebody answers it, and then nobody else had it locked.
Answered(i) ==
    /\ ~Locked(i) /\ Unanswered(i)
    /\ \E a \in {"accepted", "declined"} : invites' = Close(i, a)
    /\ UNCHANGED <<request, job>>

\* A row is made by a request for the address it had checked.
Made(r) ==
    /\ request[r].pc = "counted" /\ request[r].email \in Emails
    /\ Len(invites) < MaxInvites /\ ~HasUnanswered(request[r].email)
    /\ invites' = Append(invites, NewRow(request[r].email))
    /\ request' = [request EXCEPT ![r] = [pc |-> "saved", id |-> Len(invites) + 1]]
    /\ UNCHANGED <<accounts, optOuts, verified, complaint, job, mail, overlaps, aborts>>

LEMMA RequestFields ==
    ASSUME TypeOK, NEW r \in Requests
    PROVE  /\ request[r].pc \in {"idle", "allowed", "counted", "saved"}
           /\ request[r].pc \in {"allowed", "counted"} =>
                 request[r].email \in Emails
           /\ request[r].pc = "saved" => request[r].id \in 1..MaxInvites
  BY DEF TypeOK

LEMMA AnswerStep ==
    ASSUME NEW i \in Ids, Answer(i)
    PROVE  Answered(i) \/ invites' = invites
  <1> USE DEF Answered, IsOpen
  <1>1. CASE Accept(i)
    BY <1>1 DEF Accept, StillOpen
  <1>2. ASSUME NEW b \in BOOLEAN, Decline(i, b)
        PROVE  Answered(i) \/ invites' = invites
    BY <1>2 DEF Decline
  <1>3. CASE ReportReads(i)
    BY <1>3 DEF ReportReads
  <1>4. CASE ReportFiles(i)
    BY <1>4 DEF ReportFiles
  <1>5. QED BY <1>1, <1>2, <1>3, <1>4 DEF Answer

LEMMA RequestMoves ==
    ASSUME TypeOK, NEW r \in Requests, RequestStep(r)
    PROVE  Made(r) \/ invites' = invites
  <1>1. CASE CreateInvite(r)
    BY <1>1, RequestFields DEF CreateInvite, Made, NewRow
  <1>2. QED
    BY <1>1 DEF RequestStep, CountInvites, SendInvite, RequestCrash, Invite

\* The steps that write rows.
LEMMA WhatMoves ==
    ASSUME TypeOK, [Next]_vars
    PROVE  \/ invites' = invites
           \/ \E i \in Ids : TimePasses(i) \/ (Answer(i) /\ Answered(i))
           \/ \E r \in Requests : Made(r)
           \/ \E j \in Jobs : JobCommit(j)
  <1>1. ASSUME NEW j \in Jobs, JobStep(j)
        PROVE  JobCommit(j) \/ invites' = invites
    BY <1>1 DEF JobStep, JobWork, JobStart, JobRemind, JobCrash
  <1>2. ASSUME NEW e \in Emails, SignUp(e)
        PROVE  invites' = invites
    BY <1>2 DEF SignUp
  <1>3. CASE UNCHANGED vars
    BY <1>3 DEF vars
  <1>4. CASE Next
    BY <1>1, <1>2, <1>4, AnswerStep, RequestMoves DEF Next
  <1>5. QED BY <1>3, <1>4

\* Rows are never lost, nor given another address, and an answer stands.
RowsStand ==
    /\ Ids \subseteq Ids'
    /\ \A i \in Ids :
          /\ invites'[i].to = invites[i].to
          /\ ~Unanswered(i) => invites'[i].answer = invites[i].answer
                               /\ invites'[i].email = ""
    /\ \A i \in Ids' \ Ids : invites'[i].answer = "open"

\* What a row may become: closed, if it has no answer.
RowKept(i) ==
    /\ invites'[i].to = invites[i].to
    /\ \/ invites'[i].answer = invites[i].answer /\ invites'[i].email = invites[i].email
       \/ /\ Unanswered(i)
          /\ invites'[i].answer # "open" /\ invites'[i].email = ""

LEMMA RowsKept ==
    ASSUME Addresses, Ids' = Ids, \A i \in Ids : RowKept(i)
    PROVE  Addresses' /\ RowsStand
  <1>1. ASSUME NEW i \in Ids
        PROVE  /\ invites'[i].to = invites[i].to
               /\ ~Unanswered(i) => invites'[i].answer = invites[i].answer
                                    /\ invites'[i].email = ""
               /\ invites'[i].email =
                     IF invites'[i].answer = "open" THEN invites'[i].to ELSE ""
    BY DEF RowKept, Addresses, Unanswered
  <1>2. QED BY <1>1 DEF RowsStand, Addresses, Unanswered

LEMMA RowsGrow ==
    ASSUME IInv, [Next]_vars
    PROVE  /\ invites' \in Seq(InviteRows) /\ Len(invites') <= MaxInvites
           /\ Addresses' /\ RowsStand
  <1> USE DEF IInv
  <1>1. CASE invites' = invites
    <2>1. Ids' = Ids /\ \A i \in Ids : RowKept(i)
      BY <1>1 DEF RowKept, Ids
    <2>2. QED BY <1>1, <2>1, RowsKept DEF TypeOK
  <1>2. ASSUME NEW i \in Ids, TimePasses(i)
        PROVE  /\ invites' \in Seq(InviteRows) /\ Len(invites') <= MaxInvites
               /\ Addresses' /\ RowsStand
    <2>1. /\ invites' \in Seq(InviteRows) /\ Ids' = Ids /\ Len(invites') = Len(invites)
          /\ RowKept(i) /\ \A k \in Ids \ {i} : invites'[k] = invites[k]
      BY <1>2, AgeStep DEF RowKept
    <2>2. \A k \in Ids : RowKept(k)
      BY <2>1 DEF RowKept
    <2>3. QED BY <2>1, <2>2, RowsKept
  <1>3. ASSUME NEW i \in Ids, Answered(i)
        PROVE  /\ invites' \in Seq(InviteRows) /\ Len(invites') <= MaxInvites
               /\ Addresses' /\ RowsStand
    <2>1. PICK a \in {"accepted", "declined"} : invites' = Close(i, a)
      BY <1>3 DEF Answered
    <2>2. a \in Answers /\ a # "open"
      BY DEF Answers
    <2>3. Unanswered(i)
      BY <1>3 DEF Answered
    <2>4. /\ invites' \in Seq(InviteRows) /\ Ids' = Ids /\ Len(invites') = Len(invites)
          /\ invites'[i].answer = a /\ invites'[i].email = ""
          /\ invites'[i].to = invites[i].to
          /\ \A k \in Ids \ {i} : invites'[k] = invites[k]
      BY <2>1, <2>2, CloseStep
    <2>5. \A k \in Ids : RowKept(k)
      BY <2>2, <2>3, <2>4 DEF RowKept
    <2>6. QED BY <2>4, <2>5, RowsKept
  <1>4. ASSUME NEW r \in Requests, Made(r)
        PROVE  /\ invites' \in Seq(InviteRows) /\ Len(invites') <= MaxInvites
               /\ Addresses' /\ RowsStand
    <2> DEFINE n == Len(invites) + 1
               e == request[r].email
    <2>1. e \in Emails /\ Len(invites) < MaxInvites /\ invites' = Append(invites, NewRow(e))
      BY <1>4 DEF Made
    <2>2. /\ invites' \in Seq(InviteRows) /\ Len(invites') = n
          /\ Ids' = Ids \cup {n} /\ n \notin Ids
          /\ invites'[n] = NewRow(e)
          /\ \A k \in Ids : invites'[k] = invites[k]
      BY <2>1, CreateStep
    <2>3. n <= MaxInvites
      BY <2>1, IdsAre, LimitsAssumption
    <2>4. /\ invites'[n].answer = "open" /\ invites'[n].to = e
          /\ invites'[n].email = e
      BY <2>2 DEF NewRow
    <2> HIDE DEF n, e
    <2>5. ASSUME NEW k \in Ids
          PROVE  /\ invites'[k].to = invites[k].to
                 /\ ~Unanswered(k) => invites'[k].answer = invites[k].answer
                                      /\ invites'[k].email = ""
                 /\ invites'[k].email =
                       IF invites'[k].answer = "open" THEN invites'[k].to ELSE ""
      BY <2>2 DEF Addresses, Unanswered
    <2>6. RowsStand
      BY <2>2, <2>4, <2>5 DEF RowsStand
    <2>7. Addresses'
      BY <2>2, <2>4, <2>5 DEF Addresses, Unanswered
    <2>8. QED BY <2>2, <2>3, <2>6, <2>7
  <1>5. ASSUME NEW j \in Jobs, JobCommit(j)
        PROVE  /\ invites' \in Seq(InviteRows) /\ Len(invites') <= MaxInvites
               /\ Addresses' /\ RowsStand
    <2>1. \A i \in job[j].expired : Unanswered(i)
      BY DEF ExpiringAreUnanswered
    <2>2. /\ invites' \in Seq(InviteRows) /\ Ids' = Ids /\ Len(invites') = Len(invites)
          /\ \A k \in Ids :
                /\ invites'[k].to = invites[k].to
                /\ k \in job[j].expired =>
                      invites'[k].answer = "expired" /\ invites'[k].email = ""
                /\ k \notin job[j].expired =>
                      /\ invites'[k].answer = invites[k].answer
                      /\ invites'[k].email = invites[k].email
      BY <1>5, CommitStep
    <2>3. \A k \in Ids : RowKept(k)
      BY <2>1, <2>2 DEF RowKept
    <2>4. QED BY <2>2, <2>3, RowsKept
  <1>6. QED BY <1>1, <1>2, <1>3, <1>4, <1>5, WhatMoves

LEMMA IdsNext ==
    ASSUME IInv, [Next]_vars
    PROVE  Ids' \subseteq 1..MaxInvites
  <1>1. invites' \in Seq(InviteRows) /\ Len(invites') <= MaxInvites
    BY RowsGrow
  <1>2. Len(invites') \in Nat /\ DOMAIN (invites') = 1..Len(invites')
    BY <1>1, LenProperties
  <1>3. QED BY <1>1, <1>2, LimitsAssumption DEF Ids

-----------------------------------------------------------------------------
(* What the steps do to the runs of the upkeep job *)

LEMMA JobType ==
    ASSUME TypeOK, NEW j \in Jobs, NEW s \in JobStates, job' = [job EXCEPT ![j] = s]
    PROVE  /\ job' \in [Jobs -> JobStates]
           /\ job'[j] = s
           /\ \A i \in Jobs \ {j} : job'[i] = job[i]
  BY DEF TypeOK

LEMMA JobFields ==
    ASSUME TypeOK, NEW j \in Jobs
    PROVE  /\ job[j] = [pc |-> job[j].pc, expired |-> job[j].expired,
                        stamped |-> job[j].stamped, list |-> job[j].list,
                        next |-> job[j].next]
           /\ job[j].pc \in {"idle", "running"}
           /\ job[j].expired \subseteq Ids
           /\ job[j].stamped \subseteq Ids
           /\ job[j].list \subseteq Ids /\ job[j].next \in Ids \cup {0}
  BY DEF TypeOK, JobStates

LEMMA FirstIs ==
    ASSUME TypeOK, NEW S \in SUBSET Ids, NEW n \in First(S)
    PROVE  /\ n \in Ids \cup {0}
           /\ n \in Ids => n \in S
  <1>1. CASE S = {}
    <2>1. n = 0 /\ 0 \notin Ids
      BY <1>1, IdsAre DEF First
    <2>2. QED BY <2>1
  <1>2. QED BY <1>1 DEF First

LEMMA StartStep ==
    ASSUME TypeOK, NEW j \in Jobs, JobStart(j)
    PROVE  /\ job' \in [Jobs -> JobStates]
           /\ \A k \in Jobs \ {j} : job'[k] = job[k]
           /\ job'[j].pc = "running" /\ job'[j].expired = Stale
           /\ job'[j].stamped = {} /\ job'[j].list = Due
           /\ job'[j].next \in First(Due)
  <1>0. PICK n \in First(Due) :
            job' = [job EXCEPT ![j] = [pc |-> "running", expired |-> Stale, stamped |-> {},
                                       list |-> Due, next |-> n]]
    BY DEF JobStart
  <1> DEFINE s == [pc |-> "running", expired |-> Stale, stamped |-> {}, list |-> Due,
                   next |-> n]
  <1>1. Stale \subseteq Ids /\ Due \subseteq Ids
    BY DEF Stale, Due
  <1>2. s \in JobStates
    <2>1. n \in Ids \cup {0}
      BY <1>1, FirstIs
    <2>2. QED BY <1>1, <2>1 DEF JobStates
  <1>3. job' = [job EXCEPT ![j] = s]
    BY <1>0
  <1>4. /\ s.pc = "running" /\ s.expired = Stale /\ s.stamped = {} /\ s.list = Due
        /\ s.next = n
    OBVIOUS
  <1> HIDE DEF s
  <1>5. QED BY <1>0, <1>2, <1>3, <1>4, JobType

LEMMA RemindStep ==
    ASSUME TypeOK, NEW j \in Jobs, NEW i \in Ids, JobRemind(j, i)
    PROVE  /\ job' \in [Jobs -> JobStates]
           /\ \A k \in Jobs \ {j} : job'[k] = job[k]
           /\ job'[j].pc = "running" /\ job'[j].expired = job[j].expired
           /\ job'[j].stamped = job[j].stamped \cup {i}
           /\ job'[j].list = job[j].list \ {i}
           /\ job'[j].next \in First(job[j].list \ {i})
  <1>0. PICK n \in First(job[j].list \ {i}) :
            job' = [job EXCEPT ![j] = [job[j] EXCEPT !.list = job[j].list \ {i}, !.next = n,
                                                     !.stamped = job[j].stamped \cup {i}]]
    BY DEF JobRemind
  <1> DEFINE s == [job[j] EXCEPT !.list = job[j].list \ {i}, !.next = n,
                                 !.stamped = job[j].stamped \cup {i}]
  <1>1. /\ job[j] \in JobStates
        /\ job[j].list \ {i} \in SUBSET Ids /\ job[j].stamped \cup {i} \in SUBSET Ids
        /\ n \in Ids \cup {0}
    BY JobFields, FirstIs DEF TypeOK
  <1>2. /\ s \in JobStates
        /\ s.pc = job[j].pc /\ s.expired = job[j].expired
        /\ s.stamped = job[j].stamped \cup {i} /\ s.list = job[j].list \ {i}
        /\ s.next = n
    BY <1>1 DEF JobStates
  <1>3. job' = [job EXCEPT ![j] = s] /\ job[j].pc = "running"
    BY <1>0 DEF JobRemind, Running
  <1> HIDE DEF s
  <1>4. QED BY <1>0, <1>2, <1>3, JobType

LEMMA RemindsListed ==
    ASSUME IInv, NEW j \in Jobs, NEW i \in Ids, JobRemind(j, i)
    PROVE  i \in job[j].list
  BY JobFields, FirstIs DEF IInv, NextIsListed, JobRemind

LEMMA EndStep ==
    ASSUME TypeOK, NEW j \in Jobs, JobCommit(j) \/ JobCrash(j)
    PROVE  /\ job' \in [Jobs -> JobStates]
           /\ \A k \in Jobs \ {j} : job'[k] = job[k]
           /\ job'[j].pc = "idle" /\ job'[j].expired = {}
           /\ job'[j].stamped = {} /\ job'[j].list = {} /\ job'[j].next = 0
  <1>1. JobIdle \in JobStates
    BY DEF JobIdle, JobStates
  <1>2. job' = [job EXCEPT ![j] = JobIdle]
    BY DEF JobCommit, JobCrash
  <1>3. QED BY <1>1, <1>2, JobType DEF JobIdle

LEMMA WhatRuns ==
    ASSUME [Next]_vars
    PROVE  \/ job' = job
           \/ \E j \in Jobs : \/ JobStart(j) \/ JobCommit(j) \/ JobCrash(j)
                              \/ \E i \in Ids : JobRemind(j, i)
  <1>1. ASSUME NEW r \in Requests, RequestStep(r)
        PROVE  job' = job
    BY <1>1 DEF RequestStep, CountInvites, SendInvite, RequestCrash, Invite, CreateInvite
  <1>2. ASSUME NEW i \in Ids, TimePasses(i) \/ Answer(i)
        PROVE  job' = job
    BY <1>2 DEF TimePasses, Answer, Accept, Decline, ReportReads, ReportFiles
  <1>3. ASSUME NEW e \in Emails, SignUp(e)
        PROVE  job' = job
    BY <1>3 DEF SignUp
  <1>4. CASE UNCHANGED vars
    BY <1>4 DEF vars
  <1>5. CASE Next
    BY <1>1, <1>2, <1>3, <1>5 DEF Next, JobStep, JobWork
  <1>6. QED BY <1>4, <1>5

LEMMA JobsType ==
    ASSUME TypeOK, [Next]_vars
    PROVE  job' \in [Jobs -> JobStates]
  BY WhatRuns, StartStep, RemindStep, EndStep DEF TypeOK

\* A run of the job that closes a row commits it; nobody else's step touches
\* the rows a run has locked.
LEMMA LockedRowsKept ==
    ASSUME IInv, [Next]_vars, NEW j \in Jobs, NEW i \in Ids, Holds(j, i),
           ~JobCommit(j), Unanswered(i)
    PROVE  invites'[i].answer = "open"
  <1> USE DEF IInv
  <1>1. CASE invites' = invites
    BY <1>1 DEF Unanswered
  <1>2. ASSUME NEW k \in Ids, TimePasses(k)
        PROVE  invites'[i].answer = "open"
    BY <1>2, AgeStep DEF Unanswered
  <1>3. ASSUME NEW k \in Ids, Answered(k)
        PROVE  invites'[i].answer = "open"
    <2>1. k # i
      BY <1>3 DEF Answered, Locked
    <2>2. PICK a \in {"accepted", "declined"} : invites' = Close(k, a)
      BY <1>3 DEF Answered
    <2>3. QED BY <2>1, <2>2, CloseStep DEF Answers, Unanswered
  <1>4. ASSUME NEW r \in Requests, Made(r)
        PROVE  invites'[i].answer = "open"
    BY <1>4, CreateStep DEF Made, Unanswered
  <1>5. ASSUME NEW k \in Jobs, JobCommit(k)
        PROVE  invites'[i].answer = "open"
    <2>1. i \notin job[k].expired
      BY <1>5 DEF LocksExclude, Holds
    <2>2. QED BY <1>5, <2>1, CommitStep DEF Unanswered
  <1>6. QED BY <1>1, <1>2, <1>3, <1>4, <1>5, WhatMoves

LEMMA ExpiringStep ==
    ASSUME IInv, [Next]_vars
    PROVE  ExpiringAreUnanswered'
  <1> USE DEF IInv
  <1>1. SUFFICES ASSUME NEW j \in Jobs, NEW i \in job'[j].expired
                 PROVE  invites'[i].answer = "open"
    BY DEF ExpiringAreUnanswered, Unanswered
  <1>2. CASE i \in job[j].expired
    <2>1. i \in Ids /\ Holds(j, i) /\ Unanswered(i)
      BY <1>2, JobFields DEF Holds, ExpiringAreUnanswered
    <2>2. ~JobCommit(j)
      BY <1>1, EndStep
    <2>3. QED BY <2>1, <2>2, LockedRowsKept
  <1>3. CASE i \notin job[j].expired
    <2>1. PICK k \in Jobs : \/ JobStart(k) \/ JobCommit(k) \/ JobCrash(k)
                            \/ \E n \in Ids : JobRemind(k, n)
      BY <1>1, <1>3, WhatRuns
    <2>2. JobStart(j)
      BY <1>1, <1>3, <2>1, StartStep, RemindStep, EndStep
    <2>3. i \in Stale
      BY <1>1, <2>2, StartStep
    <2>4. QED BY <2>2, <2>3 DEF JobStart, Stale, Unanswered
  <1>4. QED BY <1>2, <1>3

LEMMA NextStep ==
    ASSUME IInv, [Next]_vars
    PROVE  NextIsListed'
  <1>1. ASSUME NEW j \in Jobs, JobCommit(j) \/ JobCrash(j)
        PROVE  job'[j].next \in First(job'[j].list)
    BY <1>1, EndStep DEF IInv, First
  <1>2. ASSUME NEW j \in Jobs, job'[j] = job[j]
        PROVE  job'[j].next \in First(job'[j].list)
    BY <1>2 DEF IInv, NextIsListed
  <1>3. ASSUME NEW j \in Jobs
        PROVE  job'[j].next \in First(job'[j].list)
    BY <1>1, <1>2, WhatRuns, StartStep, RemindStep, EndStep DEF IInv
  <1>4. QED BY <1>3 DEF NextIsListed, First

LEMMA RunsStep ==
    ASSUME IInv, [Next]_vars
    PROVE  IdleHoldNothing' /\ LocksExclude'
  <1> USE DEF IInv
  <1>1. \A j \in Jobs : /\ job[j].expired \subseteq Ids
                        /\ job[j].stamped \subseteq Ids
    BY JobFields
  <1>2. \A j, k \in Jobs : \A i : Holds(j, i) /\ Holds(k, i) => j = k
    BY <1>1 DEF LocksExclude, Holds
  <1>3. CASE job' = job
    BY <1>2, <1>3 DEF IdleHoldNothing, LocksExclude, Running, Holds
  <1>4. ASSUME NEW j \in Jobs, JobStart(j)
        PROVE  IdleHoldNothing' /\ LocksExclude'
    <2>1. /\ \A k \in Jobs \ {j} : job'[k] = job[k]
          /\ job'[j].pc = "running" /\ job'[j].expired = Stale /\ job'[j].stamped = {}
      BY <1>4, StartStep
    <2>2. \A k \in Jobs, i \in Stale : ~Holds(k, i)
      BY <1>4 DEF JobStart, Locked
    <2>3. QED
      BY <1>2, <2>1, <2>2 DEF IdleHoldNothing, LocksExclude, Running, Holds
  <1>5. ASSUME NEW j \in Jobs, JobCommit(j) \/ JobCrash(j)
        PROVE  IdleHoldNothing' /\ LocksExclude'
    BY <1>2, <1>5, EndStep DEF IdleHoldNothing, LocksExclude, Running, Holds
  <1>6. ASSUME NEW j \in Jobs, NEW n \in Ids, JobRemind(j, n)
        PROVE  IdleHoldNothing' /\ LocksExclude'
    <2>1. /\ \A k \in Jobs \ {j} : job'[k] = job[k]
          /\ job'[j].pc = "running" /\ job'[j].expired = job[j].expired
          /\ job'[j].stamped = job[j].stamped \cup {n}
      BY <1>6, RemindStep
    <2>2. \A k \in Jobs : ~Holds(k, n)
      BY <1>6 DEF JobRemind, Locked
    <2>3. QED
      BY <1>2, <2>1, <2>2 DEF IdleHoldNothing, LocksExclude, Running, Holds
  <1>7. QED BY <1>3, <1>4, <1>5, <1>6, WhatRuns

-----------------------------------------------------------------------------
(* Reports *)

LEMMA OptOutsStay ==
    ASSUME [Next]_vars
    PROVE  optOuts \subseteq optOuts'
  BY DEF Next, vars, SignUp, TimePasses, RequestStep, CountInvites, CreateInvite,
         SendInvite, RequestCrash, Invite, Answer, Accept, Decline, ReportReads,
         ReportFiles, JobStep, JobWork, JobStart, JobRemind, JobCommit, JobCrash

\* A report reads the address with the invite and blocks the address it read.
LEMMA ReportsStep ==
    ASSUME IInv, [Next]_vars
    PROVE  ComplaintsHold' /\ ReportBlocks'
  <1> USE DEF IInv
  <1>1. RowsStand
    BY RowsGrow
  <1>2. Ids \subseteq 1..MaxInvites /\ Len(invites) \in Nat
    BY IdsAre, LimitsAssumption
  <1>3. optOuts \subseteq optOuts'
    BY OptOutsStay
  <1>4. CASE complaint' = complaint
    <2>1. \A i \in 1..MaxInvites : complaint[i].pc # "none" => i \in Ids
      BY DEF ComplaintsHold
    <2>2. ComplaintsHold'
      <3>1. ASSUME NEW i \in 1..MaxInvites
            PROVE  /\ complaint'[i].pc # "none" => i \in Ids'
                   /\ complaint'[i].held => /\ complaint'[i].pc # "none"
                                            /\ complaint'[i].email = invites'[i].to
        BY <1>1, <1>4, <2>1 DEF ComplaintsHold, RowsStand
      <3>2. QED BY <3>1 DEF ComplaintsHold
    <2>3. ReportBlocks'
      <3>1. ASSUME NEW i \in Ids', complaint'[i].pc = "filed", complaint'[i].held
            PROVE  invites'[i].to \in optOuts'
        <4>1. i \in 1..MaxInvites
          BY IdsNext
        <4>2. i \in Ids /\ complaint[i].pc = "filed" /\ complaint[i].held
          BY <1>4, <2>1, <3>1, <4>1
        <4>3. QED BY <1>1, <1>3, <4>2 DEF ReportBlocks, RowsStand
      <3>2. QED BY <3>1 DEF ReportBlocks
    <2>4. QED BY <2>2, <2>3
  <1>5. ASSUME NEW i \in Ids, ReportReads(i)
        PROVE  ComplaintsHold' /\ ReportBlocks'
    <2>1. /\ invites' = invites /\ optOuts' = optOuts
          /\ complaint' = [complaint EXCEPT ![i] = [pc |-> "read",
                email |-> invites[i].email, held |-> invites[i].email # ""]]
      BY <1>5 DEF ReportReads
    <2>2. /\ complaint'[i].pc = "read" /\ complaint'[i].email = invites[i].email
          /\ complaint'[i].held = (invites[i].email # "")
          /\ \A k \in 1..MaxInvites : k # i => complaint'[k] = complaint[k]
      BY <1>2, <2>1 DEF TypeOK
    <2>3. complaint'[i].held => complaint'[i].email = invites[i].to
      BY <2>2 DEF Addresses
    <2>4. Ids' = Ids
      BY <2>1 DEF Ids
    <2>5. ComplaintsHold'
      BY <2>1, <2>2, <2>3, <2>4 DEF ComplaintsHold
    <2>6. ReportBlocks'
      BY <1>2, <2>1, <2>2, <2>4 DEF ReportBlocks
    <2>7. QED BY <2>5, <2>6
  <1>6. ASSUME NEW i \in Ids, ReportFiles(i)
        PROVE  ComplaintsHold' /\ ReportBlocks'
    <2>1. /\ complaint[i].pc = "read"
          /\ optOuts' = optOuts \cup ({complaint[i].email} \ {""})
          /\ complaint' = [complaint EXCEPT ![i].pc = "filed"]
      BY <1>6 DEF ReportFiles, AddressRead
    <2>2. /\ complaint'[i].pc = "filed" /\ complaint'[i].email = complaint[i].email
          /\ complaint'[i].held = complaint[i].held
          /\ \A k \in 1..MaxInvites : k # i => complaint'[k] = complaint[k]
      BY <1>2, <2>1 DEF TypeOK
    <2>3. Ids' = Ids
      <3>1. CASE invites' = invites
        BY <3>1 DEF Ids
      <3>2. CASE invites' = Close(i, "declined")
        BY <3>2, CloseStep DEF Answers
      <3>3. QED BY <1>6, <3>1, <3>2 DEF ReportFiles
    <2>4. \A k \in Ids : invites'[k].to = invites[k].to
      BY <1>1 DEF RowsStand
    <2>5. complaint[i].held => complaint[i].email = invites[i].to /\ invites[i].to # ""
      BY <1>2, IdsAre, RowFields, EmailsAssumption DEF ComplaintsHold
    <2>6. ComplaintsHold'
      BY <1>2, <2>1, <2>2, <2>3, <2>4 DEF ComplaintsHold
    <2>7. ReportBlocks'
      BY <1>2, <1>3, <2>1, <2>2, <2>3, <2>4, <2>5 DEF ReportBlocks
    <2>8. QED BY <2>6, <2>7
  <1>7. ASSUME ~\E i \in Ids : ReportReads(i) \/ ReportFiles(i)
        PROVE  complaint' = complaint
    BY <1>7 DEF Next, vars, SignUp, TimePasses, RequestStep, CountInvites, CreateInvite,
           SendInvite, RequestCrash, Invite, Answer, Accept, Decline,
           JobStep, JobWork, JobStart, JobRemind, JobCommit, JobCrash
  <1>8. QED BY <1>4, <1>5, <1>6, <1>7

-----------------------------------------------------------------------------
(* Requests, and types *)

RequestStates == [pc : {"idle"}] \cup [pc : {"allowed", "counted"}, email : Emails]
                    \cup [pc : {"saved"}, id : 1..MaxInvites]

LEMMA RequestType ==
    ASSUME TypeOK, NEW r \in Requests, NEW s \in RequestStates,
           request' = [request EXCEPT ![r] = s]
    PROVE  /\ request' \in [Requests -> RequestStates]
           /\ request'[r] = s
           /\ \A q \in Requests \ {r} : request'[q] = request[q]
  BY DEF TypeOK, RequestStates

\* What becomes of a request: it gets one step further, or it is over.
Forward(r) ==
    \/ request'[r] = Idle
    \/ /\ request'[r].pc = "allowed" /\ request[r].pc = "idle"
       /\ MayBeInvited(request'[r].email)
    \/ /\ request'[r].pc = "counted" /\ request[r].pc = "allowed"
       /\ request'[r].email = request[r].email
       /\ QuotaLeft(MaxPerDay, 0) /\ QuotaLeft(MaxPerWeek, 1)
    \/ request'[r].pc = "saved" /\ Made(r) /\ request'[r].id = Len(invites) + 1

LEMMA ForwardStep ==
    ASSUME TypeOK, NEW r \in Requests, RequestStep(r)
    PROVE  /\ request' \in [Requests -> RequestStates]
           /\ \A q \in Requests \ {r} : request'[q] = request[q]
           /\ Forward(r)
  <1>1. Idle \in RequestStates
    BY DEF Idle, RequestStates
  <1>2. CASE request' = [request EXCEPT ![r] = Idle]
    BY <1>1, <1>2, RequestType DEF Forward
  <1>3. ASSUME NEW e \in Emails, Invite(r, e)
        PROVE  /\ request' \in [Requests -> RequestStates]
               /\ \A q \in Requests \ {r} : request'[q] = request[q]
               /\ Forward(r)
    <2> DEFINE s == [pc |-> "allowed", email |-> e]
    <2>1. s \in RequestStates /\ s.pc = "allowed" /\ s.email = e
      BY DEF RequestStates
    <2>2. request' = [request EXCEPT ![r] = s] /\ MayBeInvited(e) /\ request[r].pc = "idle"
      BY <1>3 DEF Invite
    <2> HIDE DEF s
    <2>3. QED BY <2>1, <2>2, RequestType DEF Forward
  <1>4. CASE CountInvites(r)
    <2> DEFINE s == [pc |-> "counted", email |-> request[r].email]
    <2>1. request[r].pc = "allowed" /\ request[r].email \in Emails
      BY <1>4, RequestFields DEF CountInvites
    <2>2. s \in RequestStates /\ s.pc = "counted" /\ s.email = request[r].email
      BY <2>1 DEF RequestStates
    <2>3. \/ request' = [request EXCEPT ![r] = Idle]
          \/ request' = [request EXCEPT ![r] = s]
             /\ QuotaLeft(MaxPerDay, 0) /\ QuotaLeft(MaxPerWeek, 1)
      BY <1>4 DEF CountInvites
    <2> HIDE DEF s
    <2>4. QED BY <1>2, <2>1, <2>2, <2>3, RequestType DEF Forward
  <1>5. CASE CreateInvite(r) /\ Made(r)
    <2> DEFINE s == [pc |-> "saved", id |-> Len(invites) + 1]
    <2>1. Len(invites) + 1 \in 1..MaxInvites
      BY <1>5, IdsAre, LimitsAssumption DEF Made
    <2>2. s \in RequestStates /\ s.pc = "saved" /\ s.id = Len(invites) + 1
      BY <2>1 DEF RequestStates
    <2>3. request' = [request EXCEPT ![r] = s]
      BY <1>5 DEF Made
    <2> HIDE DEF s
    <2>4. QED BY <1>5, <2>2, <2>3, RequestType DEF Forward
  <1>6. CreateInvite(r) => Made(r) \/ request' = [request EXCEPT ![r] = Idle]
    BY RequestFields DEF CreateInvite, Made, NewRow
  <1>7. QED
    BY <1>2, <1>3, <1>4, <1>5, <1>6 DEF RequestStep, SendInvite, RequestCrash

LEMMA WhoAsks ==
    ASSUME [Next]_vars
    PROVE  request' = request \/ \E r \in Requests : RequestStep(r)
  BY DEF Next, vars, SignUp, TimePasses, Answer, Accept, Decline, ReportReads,
         ReportFiles, JobStep, JobWork, JobStart, JobRemind, JobCommit, JobCrash

LEMMA SavedStep ==
    ASSUME IInv, [Next]_vars
    PROVE  SavedExist'
  <1> USE DEF IInv
  <1>1. Ids \subseteq Ids'
    BY RowsGrow DEF RowsStand
  <1>2. CASE request' = request
    BY <1>1, <1>2 DEF SavedExist
  <1>3. ASSUME NEW r \in Requests, RequestStep(r)
        PROVE  SavedExist'
    <2>1. /\ \A q \in Requests \ {r} : request'[q] = request[q]
          /\ Forward(r)
      BY <1>3, ForwardStep
    <2>2. request'[r].pc = "saved" => Made(r) /\ request'[r].id = Len(invites) + 1
      BY <2>1 DEF Forward, Idle
    <2>3. Made(r) => Len(invites) + 1 \in Ids'
      BY CreateStep DEF Made
    <2>4. QED BY <1>1, <2>1, <2>2, <2>3 DEF SavedExist
  <1>4. QED BY <1>2, <1>3, WhoAsks

\* The types of what is neither a row, nor a request, nor a run.
RestOK ==
    /\ accounts \subseteq Emails /\ optOuts \subseteq Emails
    /\ verified \in [Emails -> Nat]
    /\ complaint \in [1..MaxInvites ->
           [pc : {"none", "read", "filed"}, email : Emails \cup {""}, held : BOOLEAN]]
    /\ invited \subseteq 1..MaxInvites
    /\ reminders \in [Emails -> Nat]
    /\ overlaps \in 0..MaxOverlaps
    /\ aborts \in Nat

LEMMA Bounded ==
    ASSUME NEW m \in Nat, NEW n \in 0..m, n < m
    PROVE  n + 1 \in 0..m
  OBVIOUS

LEMMA RestStep ==
    ASSUME IInv, [Next]_vars
    PROVE  RestOK'
  <1> USE DEF IInv
  <1>0. Ids \subseteq 1..MaxInvites
    BY IdsAre, LimitsAssumption
  <1>1. RestOK
    BY <1>0 DEF TypeOK, RestOK
  <1>2. \A i \in Ids : /\ i \in 1..MaxInvites
                       /\ invites[i].email \in Emails \cup {""}
                       /\ invites[i].to \in Emails
    BY <1>0, IdsAre, RowFields
  <1>3. ASSUME aborts' = aborts + 1
        PROVE  aborts' \in Nat
    <2>1. aborts \in Nat
      BY DEF TypeOK
    <2>2. QED BY <1>3, <2>1
  <1>4. CASE UNCHANGED <<accounts, optOuts, verified, complaint, mail, overlaps, aborts>>
    BY <1>1, <1>4 DEF RestOK, mail
  <1>5. ASSUME NEW e \in Emails, SignUp(e)
        PROVE  RestOK'
    BY <1>1, <1>5 DEF RestOK, SignUp, mail
  <1>6. ASSUME NEW r \in Requests, RequestStep(r)
        PROVE  RestOK'
    <2>1. CASE SendInvite(r)
      BY <1>1, <2>1, RequestFields DEF RestOK, SendInvite
    <2>2. CASE RequestCrash(r)
      BY <1>1, <1>3, <2>2 DEF RestOK, RequestCrash, mail
    <2>3. CASE CreateInvite(r)
      BY <1>4, <2>3 DEF CreateInvite
    <2>4. QED
      BY <1>4, <1>6, <2>1, <2>2, <2>3 DEF RequestStep, Invite, CountInvites
  <1>7. ASSUME NEW i \in Ids, TimePasses(i) \/ Answer(i)
        PROVE  RestOK'
    <2>1. CASE Accept(i)
      <3> DEFINE e == invites[i].to
      <3>1. e \in Emails /\ verified \in [Emails -> Nat]
        BY <1>2 DEF TypeOK
      <3>2. verified' = [verified EXCEPT ![e] = @ + 1]
        BY <2>1 DEF Accept
      <3> HIDE DEF e
      <3>3. verified' \in [Emails -> Nat]
        BY <3>1, <3>2
      <3>4. UNCHANGED <<accounts, optOuts, complaint, mail, overlaps, aborts>>
        BY <2>1 DEF Accept
      <3>5. QED BY <1>1, <3>3, <3>4 DEF RestOK, mail
    <2>2. ASSUME NEW b \in BOOLEAN, Decline(i, b)
          PROVE  RestOK'
      BY <1>1, <1>2, <2>2 DEF RestOK, Decline, mail
    <2>3. CASE ReportReads(i)
      <3>1. complaint' = [complaint EXCEPT ![i] = [pc |-> "read",
                email |-> invites[i].email, held |-> invites[i].email # ""]]
        BY <2>3 DEF ReportReads
      <3>2. UNCHANGED <<accounts, optOuts, verified, mail, overlaps, aborts>>
        BY <2>3 DEF ReportReads
      <3>3. QED BY <1>1, <1>2, <3>1, <3>2 DEF RestOK, mail
    <2>4. CASE ReportFiles(i)
      <3>1. /\ complaint' = [complaint EXCEPT ![i].pc = "filed"]
            /\ optOuts' = optOuts \cup ({complaint[i].email} \ {""})
        BY <2>4 DEF ReportFiles, AddressRead
      <3>2. UNCHANGED <<accounts, verified, mail, overlaps, aborts>>
        BY <2>4 DEF ReportFiles
      <3>3. QED BY <1>1, <1>2, <3>1, <3>2 DEF RestOK, mail
    <2>5. QED BY <1>4, <1>7, <2>1, <2>2, <2>3, <2>4 DEF Answer, TimePasses
  <1>8. ASSUME NEW j \in Jobs, JobStep(j)
        PROVE  RestOK'
    <2>1. CASE JobStart(j)
      <3>1. overlaps' = overlaps \/ (overlaps < MaxOverlaps /\ overlaps' = overlaps + 1)
        BY <2>1 DEF JobStart
      <3>2. overlaps' \in 0..MaxOverlaps
        <4>1. overlaps \in 0..MaxOverlaps /\ MaxOverlaps \in Nat
          BY LimitsAssumption DEF TypeOK
        <4>2. QED BY <3>1, <4>1, Bounded
      <3>3. QED BY <1>1, <2>1, <3>2 DEF RestOK, JobStart, mail
    <2>2. ASSUME NEW i \in Ids, JobRemind(j, i)
          PROVE  RestOK'
      <3> DEFINE e == invites[i].to
      <3>1. reminders' = [reminders EXCEPT ![e] = @ + 1] /\ e \in Emails
        BY <1>2, <2>2 DEF JobRemind
      <3>2. invited' = invited \cup {i} /\ i \in 1..MaxInvites
        BY <1>2, <2>2 DEF JobRemind
      <3> HIDE DEF e
      <3>3. reminders' \in [Emails -> Nat]
        <4>1. reminders \in [Emails -> Nat]
          BY DEF TypeOK
        <4>2. reminders[e] + 1 \in Nat
          BY <3>1, <4>1
        <4>3. QED BY <3>1, <4>1, <4>2
      <3>4. QED BY <1>1, <2>2, <3>2, <3>3 DEF RestOK, JobRemind
    <2>3. CASE JobCommit(j)
      BY <1>4, <2>3 DEF JobCommit
    <2>4. CASE JobCrash(j)
      BY <1>1, <1>3, <2>4 DEF RestOK, JobCrash, mail
    <2>5. QED BY <1>8, <2>1, <2>2, <2>3, <2>4 DEF JobStep, JobWork
  <1>9. CASE UNCHANGED vars
    BY <1>4, <1>9 DEF vars, mail
  <1>10. QED BY <1>5, <1>6, <1>7, <1>8, <1>9 DEF Next

\* The steps that send an email.
LEMMA WhoMails ==
    ASSUME [Next]_vars
    PROVE  /\ \/ invited' = invited
              \/ \E r \in Requests : SendInvite(r)
              \/ \E j \in Jobs, i \in Ids : JobRemind(j, i)
           /\ reminders' = reminders \/ \E j \in Jobs, i \in Ids : JobRemind(j, i)
  BY DEF Next, vars, mail, SignUp, TimePasses, RequestStep, CountInvites, CreateInvite,
         RequestCrash, Invite, Answer, Accept, Decline, ReportReads, ReportFiles, SendInvite,
         JobStep, JobWork, JobStart, JobRemind, JobCommit, JobCrash

LEMMA TypeStep ==
    ASSUME IInv, [Next]_vars
    PROVE  TypeOK'
  <1> USE DEF IInv
  <1>1. Ids \subseteq Ids' /\ invites' \in Seq(InviteRows)
    BY RowsGrow DEF RowsStand
  <1>2. job' \in [Jobs -> JobStates']
    <2>1. JobStates \subseteq JobStates'
      BY <1>1 DEF JobStates
    <2>2. QED BY <2>1, JobsType
  <1>3. request' \in [Requests -> RequestStates]
    <2>1. request \in [Requests -> RequestStates]
      BY DEF TypeOK, RequestStates
    <2>2. QED BY <2>1, WhoAsks, ForwardStep
  <1>4. invited' \subseteq Ids'
    <2>1. CASE invited' = invited
      BY <1>1, <2>1 DEF TypeOK
    <2>2. ASSUME NEW r \in Requests, SendInvite(r)
          PROVE  invited' \subseteq Ids'
      BY <1>1, <2>2 DEF SendInvite, SavedExist, TypeOK
    <2>3. ASSUME NEW j \in Jobs, NEW i \in Ids, JobRemind(j, i)
          PROVE  invited' \subseteq Ids'
      BY <1>1, <2>3 DEF JobRemind, TypeOK
    <2>4. QED BY <2>1, <2>2, <2>3, WhoMails
  <1>5. QED BY <1>1, <1>2, <1>3, <1>4, RestStep DEF TypeOK, RestOK, RequestStates

-----------------------------------------------------------------------------
(* The invariant *)

LEMMA InitIInv == Init => IInv
  <1> SUFFICES ASSUME Init PROVE IInv
    OBVIOUS
  <1>1. invites = <<>> /\ Len(invites) = 0 /\ Ids = {}
    BY DEF Init, Ids
  <1>2. TypeOK
    <2>1. invites \in Seq(InviteRows)
      BY <1>1
    <2>2. job \in [Jobs -> JobStates]
      BY DEF Init, JobIdle, JobStates
    <2>3. request \in [Requests -> RequestStates]
      BY DEF Init, Idle, RequestStates
    <2>4. complaint \in [1..MaxInvites ->
              [pc : {"none", "read", "filed"}, email : Emails \cup {""}, held : BOOLEAN]]
      BY DEF Init, NoComplaint
    <2>5. /\ accounts \subseteq Emails /\ optOuts \subseteq Emails
          /\ verified \in [Emails -> Nat]
          /\ invited \subseteq Ids
          /\ reminders \in [Emails -> Nat]
      BY DEF Init
    <2>6. overlaps \in 0..MaxOverlaps /\ aborts \in Nat
      BY LimitsAssumption DEF Init
    <2>7. QED
      BY <2>1, <2>2, <2>3, <2>4, <2>5, <2>6 DEF TypeOK, RequestStates
  <1>3. Addresses /\ LocksExclude /\ ReportBlocks
    BY <1>1 DEF Addresses, LocksExclude, ReportBlocks
  <1>4. SavedExist /\ IdleHoldNothing /\ NextIsListed /\ ExpiringAreUnanswered /\ ComplaintsHold
    BY DEF Init, SavedExist, IdleHoldNothing, ExpiringAreUnanswered, ComplaintsHold,
           NextIsListed, First, Idle, JobIdle, NoComplaint
  <1>5. QED BY <1>1, <1>2, <1>3, <1>4, LimitsAssumption DEF IInv

LEMMA IInvStep == IInv /\ [Next]_vars => IInv'
  BY TypeStep, RowsGrow, SavedStep, RunsStep, NextStep, ExpiringStep, ReportsStep DEF IInv

LEMMA SpecIInv == Spec => []IInv
  <1>1. QED BY InitIInv, IInvStep, PTL DEF Spec

\* Type correctness of TeamInvites, for any constants.
THEOREM InvitesTypeCorrect == Spec => []TypeOK
  <1>1. IInv => TypeOK
    BY DEF IInv
  <1>2. QED BY <1>1, SpecIInv, PTL

\* An answer stands and the address goes with it: accepting, declining and
\* reporting wait for the row's lock and look at it again, and what a run of the
\* job expires had no answer when it locked it, however long ago that was.
THEOREM AnswersStand == Spec => AnswerIsFinal
  <1>1. IInv /\ [Next]_vars =>
           [\A i \in Ids : ~Unanswered(i) =>
               invites'[i].answer = invites[i].answer /\ invites'[i].email = ""]_vars
    BY RowsGrow DEF RowsStand
  <1>2. QED BY <1>1, SpecIInv, PTL DEF Spec, AnswerIsFinal

\* "A report that recorded the complaint but lost the block would be the worst of
\* the three outcomes": the report blocks the address it read before the row was
\* closed, by itself or by anybody else.
THEOREM ReportsBlock == Spec => []ReportBlocks
  <1>1. IInv => ReportBlocks
    BY DEF IInv
  <1>2. QED BY <1>1, SpecIInv, PTL

-----------------------------------------------------------------------------
(* Opting out *)

\* What Settled keeps out comes back by no step: a new request is refused, and an
\* old row is neither open nor listed.
LEMMA SettledStep ==
    ASSUME IInv, [Next]_vars, NEW e \in Emails, Settled(e)
    PROVE  /\ Settled(e)'
           /\ reminders'[e] = reminders[e]
           /\ \A i \in Ids' : invites'[i].to = e =>
                 i \in Ids /\ (i \in invited' => i \in invited)
  <1> USE DEF IInv
  <1>1. RowsStand
    BY RowsGrow
  <1>2. /\ e \in optOuts
        /\ \A r \in Requests : ~IsFor(r, e)
        /\ \A i \in Ids : invites[i].to = e =>
              ~Unanswered(i) /\ \A j \in Jobs : i \notin job[j].list
    BY DEF Settled
  <1>3. ASSUME NEW i \in Ids', invites'[i].to = e
        PROVE  i \in Ids /\ invites[i].to = e
    <2>1. ASSUME NEW r \in Requests, Made(r), i \notin Ids
          PROVE  FALSE
      <3>1. /\ request[r].pc = "counted" /\ request[r].email \in Emails
            /\ invites' = Append(invites, NewRow(request[r].email))
        BY <2>1 DEF Made
      <3>2. i = Len(invites) + 1 /\ invites'[i] = NewRow(request[r].email)
        BY <2>1, <3>1, CreateStep
      <3>3. request[r].email = e
        BY <1>3, <3>2 DEF NewRow
      <3>4. QED BY <1>2, <3>1, <3>3 DEF IsFor
    <2>2. ASSUME i \notin Ids
          PROVE  \E r \in Requests : Made(r)
      <3>1. CASE invites' = invites
        BY <2>2, <3>1 DEF Ids
      <3>2. ASSUME NEW k \in Ids, TimePasses(k)
            PROVE  FALSE
        BY <2>2, <3>2, AgeStep
      <3>3. ASSUME NEW k \in Ids, Answered(k)
            PROVE  FALSE
        <4>1. PICK a \in {"accepted", "declined"} : invites' = Close(k, a)
          BY <3>3 DEF Answered
        <4>2. QED BY <2>2, <4>1, CloseStep DEF Answers
      <3>4. ASSUME NEW j \in Jobs, JobCommit(j)
            PROVE  FALSE
        BY <2>2, <3>4, CommitStep
      <3>5. QED BY <3>1, <3>2, <3>3, <3>4, WhatMoves
    <2>3. QED BY <1>1, <1>3, <2>1, <2>2 DEF RowsStand
  <1>4. ASSUME NEW j \in Jobs, NEW k \in Ids, JobRemind(j, k)
        PROVE  invites[k].to # e /\ invites[k].to \in Emails
    <2>1. k \in job[j].list
      BY <1>4, RemindsListed
    <2>2. QED BY <1>2, <2>1, IdsAre, RowFields
  <1>4a. ASSUME NEW i \in Ids', invites'[i].to = e, i \in invited'
         PROVE  i \in invited
    <2>1. i \in Ids /\ invites[i].to = e
      BY <1>3, <1>4a
    <2>2. ASSUME NEW r \in Requests, SendInvite(r)
          PROVE  i \in invited
      <3>1. request[r].pc = "saved" /\ invited' = invited \cup {request[r].id}
        BY <2>2 DEF SendInvite
      <3>2. QED BY <1>2, <1>4a, <2>1, <3>1 DEF IsFor
    <2>3. ASSUME NEW j \in Jobs, NEW k \in Ids, JobRemind(j, k)
          PROVE  i \in invited
      <3>1. invited' = invited \cup {k}
        BY <2>3 DEF JobRemind
      <3>2. QED BY <1>4, <1>4a, <2>1, <2>3, <3>1
    <2>4. QED BY <1>4a, <2>2, <2>3, WhoMails
  <1>4b. reminders'[e] = reminders[e]
    <2>1. ASSUME NEW j \in Jobs, NEW k \in Ids, JobRemind(j, k)
          PROVE  reminders'[e] = reminders[e]
      <3> DEFINE other == invites[k].to
      <3>1. reminders' = [reminders EXCEPT ![other] = @ + 1]
        BY <2>1 DEF JobRemind
      <3>2. other # e /\ reminders \in [Emails -> Nat]
        BY <1>4, <2>1 DEF TypeOK
      <3> HIDE DEF other
      <3>3. QED BY <3>1, <3>2
    <2>2. QED BY <2>1, WhoMails
  <1>5. ASSUME NEW i \in Ids', invites'[i].to = e
        PROVE  ~Unanswered(i)' /\ \A j \in Jobs : i \notin job'[j].list
    <2>1. i \in Ids /\ ~Unanswered(i) /\ \A j \in Jobs : i \notin job[j].list
      BY <1>2, <1>3, <1>5
    <2>2. ~Unanswered(i)'
      BY <1>1, <2>1 DEF RowsStand, Unanswered
    <2>3. i \notin Due
      BY <2>1 DEF Due, IsOpen
    <2>4. ASSUME NEW j \in Jobs
          PROVE  i \notin job'[j].list
      BY <2>1, <2>3, WhatRuns, StartStep, RemindStep, EndStep
    <2>5. QED BY <2>2, <2>4
  <1>6. ASSUME NEW r \in Requests
        PROVE  ~IsFor(r, e)'
    <2>1. CASE request'[r] = request[r]
      <3>1. request[r].pc = "saved" => invites'[request[r].id].to # e
        BY <1>1, <1>2 DEF SavedExist, RowsStand, IsFor
      <3>2. QED BY <1>2, <2>1, <3>1 DEF IsFor
    <2>2. CASE Forward(r)
      <3>1. CASE request'[r] = Idle
        BY <3>1 DEF IsFor, Idle
      <3>2. CASE request'[r].pc = "allowed" /\ MayBeInvited(request'[r].email)
        BY <1>2, <3>2 DEF IsFor, MayBeInvited
      <3>3. CASE /\ request'[r].pc = "counted" /\ request[r].pc = "allowed"
                 /\ request'[r].email = request[r].email
        BY <1>2, <3>3 DEF IsFor
      <3>4. CASE request'[r].pc = "saved" /\ Made(r) /\ request'[r].id = Len(invites) + 1
        <4>1. Len(invites) + 1 \in Ids' /\ Len(invites) + 1 \notin Ids
          BY <3>4, CreateStep DEF Made
        <4>2. invites'[Len(invites) + 1].to # e
          BY <1>3, <4>1
        <4>3. QED BY <3>4, <4>2 DEF IsFor
      <3>5. QED BY <2>2, <3>1, <3>2, <3>3, <3>4 DEF Forward
    <2>3. QED BY <2>1, <2>2, WhoAsks, ForwardStep
  <1>7. Settled(e)'
    BY <1>2, <1>5, <1>6, OptOutsStay DEF Settled
  <1>8. QED BY <1>3, <1>4a, <1>4b, <1>7

\* An opt-out is final: once what was already in flight for the address is over,
\* no request, list or stale row reaches it again.
THEOREM OptOutsAreFinal == Spec => OptOutIsFinal
  <1>1. IInv /\ [Next]_vars =>
           [\A e \in Emails : Settled(e) =>
               /\ Settled(e)'
               /\ reminders'[e] = reminders[e]
               /\ \A i \in Ids' : invites'[i].to = e =>
                     i \in Ids /\ (i \in invited' => i \in invited)]_vars
    BY SettledStep
  <1>2. QED BY <1>1, SpecIInv, PTL DEF Spec, OptOutIsFinal

-----------------------------------------------------------------------------
(* How many reminders one address gets *)

LEMMA IdsFinite ==
    ASSUME TypeOK, NEW S \in SUBSET Ids
    PROVE  IsFiniteSet(S) /\ Cardinality(S) \in Nat
  <1>1. Ids = 1..Len(invites) /\ Len(invites) \in Int
    BY IdsAre
  <1>2. IsFiniteSet(Ids)
    BY <1>1, FS_Interval
  <1>3. QED BY <1>2, FS_Subset, FS_CardinalityType

\* uniq_open_team_invite: an address has one unanswered invite, so a run of the
\* job has one invite of each address, to remind or reminded.
Rows(j) == job[j].list \cup job[j].stamped
OneUnanswered ==
    \A i, k \in Ids :
        Unanswered(i) /\ Unanswered(k) /\ invites[i].to = invites[k].to => i = k
OnePerAddress ==
    \A j \in Jobs : \A i, k \in Rows(j) : invites[i].to = invites[k].to => i = k

\* The runs that will remind an address, its invites marked as reminded, and
\* whether a run is about to mark one more.
ToRemind(e) == {j \in Jobs : \E i \in job[j].list : invites[i].to = e}
Reminded(e) == {i \in InvitesTo(e) : invites[i].reminded}
WillMark(j, e) == \E i \in Rows(j) : invites[i].to = e /\ ~invites[i].reminded
Marking(e) == \E j \in Jobs : WillMark(j, e)
Mark(e) == IF Marking(e) THEN 1 ELSE 0

\* Each reminder is that of an invite marked or being marked, or else of a run
\* that aborted or that overlapped another.
RemindersInReach ==
    \A e \in Emails :
        reminders[e] + Cardinality(ToRemind(e))
            <= Cardinality(Reminded(e)) + Mark(e) + aborts + overlaps

RInv == IInv /\ OneUnanswered /\ OnePerAddress /\ RemindersInReach

LEMMA Counters ==
    ASSUME IInv
    PROVE  /\ aborts \in Nat /\ overlaps \in Nat
           /\ \A e \in Emails : reminders[e] \in Nat
  <1>1. /\ aborts \in Nat /\ overlaps \in 0..MaxOverlaps
        /\ reminders \in [Emails -> Nat]
    BY DEF IInv, TypeOK
  <1>2. QED BY <1>1, LimitsAssumption

LEMMA Runs ==
    ASSUME NEW S \in SUBSET Jobs
    PROVE  IsFiniteSet(S) /\ Cardinality(S) \in Nat
  BY FS_Subset, FS_CardinalityType, WorkersAssumption

\* The sets counted are finite, before a step and after it.
LEMMA FiniteCounts ==
    ASSUME TypeOK, NEW e \in Emails
    PROVE  /\ IsFiniteSet(ToRemind(e)) /\ Cardinality(ToRemind(e)) \in Nat
           /\ IsFiniteSet(Reminded(e)) /\ Cardinality(Reminded(e)) \in Nat
           /\ IsFiniteSet(InvitesTo(e)) /\ Cardinality(InvitesTo(e)) \in Nat
           /\ Mark(e) \in {0, 1}
  <1>1. ToRemind(e) \in SUBSET Jobs
    BY DEF ToRemind
  <1>2. InvitesTo(e) \in SUBSET Ids /\ Reminded(e) \in SUBSET Ids
    BY DEF InvitesTo, Reminded
  <1>3. Mark(e) \in {0, 1}
    BY DEF Mark
  <1>4. IsFiniteSet(ToRemind(e)) /\ Cardinality(ToRemind(e)) \in Nat
    BY <1>1, Runs
  <1>5. QED BY <1>2, <1>3, <1>4, IdsFinite

LEMMA FiniteCountsNext ==
    ASSUME TypeOK', NEW e \in Emails
    PROVE  /\ IsFiniteSet(ToRemind(e)') /\ Cardinality(ToRemind(e)') \in Nat
           /\ IsFiniteSet(Reminded(e)') /\ Cardinality(Reminded(e)') \in Nat
           /\ Mark(e)' \in {0, 1}
  <1>1. ToRemind(e)' \in SUBSET Jobs
    BY DEF ToRemind
  <1>2. Reminded(e)' \in SUBSET Ids'
    BY DEF InvitesTo, Reminded
  <1>3. IsFiniteSet(Ids')
    <2>1. invites' \in Seq(InviteRows)
      BY DEF TypeOK
    <2>2. Len(invites') \in Nat /\ DOMAIN (invites') = 1..Len(invites')
      BY <2>1, LenProperties
    <2>3. IsFiniteSet(1..Len(invites'))
      BY <2>2, FS_Interval
    <2>4. QED BY <2>2, <2>3 DEF Ids
  <1>4. IsFiniteSet(ToRemind(e)') /\ Cardinality(ToRemind(e)') \in Nat
    BY <1>1, Runs
  <1>5. IsFiniteSet(Reminded(e)') /\ Cardinality(Reminded(e)') \in Nat
    BY <1>2, <1>3, FS_Subset, FS_CardinalityType
  <1>6. Mark(e)' \in {0, 1}
    BY DEF Mark
  <1>7. QED BY <1>4, <1>5, <1>6

LEMMA RunRows ==
    ASSUME TypeOK
    PROVE  \A j \in Jobs : Rows(j) \subseteq Ids
  BY JobFields DEF Rows

LEMMA InitRInv == Init => RInv
  <1> SUFFICES ASSUME Init PROVE RInv
    OBVIOUS
  <1>1. IInv
    BY InitIInv
  <1>2. Ids = {} /\ \A j \in Jobs : job[j].list = {} /\ job[j].stamped = {}
    BY DEF Init, Ids, JobIdle
  <1>3. OneUnanswered /\ OnePerAddress
    BY <1>2 DEF OneUnanswered, OnePerAddress, Rows
  <1>4. ASSUME NEW e \in Emails
        PROVE  /\ reminders[e] = 0 /\ aborts = 0 /\ overlaps = 0
               /\ Cardinality(ToRemind(e)) = 0 /\ Cardinality(Reminded(e)) = 0
    <2>1. ToRemind(e) = {} /\ Reminded(e) = {}
      BY <1>2 DEF ToRemind, Reminded, InvitesTo
    <2>2. QED BY <2>1, FS_EmptySet DEF Init
  <1>5. ASSUME NEW e \in Emails
        PROVE  reminders[e] + Cardinality(ToRemind(e))
                   <= Cardinality(Reminded(e)) + Mark(e) + aborts + overlaps
    <2>1. Mark(e) \in {0, 1}
      BY <1>1, FiniteCounts DEF IInv
    <2>2. QED BY <1>4, <2>1
  <1>6. QED BY <1>1, <1>3, <1>5 DEF RInv, RemindersInReach

\* A row keeps its mark, and only a run that stamped it marks it.
LEMMA MarksStep ==
    ASSUME IInv, [Next]_vars
    PROVE  /\ \A i \in Ids : \/ invites'[i].reminded = invites[i].reminded
                             \/ /\ invites'[i].reminded
                                /\ \E j \in Jobs : JobCommit(j) /\ i \in job[j].stamped
           /\ \A i \in Ids' \ Ids : ~invites'[i].reminded
  <1> USE DEF IInv
  <1>1. ASSUME NEW j \in Jobs, JobCommit(j)
        PROVE  /\ Ids' = Ids
               /\ \A i \in Ids : \/ invites'[i].reminded = invites[i].reminded
                                 \/ invites'[i].reminded /\ i \in job[j].stamped
    <2>1. Ids' = Ids /\ invites' \in Seq(InviteRows)
      BY <1>1, CommitStep
    <2>2. \A i \in Ids : invites'[i].reminded <=> invites[i].reminded \/ i \in job[j].stamped
      BY <1>1, CommitStep
    <2>3. \A i \in Ids : invites[i].reminded \in BOOLEAN
      BY IdsAre, RowFields
    <2>4. \A i \in Ids : invites'[i].reminded \in BOOLEAN
      <3>1. \A i \in 1..Len(invites') : invites'[i] \in InviteRows
        BY <2>1, ElementOfSeq
      <3>2. DOMAIN invites' = 1..Len(invites')
        BY <2>1, LenProperties
      <3>3. \A i \in Ids : invites'[i] \in InviteRows
        BY <2>1, <3>1, <3>2 DEF Ids
      <3>4. QED BY <3>3, RowFields
    <2>5. QED BY <2>1, <2>2, <2>3, <2>4
  <1>2. ASSUME NEW k \in Ids, TimePasses(k)
        PROVE  Ids' = Ids /\ \A i \in Ids : invites'[i].reminded = invites[i].reminded
    BY <1>2, AgeStep
  <1>3. ASSUME NEW k \in Ids, Answered(k)
        PROVE  Ids' = Ids /\ \A i \in Ids : invites'[i].reminded = invites[i].reminded
    <2>1. PICK a \in {"accepted", "declined"} : invites' = Close(k, a)
      BY <1>3 DEF Answered
    <2>2. QED BY <2>1, CloseStep DEF Answers
  <1>4. ASSUME NEW r \in Requests, Made(r)
        PROVE  /\ \A i \in Ids : invites'[i].reminded = invites[i].reminded
               /\ \A i \in Ids' \ Ids : ~invites'[i].reminded
    <2> DEFINE e == request[r].email
    <2>1. e \in Emails /\ invites' = Append(invites, NewRow(e))
      BY <1>4 DEF Made
    <2> HIDE DEF e
    <2>2. /\ Ids' = Ids \cup {Len(invites) + 1}
          /\ invites'[Len(invites) + 1] = NewRow(e)
          /\ \A k \in Ids : invites'[k] = invites[k]
      BY <2>1, CreateStep
    <2>3. ~NewRow(e).reminded
      BY DEF NewRow
    <2>4. QED BY <2>2, <2>3
  <1>5. CASE invites' = invites
    BY <1>5 DEF Ids
  <1>6. QED BY <1>1, <1>2, <1>3, <1>4, <1>5, WhatMoves

LEMMA CountersStep ==
    ASSUME IInv, [Next]_vars
    PROVE  /\ aborts' = aborts \/ aborts' = aborts + 1
           /\ overlaps' = overlaps \/ overlaps' = overlaps + 1
  BY DEF Next, vars, mail, SignUp, TimePasses, RequestStep, CountInvites, CreateInvite,
         RequestCrash, Invite, Answer, Accept, Decline, ReportReads, ReportFiles, SendInvite,
         JobStep, JobWork, JobStart, JobRemind, JobCommit, JobCrash

\* A row that was not there is the one a request made.
LEMMA NewRows ==
    ASSUME IInv, [Next]_vars, NEW n \in Ids', n \notin Ids
    PROVE  /\ n = Len(invites) + 1
           /\ \E r \in Requests : Made(r) /\ invites'[n].to = request[r].email
  <1> USE DEF IInv
  <1>1. ASSUME NEW r \in Requests, Made(r)
        PROVE  n = Len(invites) + 1 /\ invites'[n].to = request[r].email
    <2>1. /\ request[r].email \in Emails
          /\ invites' = Append(invites, NewRow(request[r].email))
      BY <1>1 DEF Made
    <2>2. QED BY <2>1, CreateStep DEF NewRow
  <1>2. ASSUME NEW k \in Ids, Answered(k)
        PROVE  FALSE
    <2>1. PICK a \in {"accepted", "declined"} : invites' = Close(k, a)
      BY <1>2 DEF Answered
    <2>2. QED BY <2>1, CloseStep DEF Answers
  <1>3. invites' # invites
    BY DEF Ids
  <1>4. QED BY <1>1, <1>2, <1>3, WhatMoves, AgeStep, CommitStep

\* The insert refuses a second unanswered invite, and no answer is taken back.
LEMMA OneUnansweredStep ==
    ASSUME RInv, [Next]_vars
    PROVE  OneUnanswered'
  <1> USE DEF RInv, IInv
  <1>1. RowsStand
    BY RowsGrow
  <1>2. ASSUME NEW i \in Ids, Unanswered(i)'
        PROVE  Unanswered(i) /\ invites'[i].to = invites[i].to
    BY <1>1, <1>2 DEF RowsStand, Unanswered
  <1>3. ASSUME NEW n \in Ids', n \notin Ids, NEW i \in Ids, Unanswered(i)
        PROVE  invites'[n].to # invites[i].to
    <2>1. PICK r \in Requests : Made(r) /\ invites'[n].to = request[r].email
      BY <1>3, NewRows
    <2>2. invites[i].email = invites[i].to
      BY <1>3 DEF Addresses
    <2>3. QED BY <1>3, <2>1, <2>2 DEF Made, HasUnanswered
  <1>4. ASSUME NEW i \in Ids', NEW k \in Ids', Unanswered(i)', Unanswered(k)',
               invites'[i].to = invites'[k].to
        PROVE  i = k
    <2>1. CASE i \in Ids /\ k \in Ids
      BY <1>2, <1>4, <2>1 DEF OneUnanswered
    <2>2. CASE i \in Ids /\ k \notin Ids
      BY <1>2, <1>3, <1>4, <2>2
    <2>3. CASE i \notin Ids /\ k \in Ids
      BY <1>2, <1>3, <1>4, <2>3
    <2>4. CASE i \notin Ids /\ k \notin Ids
      BY <2>4, NewRows
    <2>5. QED BY <2>1, <2>2, <2>3, <2>4
  <1>5. QED BY <1>4 DEF OneUnanswered

\* A run's rows are those it listed, which had no answer then.
LEMMA OnePerAddressStep ==
    ASSUME RInv, [Next]_vars
    PROVE  OnePerAddress'
  <1> USE DEF RInv, IInv
  <1>1. RowsStand
    BY RowsGrow
  <1>2. ASSUME NEW j \in Jobs, NEW i \in Rows(j)', NEW k \in Rows(j)',
               invites'[i].to = invites'[k].to, Rows(j)' \subseteq Rows(j)
        PROVE  i = k
    <2>1. i \in Rows(j) /\ k \in Rows(j) /\ i \in Ids /\ k \in Ids
      BY <1>2, RunRows
    <2>2. QED BY <1>1, <1>2, <2>1 DEF RowsStand, OnePerAddress
  <1>3. ASSUME NEW j \in Jobs, JobStart(j), NEW i \in Rows(j)', NEW k \in Rows(j)',
               invites'[i].to = invites'[k].to
        PROVE  i = k
    <2>1. invites' = invites /\ Rows(j)' = Due
      BY <1>3, StartStep DEF JobStart, Rows
    <2>2. Due \subseteq Ids /\ \A n \in Due : Unanswered(n)
      BY DEF Due, IsOpen
    <2>3. QED BY <1>3, <2>1, <2>2 DEF OneUnanswered
  <1>4. ASSUME NEW j \in Jobs, ~JobStart(j)
        PROVE  Rows(j)' \subseteq Rows(j)
    <2>1. CASE job'[j] = job[j]
      BY <2>1 DEF Rows
    <2>2. CASE JobCommit(j) \/ JobCrash(j)
      BY <2>2, EndStep DEF Rows
    <2>3. ASSUME NEW i \in Ids, JobRemind(j, i)
          PROVE  Rows(j)' \subseteq Rows(j)
      <3>1. /\ job'[j].stamped = job[j].stamped \cup {i}
            /\ job'[j].list = job[j].list \ {i}
        BY <2>3, RemindStep
      <3>2. i \in job[j].list
        BY <2>3, RemindsListed
      <3>3. QED BY <3>1, <3>2 DEF Rows
    <2>4. QED BY <1>4, <2>1, <2>2, <2>3, WhatRuns, StartStep, RemindStep, EndStep
  <1>5. QED BY <1>2, <1>3, <1>4 DEF OnePerAddress

-----------------------------------------------------------------------------
(* What a step does to the reminders of one address *)

Reach(e) ==
    reminders'[e] + Cardinality(ToRemind(e)')
        <= Cardinality(Reminded(e)') + Mark(e)' + aborts' + overlaps'

\* Marked invites stay marked.
LEMMA RemindedGrow ==
    ASSUME IInv, [Next]_vars, TypeOK', NEW e \in Emails
    PROVE  /\ Reminded(e) \subseteq Reminded(e)'
           /\ Cardinality(Reminded(e)) <= Cardinality(Reminded(e)')
  <1>1. Reminded(e) \subseteq Reminded(e)'
    BY RowsGrow, MarksStep DEF RowsStand, Reminded, InvitesTo
  <1>2. IsFiniteSet(Reminded(e)')
    BY FiniteCountsNext
  <1>3. QED BY <1>1, <1>2, FS_Subset

\* What a run is about to mark, it will mark, unless it has committed or crashed.
LEMMA WillMarkStep ==
    ASSUME RInv, [Next]_vars, NEW e \in Emails, NEW j \in Jobs, Rows(j) \subseteq Rows(j)',
           WillMark(j, e),
           \A k \in Jobs : JobCommit(k) =>
               \A i \in job[k].stamped : ~(invites[i].to = e /\ ~invites[i].reminded)
    PROVE  WillMark(j, e)'
  <1> USE DEF RInv, IInv
  <1>1. PICK i \in Rows(j) : invites[i].to = e /\ ~invites[i].reminded
    BY DEF WillMark
  <1>2. i \in Ids
    BY <1>1, RunRows
  <1>3. invites'[i].to = e
    BY <1>1, <1>2, RowsGrow DEF RowsStand
  <1>4. ~invites'[i].reminded
    BY <1>1, <1>2, MarksStep
  <1>5. QED BY <1>1, <1>3, <1>4 DEF WillMark

\* The runs' rows are as they were, or more.
LEMMA SameReach ==
    ASSUME RInv, [Next]_vars, TypeOK', NEW e \in Emails,
           reminders'[e] = reminders[e], ToRemind(e)' \subseteq ToRemind(e),
           \/ Marking(e) => Marking(e)'
           \/ aborts' = aborts + 1
           \/ Cardinality(Reminded(e)) + 1 <= Cardinality(Reminded(e)')
    PROVE  Reach(e)
  <1> USE DEF RInv
  <1>1. /\ aborts \in Nat /\ overlaps \in Nat /\ reminders[e] \in Nat
        /\ aborts' \in Nat /\ overlaps' \in Nat
        /\ aborts <= aborts' /\ overlaps <= overlaps'
    BY Counters, CountersStep
  <1>2. /\ Cardinality(ToRemind(e)) \in Nat /\ Cardinality(Reminded(e)) \in Nat
        /\ IsFiniteSet(ToRemind(e)) /\ Mark(e) \in {0, 1}
    BY FiniteCounts DEF IInv
  <1>3. /\ Cardinality(ToRemind(e)') \in Nat /\ Cardinality(Reminded(e)') \in Nat
        /\ Mark(e)' \in {0, 1}
    BY FiniteCountsNext
  <1>4. Cardinality(ToRemind(e)') <= Cardinality(ToRemind(e))
    BY <1>2, FS_Subset
  <1>5. Cardinality(Reminded(e)) <= Cardinality(Reminded(e)')
    BY RemindedGrow
  <1>6. reminders[e] + Cardinality(ToRemind(e))
            <= Cardinality(Reminded(e)) + Mark(e) + aborts + overlaps
    BY DEF RemindersInReach
  <1>7. (Marking(e) => Marking(e)') => Mark(e) <= Mark(e)'
    BY DEF Mark
  <1> HIDE DEF RInv
  <1>8. QED BY <1>1, <1>2, <1>3, <1>4, <1>5, <1>6, <1>7 DEF Reach

LEMMA StartReach ==
    ASSUME RInv, [Next]_vars, TypeOK', NEW j \in Jobs, JobStart(j), NEW e \in Emails
    PROVE  Reach(e)
  <1> USE DEF RInv, IInv
  <1>1. /\ \A k \in Jobs \ {j} : job'[k] = job[k]
        /\ job'[j].stamped = {} /\ job'[j].list = Due
    BY StartStep
  <1>2. /\ reminders' = reminders /\ aborts' = aborts /\ invites' = invites
        /\ ~Running(j)
    BY DEF JobStart, mail
  <1>3. job[j].stamped = {} /\ job[j].list = {}
    BY <1>2 DEF IdleHoldNothing
  <1>4. Reminded(e)' = Reminded(e)
    BY <1>2 DEF Reminded, InvitesTo, Ids
  <1>5. Marking(e) => Marking(e)'
    BY <1>1, <1>2, <1>3 DEF Marking, WillMark, Rows
  <1>6. CASE ~\E i \in Due : invites[i].to = e
    <2>1. ToRemind(e)' \subseteq ToRemind(e)
      BY <1>1, <1>2, <1>6 DEF ToRemind
    <2>2. QED BY <1>2, <1>5, <2>1, SameReach
  <1>7. CASE \E i \in Due : invites[i].to = e
    <2>1. ToRemind(e)' = ToRemind(e) \cup {j} /\ j \notin ToRemind(e)
      BY <1>1, <1>2, <1>3, <1>7 DEF ToRemind
    <2>2. Cardinality(ToRemind(e)') = Cardinality(ToRemind(e)) + 1
      BY <2>1, FiniteCounts, FS_AddElement
    <2>3. Marking(e)'
      BY <1>1, <1>2, <1>7 DEF Marking, WillMark, Rows, Due
    <2>4. /\ Cardinality(ToRemind(e)) \in Nat /\ Cardinality(Reminded(e)) \in Nat
          /\ Mark(e) \in {0, 1} /\ Mark(e)' = 1
      BY <2>3, FiniteCounts DEF Mark
    <2>5. /\ aborts \in Nat /\ overlaps \in Nat /\ reminders[e] \in Nat
      BY Counters
    <2>6. reminders[e] + Cardinality(ToRemind(e))
              <= Cardinality(Reminded(e)) + Mark(e) + aborts + overlaps
      BY DEF RemindersInReach
    <2>7. CASE \E k \in Jobs : Running(k)
      <3>1. overlaps' = overlaps + 1
        BY <2>7 DEF JobStart
      <3> HIDE DEF RInv, IInv
      <3>2. QED BY <1>2, <1>4, <2>2, <2>4, <2>5, <2>6, <3>1 DEF Reach
    <2>8. CASE ~\E k \in Jobs : Running(k)
      <3>1. ~Marking(e)
        BY <2>8 DEF IdleHoldNothing, Marking, WillMark, Rows
      <3>2. Mark(e) = 0
        BY <3>1 DEF Mark
      <3>3. overlaps' = overlaps
        BY <2>8 DEF JobStart
      <3> HIDE DEF RInv, IInv
      <3>4. QED BY <1>2, <1>4, <2>2, <2>4, <2>5, <2>6, <3>2, <3>3 DEF Reach
    <2>9. QED BY <2>7, <2>8
  <1>8. QED BY <1>6, <1>7

LEMMA RemindReach ==
    ASSUME RInv, [Next]_vars, TypeOK', NEW j \in Jobs, NEW i \in Ids, JobRemind(j, i),
           NEW e \in Emails
    PROVE  Reach(e)
  <1> USE DEF RInv, IInv
  <1>1. /\ \A k \in Jobs \ {j} : job'[k] = job[k]
        /\ job'[j].stamped = job[j].stamped \cup {i} /\ job'[j].list = job[j].list \ {i}
    BY RemindStep
  <1>2. /\ aborts' = aborts /\ overlaps' = overlaps /\ invites' = invites
        /\ reminders' = [reminders EXCEPT ![invites[i].to] = @ + 1]
        /\ i \in job[j].list
    BY RemindsListed DEF JobRemind
  <1>3. \A k \in Jobs : Rows(k)' = Rows(k)
    BY <1>1, <1>2 DEF Rows
  <1>4. Marking(e)' <=> Marking(e)
    BY <1>2, <1>3 DEF Marking, WillMark
  <1>5. Reminded(e)' = Reminded(e)
    BY <1>2 DEF Reminded, InvitesTo, Ids
  <1>6. reminders \in [Emails -> Nat]
    BY DEF TypeOK
  <1>7. CASE invites[i].to # e
    <2>1. reminders'[e] = reminders[e]
      BY <1>2, <1>6, <1>7
    <2>2. ToRemind(e)' \subseteq ToRemind(e)
      BY <1>1, <1>2 DEF ToRemind
    <2>3. QED BY <1>4, <2>1, <2>2, SameReach
  <1>8. CASE invites[i].to = e
    <2>1. reminders'[e] = reminders[e] + 1
      BY <1>2, <1>6, <1>8
    <2>2. \A k \in job[j].list \ {i} : invites[k].to # e
      BY <1>2, <1>8 DEF OnePerAddress, Rows
    <2>3. ToRemind(e)' = ToRemind(e) \ {j} /\ j \in ToRemind(e)
      BY <1>1, <1>2, <1>8, <2>2 DEF ToRemind
    <2>4. Cardinality(ToRemind(e)') = Cardinality(ToRemind(e)) - 1
      BY <2>3, FiniteCounts, FS_RemoveElement
    <2>5. /\ Cardinality(ToRemind(e)) \in Nat /\ Cardinality(Reminded(e)) \in Nat
          /\ Mark(e) \in {0, 1}
      BY FiniteCounts
    <2>6. Mark(e)' = Mark(e)
      BY <1>4 DEF Mark
    <2>7. reminders[e] + Cardinality(ToRemind(e))
              <= Cardinality(Reminded(e)) + Mark(e) + aborts + overlaps
      BY DEF RemindersInReach
    <2>8. /\ aborts \in Nat /\ overlaps \in Nat /\ reminders[e] \in Nat
      BY Counters
    <2> HIDE DEF RInv, IInv
    <2>9. QED BY <1>2, <1>5, <2>1, <2>4, <2>5, <2>6, <2>7, <2>8 DEF Reach
  <1>9. QED BY <1>7, <1>8

LEMMA EndReach ==
    ASSUME RInv, [Next]_vars, TypeOK', NEW j \in Jobs, JobCommit(j) \/ JobCrash(j),
           NEW e \in Emails
    PROVE  Reach(e)
  <1> USE DEF RInv, IInv
  <1>1. /\ \A k \in Jobs \ {j} : job'[k] = job[k]
        /\ job'[j].stamped = {} /\ job'[j].list = {}
    BY EndStep
  <1>2. reminders' = reminders
    BY DEF JobCommit, JobCrash, mail
  <1>3. ToRemind(e)' \subseteq ToRemind(e)
    <2>1. ASSUME NEW k \in ToRemind(e)'
          PROVE  k \in ToRemind(e)
      <3>1. k # j /\ k \in Jobs /\ job'[k] = job[k]
        BY <1>1, <2>1 DEF ToRemind
      <3>2. PICK i \in job'[k].list : invites'[i].to = e
        BY <2>1 DEF ToRemind
      <3>3. i \in job[k].list /\ i \in Ids
        BY <3>1, <3>2, JobFields
      <3>4. invites[i].to = e
        BY <3>2, <3>3, RowsGrow DEF RowsStand
      <3>5. QED BY <3>1, <3>3, <3>4 DEF ToRemind
    <2>2. QED BY <2>1
  <1>4. CASE JobCrash(j)
    <2>1. aborts' = aborts + 1
      BY <1>4 DEF JobCrash
    <2>2. QED BY <1>2, <1>3, <2>1, SameReach
  <1>5. ASSUME JobCommit(j), NEW i \in job[j].stamped, invites[i].to = e, ~invites[i].reminded
        PROVE  Reach(e)
    <2>1. i \in Ids /\ invites'[i].reminded /\ invites'[i].to = e /\ i \in Ids'
      BY <1>5, JobFields, CommitStep
    <2>2. i \in Reminded(e)' /\ i \notin Reminded(e)
      BY <1>5, <2>1 DEF Reminded, InvitesTo
    <2>3. Reminded(e) \cup {i} \subseteq Reminded(e)'
      BY <2>2, RemindedGrow
    <2>4. IsFiniteSet(Reminded(e)') /\ IsFiniteSet(Reminded(e))
      BY FiniteCounts, FiniteCountsNext
    <2>5. Cardinality(Reminded(e) \cup {i}) = Cardinality(Reminded(e)) + 1
      BY <2>2, <2>4, FS_AddElement
    <2>6. Cardinality(Reminded(e)) + 1 <= Cardinality(Reminded(e)')
      BY <2>3, <2>4, <2>5, FS_Subset
    <2>7. QED BY <1>2, <1>3, <2>6, SameReach
  <1>6. ASSUME JobCommit(j),
               \A i \in job[j].stamped : ~(invites[i].to = e /\ ~invites[i].reminded)
        PROVE  Reach(e)
    <2>1. ASSUME NEW k \in Jobs, JobCommit(k)
          PROVE  k = j
      <3>1. job[k].pc = "running" /\ job'[k].pc = "idle"
        BY <2>1, EndStep DEF JobCommit, Running
      <3>2. QED BY <1>1, <3>1
    <2>2. ASSUME Marking(e)
          PROVE  Marking(e)'
      <3>1. PICK k \in Jobs : WillMark(k, e)
        BY <2>2 DEF Marking
      <3>2. Rows(j) = job[j].stamped
        BY <1>6 DEF JobCommit, Rows
      <3>3. k # j
        BY <1>6, <3>1, <3>2 DEF WillMark
      <3>4. Rows(k) \subseteq Rows(k)'
        BY <1>1, <3>3 DEF Rows
      <3>5. WillMark(k, e)'
        BY <1>6, <2>1, <3>1, <3>4, WillMarkStep
      <3>6. QED BY <3>5 DEF Marking
    <2>3. QED BY <1>2, <1>3, <2>2, SameReach
  <1>7. QED BY <1>4, <1>5, <1>6

\* No other step touches the runs, nor marks a row.
LEMMA OtherReach ==
    ASSUME RInv, [Next]_vars, TypeOK', job' = job, NEW e \in Emails
    PROVE  Reach(e)
  <1> USE DEF RInv, IInv
  <1>1. reminders' = reminders
    <2>1. ASSUME NEW j \in Jobs, NEW k \in Ids, JobRemind(j, k)
          PROVE  FALSE
      <3>1. job'[j].list = job[j].list \ {k} /\ k \in job[j].list
        BY <2>1, RemindStep, RemindsListed
      <3>2. QED BY <3>1
    <2>2. QED BY <2>1, WhoMails
  <1>2. ASSUME NEW j \in Jobs, JobCommit(j)
        PROVE  FALSE
    <2>1. job[j].pc = "running" /\ job'[j].pc = "idle"
      BY <1>2, EndStep DEF JobCommit, Running
    <2>2. QED BY <2>1
  <1>3. ToRemind(e)' \subseteq ToRemind(e)
    <2>1. ASSUME NEW j \in Jobs, NEW i \in job[j].list, invites'[i].to = e
          PROVE  invites[i].to = e
      BY <2>1, JobFields, RowsGrow DEF RowsStand
    <2>2. QED BY <2>1 DEF ToRemind
  <1>4. ASSUME Marking(e)
        PROVE  Marking(e)'
    <2>1. PICK j \in Jobs : WillMark(j, e)
      BY <1>4 DEF Marking
    <2>2. Rows(j) \subseteq Rows(j)'
      BY DEF Rows
    <2>3. WillMark(j, e)'
      BY <1>2, <2>1, <2>2, WillMarkStep
    <2>4. QED BY <2>3 DEF Marking
  <1>5. QED BY <1>1, <1>3, <1>4, SameReach

LEMMA RInvStep == RInv /\ [Next]_vars => RInv'
  <1> SUFFICES ASSUME RInv, [Next]_vars PROVE RInv'
    OBVIOUS
  <1>1. IInv' /\ TypeOK'
    BY IInvStep DEF RInv, IInv
  <1>2. \A e \in Emails : Reach(e)
    BY <1>1, OtherReach, StartReach, RemindReach, EndReach, WhatRuns
  <1>3. RemindersInReach'
    BY <1>2 DEF RemindersInReach, Reach
  <1>4. QED BY <1>1, <1>3, OneUnansweredStep, OnePerAddressStep DEF RInv

\* "This is the only reminder we'll send", at the level of the code: however many
\* runs overlap and whatever becomes of them, an address gets a reminder for each
\* time it was invited, and one more at most for each run that aborted or began
\* beside another.
THEOREM RemindersBounded == Spec => []RemindersAreBounded
  <1>1. RInv => RemindersAreBounded
    <2> SUFFICES ASSUME RInv, NEW e \in Emails
                 PROVE  reminders[e] <= Cardinality(InvitesTo(e)) + aborts + overlaps
      BY DEF RemindersAreBounded
    <2> USE DEF RInv, IInv
    <2>1. reminders[e] + Cardinality(ToRemind(e))
              <= Cardinality(Reminded(e)) + Mark(e) + aborts + overlaps
      BY DEF RemindersInReach
    <2>2. /\ Cardinality(ToRemind(e)) \in Nat /\ Cardinality(Reminded(e)) \in Nat
          /\ IsFiniteSet(InvitesTo(e)) /\ Cardinality(InvitesTo(e)) \in Nat
      BY FiniteCounts
    <2>3. aborts \in Nat /\ overlaps \in Nat /\ reminders[e] \in Nat
      BY Counters
    <2>4. Cardinality(Reminded(e)) + Mark(e) <= Cardinality(InvitesTo(e))
      <3>1. Reminded(e) \subseteq InvitesTo(e)
        BY DEF Reminded
      <3>2. CASE Marking(e)
        <4>1. PICK j \in Jobs : \E i \in Rows(j) : invites[i].to = e /\ ~invites[i].reminded
          BY <3>2 DEF Marking, WillMark
        <4>1a. PICK i \in Rows(j) : invites[i].to = e /\ ~invites[i].reminded
          BY <4>1
        <4>2. i \in InvitesTo(e) /\ i \notin Reminded(e)
          BY <4>1a, RunRows DEF InvitesTo, Reminded
        <4>3. Reminded(e) \cup {i} \subseteq InvitesTo(e)
          BY <3>1, <4>2
        <4>4. Cardinality(Reminded(e) \cup {i}) = Cardinality(Reminded(e)) + 1
          BY <4>2, FiniteCounts, FS_AddElement
        <4>5. Cardinality(Reminded(e) \cup {i}) <= Cardinality(InvitesTo(e))
          BY <2>2, <4>3, FS_Subset
        <4>6. Mark(e) = 1
          BY <3>2 DEF Mark
        <4>7. QED BY <4>4, <4>5, <4>6
      <3>3. CASE ~Marking(e)
        <4>1. Mark(e) = 0
          BY <3>3 DEF Mark
        <4>2. Cardinality(Reminded(e)) <= Cardinality(InvitesTo(e))
          BY <2>2, <3>1, FS_Subset
        <4>3. QED BY <2>2, <4>1, <4>2
      <3>4. QED BY <3>2, <3>3
    <2> HIDE DEF RInv, IInv
    <2>5. Mark(e) \in {0, 1}
      BY DEF Mark
    <2>6. QED BY <2>1, <2>2, <2>3, <2>4, <2>5
  <1>2. QED BY <1>1, InitRInv, RInvStep, PTL DEF Spec

-----------------------------------------------------------------------------
(* Consent *)

Accepted(e) == {i \in Ids : invites[i].to = e /\ invites[i].answer = "accepted"}

CInv == IInv /\ VerifiedByConsent

\* Only accepting makes an accepted invite, and it was not accepted before.
LEMMA OthersKeepAccepted ==
    ASSUME IInv, [Next]_vars, ~\E i \in Ids : Accept(i), NEW e \in Emails
    PROVE  Accepted(e)' = Accepted(e) /\ verified' = verified
  <1> USE DEF IInv
  <1>1. RowsStand
    BY RowsGrow
  <1>2. verified' = verified
    BY DEF Next, vars, mail, SignUp, TimePasses, RequestStep, CountInvites, CreateInvite,
           RequestCrash, Invite, Answer, Decline, ReportReads, ReportFiles, SendInvite,
           JobStep, JobWork, JobStart, JobRemind, JobCommit, JobCrash
  <1>3. ASSUME NEW i \in Ids, invites'[i].answer = "accepted"
        PROVE  invites[i].answer = "accepted"
    <2>1. CASE invites' = invites
      BY <1>3, <2>1
    <2>2. ASSUME NEW k \in Ids, TimePasses(k)
          PROVE  invites[i].answer = "accepted"
      BY <1>3, <2>2, AgeStep
    <2>3. ASSUME NEW k \in Ids, Answer(k)
          PROVE  invites[i].answer = "accepted"
      <3>1. invites' = invites \/ invites' = Close(k, "declined")
        BY <2>3 DEF Answer, Decline, ReportReads, ReportFiles
      <3>2. QED BY <1>3, <2>1, <3>1, CloseStep DEF Answers
    <2>4. ASSUME NEW r \in Requests, Made(r)
          PROVE  invites[i].answer = "accepted"
      BY <1>3, <2>4, CreateStep DEF Made
    <2>5. ASSUME NEW j \in Jobs, JobCommit(j)
          PROVE  invites[i].answer = "accepted"
      BY <1>3, <2>5, CommitStep
    <2>6. QED BY <2>1, <2>2, <2>3, <2>4, <2>5, WhatMoves
  <1>4. \A i \in Ids' \ Ids : invites'[i].answer # "accepted"
    BY <1>1 DEF RowsStand
  <1>5. \A i \in Ids : /\ i \in Ids' /\ invites'[i].to = invites[i].to
                       /\ invites[i].answer = "accepted" => invites'[i].answer = "accepted"
    BY <1>1 DEF RowsStand, Unanswered
  <1>6. Accepted(e)' = Accepted(e)
    BY <1>3, <1>4, <1>5 DEF Accepted
  <1>7. QED BY <1>2, <1>6

LEMMA CInvStep == CInv /\ [Next]_vars => CInv'
  <1> SUFFICES ASSUME CInv, [Next]_vars PROVE CInv'
    OBVIOUS
  <1> USE DEF CInv
  <1>1. IInv'
    BY IInvStep
  <1>2. \A e \in Emails : verified[e] = Cardinality(Accepted(e))
    BY DEF VerifiedByConsent, Accepted
  <1>3. CASE ~\E i \in Ids : Accept(i)
    <2>1. \A e \in Emails : Accepted(e)' = Accepted(e) /\ verified' = verified
      BY <1>3, OthersKeepAccepted
    <2>2. \A e \in Emails : verified'[e] = Cardinality(Accepted(e)')
      BY <1>2, <2>1
    <2>3. QED BY <1>1, <2>2 DEF VerifiedByConsent, Accepted
  <1>4. ASSUME NEW i \in Ids, Accept(i)
        PROVE  CInv'
    <2>1. /\ Unanswered(i) /\ invites' = Close(i, "accepted")
          /\ verified' = [verified EXCEPT ![invites[i].to] = @ + 1]
      BY <1>4 DEF Accept, StillOpen, IsOpen
    <2>2. /\ Ids' = Ids
          /\ invites'[i].answer = "accepted" /\ invites'[i].to = invites[i].to
          /\ \A k \in Ids \ {i} : invites'[k] = invites[k]
      BY <2>1, CloseStep DEF Answers, IInv
    <2>3. ASSUME NEW e \in Emails
          PROVE  verified'[e] = Cardinality(Accepted(e)')
      <3>1. CASE e = invites[i].to
        <4>1. Accepted(e)' = Accepted(e) \cup {i} /\ i \notin Accepted(e)
          BY <2>1, <2>2, <3>1 DEF Accepted, Unanswered
        <4>2. IsFiniteSet(Accepted(e)) /\ Cardinality(Accepted(e)) \in Nat
          BY IdsFinite DEF Accepted, IInv
        <4>3. Cardinality(Accepted(e)') = Cardinality(Accepted(e)) + 1
          BY <4>1, <4>2, FS_AddElement
        <4>4. verified'[e] = verified[e] + 1
          BY <2>1, <3>1 DEF IInv, TypeOK
        <4>5. QED BY <1>2, <4>3, <4>4
      <3>2. CASE e # invites[i].to
        <4>1. Accepted(e)' = Accepted(e)
          BY <2>2, <3>2 DEF Accepted
        <4>2. verified'[e] = verified[e]
          BY <2>1, <3>2 DEF IInv, TypeOK
        <4>3. QED BY <1>2, <4>1, <4>2
      <3>3. QED BY <3>1, <3>2
    <2>4. QED BY <1>1, <2>3 DEF VerifiedByConsent, Accepted
  <1>5. QED BY <1>3, <1>4

\* A verified affiliation from an invite is somebody's explicit consent: each is
\* one invite to that address that was accepted and still is, whatever double
\* clicks, declines, reports and expiries raced with it.
THEOREM ConsentIsExplicit == Spec => []VerifiedByConsent
  <1>1. Init => CInv
    <2> SUFFICES ASSUME Init PROVE CInv
      OBVIOUS
    <2>1. \A e \in Emails : verified[e] = 0 /\ Accepted(e) = {}
      BY DEF Init, Accepted, Ids
    <2>2. VerifiedByConsent
      BY <2>1, FS_EmptySet DEF VerifiedByConsent, Accepted
    <2>3. QED BY <2>2, InitIInv DEF CInv
  <1>2. CInv => VerifiedByConsent
    BY DEF CInv
  <1>3. QED BY <1>1, <1>2, CInvStep, PTL DEF Spec

-----------------------------------------------------------------------------
(* The quotas *)

Young(age) == {i \in Ids : invites[i].age <= age}
Counted == {r \in Requests : request[r].pc = "counted"}

\* A request counts before it inserts: the rows of a period and the requests that
\* may yet insert stay below its quota plus the number of requests.
QuotaInReach(max, age) ==
    Cardinality(Young(age)) + Cardinality(Counted) < max + Cardinality(Requests)

QInv == IInv /\ QuotaInReach(MaxPerDay, 0) /\ QuotaInReach(MaxPerWeek, 1)

LEMMA SomeRequests ==
    /\ IsFiniteSet(Counted) /\ Cardinality(Counted) \in Nat
    /\ Cardinality(Counted) <= Cardinality(Requests)
    /\ IsFiniteSet(Counted') /\ Cardinality(Counted') \in Nat
    /\ Cardinality(Counted') <= Cardinality(Requests)
    /\ Cardinality(Requests) \in Nat
  <1>1. Counted \subseteq Requests /\ Counted' \subseteq Requests
    BY DEF Counted
  <1>2. QED BY <1>1, FS_Subset, FS_CardinalityType, WorkersAssumption

LEMMA SomeYoung ==
    ASSUME IInv, [Next]_vars, NEW CONSTANT age \in Nat
    PROVE  /\ IsFiniteSet(Young(age)) /\ Cardinality(Young(age)) \in Nat
           /\ IsFiniteSet(Young(age)') /\ Cardinality(Young(age)') \in Nat
  <1>1. IsFiniteSet(Young(age)) /\ Cardinality(Young(age)) \in Nat
    BY IdsFinite DEF Young, IInv
  <1>2. Young(age)' \subseteq 1..MaxInvites
    BY IdsNext DEF Young
  <1>3. IsFiniteSet(1..MaxInvites)
    BY FS_Interval, LimitsAssumption
  <1>4. QED BY <1>1, <1>2, <1>3, FS_Subset, FS_CardinalityType

\* A row is young when it is made, and only ages.
LEMMA YoungStep ==
    ASSUME IInv, [Next]_vars, NEW CONSTANT age \in Nat
    PROVE  \/ Young(age)' \subseteq Young(age)
           \/ \E r \in Requests : Made(r) /\ \E n : n \notin Young(age)
                                                   /\ Young(age)' = Young(age) \cup {n}
  <1> USE DEF IInv
  <1>1. CASE invites' = invites
    BY <1>1 DEF Young, Ids
  <1>2. ASSUME NEW k \in Ids, TimePasses(k)
        PROVE  Young(age)' \subseteq Young(age)
    <2>1. /\ Ids' = Ids /\ invites'[k].age = invites[k].age + 1
          /\ \A i \in Ids \ {k} : invites'[i] = invites[i]
      BY <1>2, AgeStep
    <2>2. invites[k].age \in Nat
      <3>1. invites[k] \in InviteRows
        BY IdsAre
      <3>2. invites[k].age \in Ages
        BY <3>1 DEF InviteRows
      <3>3. QED BY <3>2 DEF Ages
    <2>3. invites'[k].age <= age => invites[k].age <= age
      BY <2>1, <2>2
    <2>4. QED BY <2>1, <2>3 DEF Young
  <1>3. ASSUME NEW k \in Ids, Answered(k)
        PROVE  Young(age)' \subseteq Young(age)
    <2>1. PICK a \in {"accepted", "declined"} : invites' = Close(k, a)
      BY <1>3 DEF Answered
    <2>2. QED BY <2>1, CloseStep DEF Answers, Young
  <1>4. ASSUME NEW j \in Jobs, JobCommit(j)
        PROVE  Young(age)' \subseteq Young(age)
    BY <1>4, CommitStep DEF Young
  <1>5. ASSUME NEW r \in Requests, Made(r)
        PROVE  \E n : n \notin Young(age) /\ Young(age)' = Young(age) \cup {n}
    <2> DEFINE n == Len(invites) + 1
    <2>1. /\ Ids' = Ids \cup {n} /\ n \notin Ids
          /\ invites'[n] = NewRow(request[r].email)
          /\ \A k \in Ids : invites'[k] = invites[k]
      BY <1>5, CreateStep DEF Made
    <2>2. invites'[n].age = 0
      BY <2>1 DEF NewRow
    <2>3. invites'[n].age <= age
      BY <2>2
    <2> HIDE DEF n
    <2>4. n \notin Young(age) /\ Young(age)' = Young(age) \cup {n}
      BY <2>1, <2>3 DEF Young
    <2>5. QED BY <2>4
  <1>6. QED BY <1>1, <1>2, <1>3, <1>4, <1>5, WhatMoves

LEMMA MadeIsNotCounted ==
    ASSUME IInv, NEW r \in Requests, Made(r)
    PROVE  Counted' = Counted \ {r} /\ r \in Counted
  BY DEF Made, Counted, IInv, TypeOK

LEMMA QuotaStep ==
    ASSUME IInv, [Next]_vars,
           NEW CONSTANT max \in Nat \ {0}, NEW CONSTANT age \in Nat,
           QuotaInReach(max, age),
           \A r \in Requests :
               request'[r].pc = "counted" => request[r].pc = "counted" \/ QuotaLeft(max, age)
    PROVE  QuotaInReach(max, age)'
  <1>2. Cardinality(Young(age)) + Cardinality(Counted) < max + Cardinality(Requests)
    BY DEF QuotaInReach
  <1>3. ASSUME Young(age)' \subseteq Young(age)
        PROVE  Cardinality(Young(age)') <= Cardinality(Young(age))
    BY <1>3, SomeYoung, FS_Subset
  <1>4. CASE Young(age)' \subseteq Young(age) /\ Counted' \subseteq Counted
    <2>1. Cardinality(Counted') <= Cardinality(Counted)
      BY <1>4, SomeRequests, FS_Subset
    <2>2. QED BY <1>2, <1>3, <1>4, <2>1, SomeYoung, SomeRequests DEF QuotaInReach
  <1>5. CASE Young(age)' \subseteq Young(age) /\ QuotaLeft(max, age)
    <2>1. Cardinality(Young(age)) < max
      BY <1>5 DEF QuotaLeft, Young
    <2>2. QED BY <1>3, <1>5, <2>1, SomeYoung, SomeRequests DEF QuotaInReach
  <1>6. ASSUME NEW r \in Requests, Made(r)
        PROVE  QuotaInReach(max, age)'
    <2>1. Counted' = Counted \ {r} /\ r \in Counted
      BY <1>6, MadeIsNotCounted
    <2>2. Cardinality(Counted') = Cardinality(Counted) - 1
      BY <2>1, SomeRequests, FS_RemoveElement
    <2>3. Cardinality(Young(age)') <= Cardinality(Young(age)) + 1
      <3>1. CASE Young(age)' \subseteq Young(age)
        BY <1>3, <3>1, SomeYoung
      <3>2. ASSUME NEW n, n \notin Young(age), Young(age)' = Young(age) \cup {n}
            PROVE  Cardinality(Young(age)') <= Cardinality(Young(age)) + 1
        <4>1. IsFiniteSet(Young(age)) /\ Cardinality(Young(age)) \in Nat
          BY SomeYoung
        <4>2. Cardinality(Young(age) \cup {n}) = Cardinality(Young(age)) + 1
          BY <3>2, <4>1, FS_AddElement
        <4>3. QED BY <3>2, <4>1, <4>2
      <3>3. QED BY <3>1, <3>2, YoungStep
    <2>4. QED BY <1>2, <2>2, <2>3, SomeYoung, SomeRequests DEF QuotaInReach
  <1>7. ASSUME ~\E r \in Requests : Made(r)
        PROVE  QuotaInReach(max, age)'
    <2>1. Young(age)' \subseteq Young(age)
      BY <1>7, YoungStep
    <2>2. Counted' \subseteq Counted \/ QuotaLeft(max, age)
      BY DEF Counted
    <2>3. QED BY <1>4, <1>5, <2>1, <2>2
  <1>8. QED BY <1>6, <1>7

\* A request is counted when both quotas let it.
LEMMA CountedStep ==
    ASSUME IInv, [Next]_vars, NEW r \in Requests, request'[r].pc = "counted"
    PROVE  \/ request[r].pc = "counted"
           \/ QuotaLeft(MaxPerDay, 0) /\ QuotaLeft(MaxPerWeek, 1)
  <1>1. CASE request' = request
    BY <1>1
  <1>2. ASSUME NEW q \in Requests, RequestStep(q)
        PROVE  \/ request[r].pc = "counted"
               \/ QuotaLeft(MaxPerDay, 0) /\ QuotaLeft(MaxPerWeek, 1)
    <2>1. Forward(q) /\ \A p \in Requests \ {q} : request'[p] = request[p]
      BY <1>2, ForwardStep DEF IInv
    <2>2. CASE q = r
      BY <2>1, <2>2 DEF Forward, Idle
    <2>3. CASE q # r
      BY <2>1, <2>3
    <2>4. QED BY <2>2, <2>3
  <1>3. QED BY <1>1, <1>2, WhoAsks

\* "MAX_PER_DAY" and "MAX_PER_WEEK" at the level of the code: requests that counted
\* before any of them inserted go over each quota, by less than their number.
THEOREM QuotasBounded == Spec => []QuotasAreBounded
  <1>1. Init => QInv
    <2> SUFFICES ASSUME Init PROVE QInv
      OBVIOUS
    <2>1. Young(0) = {} /\ Young(1) = {} /\ Counted = {}
      BY DEF Init, Young, Counted, Ids, Idle
    <2>2. Cardinality(Young(0)) = 0 /\ Cardinality(Young(1)) = 0 /\ Cardinality(Counted) = 0
      BY <2>1, FS_EmptySet
    <2>3. QuotaInReach(MaxPerDay, 0) /\ QuotaInReach(MaxPerWeek, 1)
      BY <2>2, SomeRequests, LimitsAssumption DEF QuotaInReach
    <2>4. QED BY <2>3, InitIInv DEF QInv
  <1>2. QInv /\ [Next]_vars => QInv'
    <2> SUFFICES ASSUME QInv, [Next]_vars PROVE QInv'
      OBVIOUS
    <2>1. MaxPerDay \in Nat \ {0} /\ MaxPerWeek \in Nat \ {0}
      BY LimitsAssumption
    <2>2. QuotaInReach(MaxPerDay, 0)'
      BY <2>1, QuotaStep, CountedStep DEF QInv
    <2>3. QuotaInReach(MaxPerWeek, 1)'
      BY <2>1, QuotaStep, CountedStep DEF QInv
    <2>4. QED BY <2>2, <2>3, IInvStep DEF QInv
  <1>3. QInv => QuotasAreBounded
    <2>1. ASSUME QInv, NEW CONSTANT max \in Nat, NEW CONSTANT age \in Nat,
                 QuotaInReach(max, age)
          PROVE  WithinReach(max, age)
      <3>1. Cardinality(Young(age)) \in Nat
        BY <2>1, IdsFinite DEF Young, QInv, IInv
      <3>2. Cardinality(Young(age)) < max + Cardinality(Requests)
        BY <2>1, <3>1, SomeRequests DEF QuotaInReach
      <3>3. QED BY <3>2 DEF WithinReach, Young
    <2>2. QED BY <2>1, LimitsAssumption DEF QuotasAreBounded, QInv
  <1>4. QED BY <1>1, <1>2, <1>3, PTL DEF Spec

-----------------------------------------------------------------------------
(* The promise of Invitation *)

\* What a report read is an address it holds.
ReadIsHeld == \A i \in 1..MaxInvites : complaint[i].email # "" => complaint[i].held

LEMMA ReadIsHeldStep ==
    ASSUME IInv, ReadIsHeld, [Next]_vars
    PROVE  ReadIsHeld'
  <1> USE DEF IInv
  <1>1. CASE complaint' = complaint
    BY <1>1 DEF ReadIsHeld
  <1>2. ASSUME NEW i \in Ids, ReportReads(i)
        PROVE  ReadIsHeld'
    BY <1>2 DEF ReportReads, ReadIsHeld, TypeOK
  <1>3. ASSUME NEW i \in Ids, ReportFiles(i)
        PROVE  ReadIsHeld'
    BY <1>3 DEF ReportFiles, ReadIsHeld, TypeOK
  <1>4. \/ complaint' = complaint
        \/ \E i \in Ids : ReportReads(i) \/ ReportFiles(i)
    BY DEF Next, vars, SignUp, TimePasses, RequestStep, CountInvites, CreateInvite, SendInvite,
           RequestCrash, Invite, Answer, Accept, Decline, JobStep, JobWork, JobStart, JobRemind,
           JobCommit, JobCrash
  <1>5. QED BY <1>1, <1>2, <1>3, <1>4

LEMMA PromisedRows ==
    /\ DOMAIN Promised = Ids
    /\ \A i \in Ids : Promised[i] = [to |-> invites[i].to, email |-> invites[i].email,
                                     answer |-> invites[i].answer]
  BY DEF Promised

LEMMA PromisedFields ==
    ASSUME NEW i \in Ids
    PROVE  /\ i \in DOMAIN Promised
           /\ Promised[i].to = invites[i].to
           /\ Promised[i].email = invites[i].email
           /\ Promised[i].answer = invites[i].answer
           /\ IV!Open(i) <=> Unanswered(i)
  <1>1. Promised[i] = [to |-> invites[i].to, email |-> invites[i].email,
                       answer |-> invites[i].answer] /\ i \in DOMAIN Promised
    BY PromisedRows
  <1>2. /\ Promised[i].to = invites[i].to
        /\ Promised[i].email = invites[i].email
        /\ Promised[i].answer = invites[i].answer
    BY <1>1
  <1>3. QED BY <1>1, <1>2 DEF IV!Open, Unanswered

\* Rows that keep their address and their answer keep what was promised.
LEMMA SamePromise ==
    ASSUME Ids' = Ids,
           \A i \in Ids : /\ invites'[i].to = invites[i].to
                          /\ invites'[i].email = invites[i].email
                          /\ invites'[i].answer = invites[i].answer
    PROVE  Promised' = Promised
  BY DEF Promised

\* The rows of S close together, and the others stay.
LEMMA ClosePromise ==
    ASSUME NEW S \in SUBSET Ids, NEW a, Ids' = Ids,
           \A i \in S : /\ Unanswered(i) /\ invites'[i].to = invites[i].to
                        /\ invites'[i].email = "" /\ invites'[i].answer = a,
           \A i \in Ids \ S : /\ invites'[i].to = invites[i].to
                              /\ invites'[i].email = invites[i].email
                              /\ invites'[i].answer = invites[i].answer
    PROVE  IV!Close(S, a)
  <1>1. \A i \in S : IV!Open(i)
    BY PromisedFields
  <1>2. Promised' = [i \in Ids |-> [to |-> invites'[i].to, email |-> invites'[i].email,
                                    answer |-> invites'[i].answer]]
    BY DEF Promised
  <1>3. Promised' = [i \in DOMAIN Promised |->
                        IF i \in S THEN [to |-> Promised[i].to, email |-> "", answer |-> a]
                                   ELSE Promised[i]]
    <2>1. \A i \in Ids : [to |-> invites'[i].to, email |-> invites'[i].email,
                          answer |-> invites'[i].answer]
                  = IF i \in S THEN [to |-> Promised[i].to, email |-> "", answer |-> a]
                               ELSE Promised[i]
      <3>1. ASSUME NEW i \in S
            PROVE  [to |-> invites'[i].to, email |-> invites'[i].email,
                    answer |-> invites'[i].answer]
                       = [to |-> Promised[i].to, email |-> "", answer |-> a]
        BY PromisedFields
      <3>2. ASSUME NEW i \in Ids \ S
            PROVE  [to |-> invites'[i].to, email |-> invites'[i].email,
                    answer |-> invites'[i].answer] = Promised[i]
        BY PromisedRows
      <3>3. QED BY <3>1, <3>2
    <2>2. DOMAIN Promised = Ids
      BY PromisedRows
    <2>3. QED BY <1>2, <2>1, <2>2
  <1>4. QED BY <1>1, <1>3 DEF IV!Close

\* Whoever answers closes one invite.
LEMMA CloseOnePromise ==
    ASSUME TypeOK, NEW i \in Ids, NEW a \in {"accepted", "declined"}, Unanswered(i),
           invites' = Close(i, a)
    PROVE  IV!Close({i}, a)
  <1>1. /\ Ids' = Ids
        /\ invites'[i].answer = a /\ invites'[i].email = "" /\ invites'[i].to = invites[i].to
        /\ \A k \in Ids \ {i} : invites'[k] = invites[k]
    BY CloseStep DEF Answers
  <1>2. QED BY <1>1, ClosePromise

\* A person answers, asks for no more invites, or says nothing new.
AnswerPromise(i) ==
    \/ IV!Accept(i) \/ IV!Decline(i) \/ IV!Block(i)
    \/ UNCHANGED <<Promised, verified, optOuts>>

\* The two ways to decline differ in what they block.
LEMMA DeclinePromise ==
    ASSUME IInv, NEW i \in Ids,
           invites' = IF IsOpen(i) THEN Close(i, "declined") ELSE invites,
           optOuts' \in {optOuts, optOuts \cup {invites[i].to}},
           verified' = verified
    PROVE  AnswerPromise(i)
  <1>1. CASE IsOpen(i)
    <2>1. IV!Close({i}, "declined")
      BY <1>1, CloseOnePromise DEF IsOpen, IInv
    <2>2. optOuts' \in {optOuts, optOuts \cup {Promised[i].to}}
      BY PromisedRows
    <2>3. QED BY <2>1, <2>2 DEF AnswerPromise, IV!Decline
  <1>2. CASE ~IsOpen(i)
    <2>1. Promised' = Promised
      BY <1>2, SamePromise DEF Ids
    <2>2. CASE optOuts' = optOuts
      BY <2>1, <2>2 DEF AnswerPromise
    <2>3. CASE optOuts' = optOuts \cup {invites[i].to}
      <3>1. i \in DOMAIN Promised /\ optOuts' = optOuts \cup {Promised[i].to}
        BY <2>3, PromisedRows
      <3>2. QED BY <2>1, <3>1 DEF AnswerPromise, IV!Block
    <2>4. QED BY <2>2, <2>3
  <1>3. QED BY <1>1, <1>2

\* Nothing but the address an invite was made for is ever blocked through it.
LEMMA BlockedIsInvited ==
    ASSUME IInv, ReadIsHeld, NEW i \in Ids
    PROVE  /\ {invites[i].email} \ {""} \subseteq {invites[i].to}
           /\ complaint[i].pc = "read" => AddressRead(i) \subseteq {invites[i].to}
  <1>1. invites[i].email \in {"", invites[i].to}
    BY DEF IInv, Addresses
  <1>2. i \in 1..MaxInvites
    BY IdsAre, LimitsAssumption DEF IInv
  <1>3. complaint[i].email # "" => complaint[i].email = invites[i].to
    BY <1>2 DEF IInv, ComplaintsHold, ReadIsHeld
  <1>4. QED BY <1>1, <1>3 DEF AddressRead

LEMMA AnswersPromise ==
    ASSUME IInv, ReadIsHeld, NEW i \in Ids, Answer(i)
    PROVE  AnswerPromise(i)
  <1>1. CASE Accept(i)
    <2>1. /\ invites' = Close(i, "accepted") /\ Unanswered(i)
          /\ verified' = [verified EXCEPT ![invites[i].to] = @ + 1]
          /\ optOuts' = optOuts
      BY <1>1 DEF Accept, StillOpen, IsOpen
    <2>2. IV!Close({i}, "accepted")
      BY <2>1, CloseOnePromise DEF IInv
    <2>3. verified' = [verified EXCEPT ![Promised[i].to] = @ + 1]
      <3>1. Promised[i].to = invites[i].to
        BY PromisedFields
      <3>2. QED BY <2>1, <3>1
    <2>4. QED BY <2>1, <2>2, <2>3 DEF AnswerPromise, IV!Accept
  <1>2. ASSUME NEW block \in BOOLEAN, Decline(i, block)
        PROVE  AnswerPromise(i)
    <2>1. optOuts' \in {optOuts, optOuts \cup {invites[i].to}}
      BY <1>2, BlockedIsInvited DEF Decline
    <2>2. QED BY <1>2, <2>1, DeclinePromise DEF Decline
  <1>3. CASE ReportReads(i)
    <2>1. Promised' = Promised
      BY <1>3, SamePromise DEF ReportReads, Ids
    <2>2. QED BY <1>3, <2>1 DEF ReportReads, AnswerPromise
  <1>4. CASE ReportFiles(i)
    <2>1. optOuts' \in {optOuts, optOuts \cup {invites[i].to}}
      BY <1>4, BlockedIsInvited DEF ReportFiles
    <2>2. QED BY <1>4, <2>1, DeclinePromise DEF ReportFiles
  <1>5. QED BY <1>1, <1>2, <1>3, <1>4 DEF Answer

\* The insert finds no row to the address without an answer.
LEMMA OfferPromise ==
    ASSUME IInv, NEW r \in Requests, CreateInvite(r), invites' # invites
    PROVE  IV!Next
  <1> DEFINE e == request[r].email
             n == Len(invites) + 1
  <1>1. /\ ~HasUnanswered(e) /\ e \in Emails
        /\ invites' = Append(invites, NewRow(e))
        /\ UNCHANGED <<verified, optOuts>>
    BY RequestFields DEF CreateInvite, NewRow, IInv
  <1>2. /\ Ids' = Ids \cup {n} /\ n \notin Ids /\ invites'[n] = NewRow(e)
        /\ \A k \in Ids : invites'[k] = invites[k]
        /\ Len(invites) \in Nat /\ Ids = 1..Len(invites)
    BY <1>1, CreateStep, IdsAre DEF IInv
  <1>3. \A i \in DOMAIN Promised : IV!Open(i) => Promised[i].to # e
    <2> SUFFICES ASSUME NEW i \in Ids, Unanswered(i)
                 PROVE  invites[i].to # e
      BY PromisedRows DEF IV!Open, Unanswered
    <2>1. invites[i].email = invites[i].to
      BY DEF IInv, Addresses
    <2>2. QED BY <1>1, <2>1 DEF HasUnanswered
  <1> DEFINE new == [to |-> e, email |-> e, answer |-> "open"]
  <1>4. Promised' = Append(Promised, new)
    <2>1. Promised' = [i \in 1..n |-> IF i = n THEN new ELSE Promised[i]]
      <3>1. Ids' = 1..n /\ \A i \in 1..n : i # n => i \in Ids
        BY <1>2
      <3>2. invites'[n].to = e /\ invites'[n].email = e /\ invites'[n].answer = "open"
        BY <1>2 DEF NewRow
      <3>3. \A i \in 1..n : [to |-> invites'[i].to, email |-> invites'[i].email,
                             answer |-> invites'[i].answer]
                                = IF i = n THEN new ELSE Promised[i]
        BY <1>2, <3>1, <3>2, PromisedRows
      <3>4. Promised' = [i \in 1..n |-> [to |-> invites'[i].to, email |-> invites'[i].email,
                                         answer |-> invites'[i].answer]]
        BY <3>1 DEF Promised
      <3> HIDE DEF n, e, new
      <3>5. QED BY <3>3, <3>4
    <2>2. Promised \in Seq([to : {invites[i].to : i \in Ids}, email : {invites[i].email : i \in Ids},
                            answer : {invites[i].answer : i \in Ids}])
      BY <1>2, IsASeq DEF Promised
    <2>3. Len(Promised) = Len(invites)
      BY <1>2, <2>2, PromisedRows, LenProperties
    <2>4. QED BY <1>2, <2>1, <2>2, <2>3
  <1>5. IV!Offer(e)
    BY <1>1, <1>3, <1>4 DEF IV!Offer
  <1>6. QED BY <1>1, <1>5 DEF IV!Next

LEMMA ExpirePromise ==
    ASSUME IInv, NEW j \in Jobs, JobCommit(j)
    PROVE  IV!Next
  <1> DEFINE S == job[j].expired
  <1>1. S \subseteq Ids /\ \A i \in S : Unanswered(i)
    BY JobFields DEF IInv, ExpiringAreUnanswered
  <1>2. /\ Ids' = Ids
        /\ \A i \in S : /\ Unanswered(i) /\ invites'[i].to = invites[i].to
                        /\ invites'[i].email = "" /\ invites'[i].answer = "expired"
        /\ \A i \in Ids \ S : /\ invites'[i].to = invites[i].to
                              /\ invites'[i].email = invites[i].email
                              /\ invites'[i].answer = invites[i].answer
    BY <1>1, CommitStep DEF IInv
  <1> HIDE DEF S
  <1>2a. IV!Close(S, "expired")
    BY <1>1, <1>2, ClosePromise
  <1>3. UNCHANGED <<verified, optOuts>>
    BY DEF JobCommit
  <1>4. S \in SUBSET DOMAIN Promised
    BY <1>1, PromisedRows
  <1>5. QED BY <1>2a, <1>3, <1>4 DEF IV!Next, IV!Expire

\* Through every race of links, reports, requests and overlapping runs of the job,
\* and every crash of theirs, it is as if each invite were offered once, answered
\* once or given up, and its address blocked or not: TeamInvites implements
\* Invitation.
THEOREM InvitesKeepThePromise == Spec => InvitationPromise
  <1>1. ASSUME Init
        PROVE  IV!Init /\ ReadIsHeld
    <2>1. Promised = <<>>
      BY <1>1 DEF Init, Promised, Ids
    <2>2. QED BY <1>1, <2>1 DEF Init, IV!Init, ReadIsHeld, NoComplaint
  <1>2. ASSUME IInv, ReadIsHeld, [Next]_vars
        PROVE  [IV!Next]_<<Promised, verified, optOuts>>
    <2>1. CASE UNCHANGED <<invites, verified, optOuts>>
      BY <2>1, SamePromise DEF Ids
    <2>2. ASSUME NEW i \in Ids, Answer(i)
          PROVE  [IV!Next]_<<Promised, verified, optOuts>>
      <3>1. AnswerPromise(i) /\ i \in DOMAIN Promised
        BY <1>2, <2>2, AnswersPromise, PromisedRows
      <3>2. QED BY <3>1 DEF AnswerPromise, IV!Next
    <2>3. ASSUME NEW i \in Ids, TimePasses(i)
          PROVE  UNCHANGED <<Promised, verified, optOuts>>
      <3>1. Promised' = Promised
        BY <1>2, <2>3, AgeStep, SamePromise DEF IInv
      <3>2. QED BY <2>3, <3>1 DEF TimePasses
    <2>4. ASSUME NEW r \in Requests, CreateInvite(r), invites' # invites
          PROVE  IV!Next
      BY <1>2, <2>4, OfferPromise
    <2>5. ASSUME NEW j \in Jobs, JobCommit(j)
          PROVE  IV!Next
      BY <1>2, <2>5, ExpirePromise
    <2>6. \/ UNCHANGED <<invites, verified, optOuts>>
          \/ \E i \in Ids : TimePasses(i) \/ Answer(i)
          \/ \E r \in Requests : CreateInvite(r) /\ invites' # invites
          \/ \E j \in Jobs : JobCommit(j)
      BY <1>2 DEF Next, vars, SignUp, RequestStep, CountInvites, CreateInvite, SendInvite,
                  RequestCrash, Invite, JobStep, JobWork, JobStart, JobRemind, JobCrash
    <2>7. QED BY <2>1, <2>2, <2>3, <2>4, <2>5, <2>6
  <1>3. IInv /\ ReadIsHeld /\ [Next]_vars => ReadIsHeld'
    BY ReadIsHeldStep
  <1>4. QED
    BY <1>1, <1>2, <1>3, SpecIInv, PTL DEF Spec, InvitationPromise, IV!Spec

-----------------------------------------------------------------------------
(* Runs that wait for each other *)

\* A run never waits for a row of its own: what it expires was past its date when
\* the list was read, and what it stamps leaves the list.
Apart == \A j \in Jobs : \A i \in job[j].list : ~Holds(j, i)

AInv == IInv /\ Apart

LEMMA AInvStep == AInv /\ [Next]_vars => AInv'
  <1> SUFFICES ASSUME AInv, [Next]_vars PROVE AInv'
    OBVIOUS
  <1> USE DEF AInv
  <1>1. ASSUME NEW j \in Jobs, job'[j] = job[j]
        PROVE  \A i \in job'[j].list : ~Holds(j, i)'
    BY <1>1 DEF Apart, Holds
  <1>2. ASSUME NEW j \in Jobs, JobStart(j)
        PROVE  \A i \in job'[j].list : ~Holds(j, i)'
    <2>1. Stale \cap Due = {}
      BY DEF Stale, Due, IsOpen, ExpiredAge
    <2>2. job'[j].expired = Stale /\ job'[j].stamped = {} /\ job'[j].list = Due
      BY <1>2, StartStep DEF IInv
    <2>3. QED BY <2>1, <2>2 DEF Holds
  <1>3. ASSUME NEW j \in Jobs, NEW n \in Ids, JobRemind(j, n)
        PROVE  \A i \in job'[j].list : ~Holds(j, i)'
    <2>1. /\ job'[j].expired = job[j].expired /\ job'[j].stamped = job[j].stamped \cup {n}
          /\ job'[j].list = job[j].list \ {n}
      BY <1>3, RemindStep DEF IInv
    <2>2. QED BY <2>1 DEF Apart, Holds
  <1>4. ASSUME NEW j \in Jobs, JobCommit(j) \/ JobCrash(j)
        PROVE  \A i \in job'[j].list : ~Holds(j, i)'
    BY <1>4, EndStep DEF IInv
  <1>5. ASSUME NEW j \in Jobs
        PROVE  \A i \in job'[j].list : ~Holds(j, i)'
    <2>1. TypeOK
      BY DEF IInv
    <2>2. \/ job'[j] = job[j] \/ JobStart(j) \/ JobCommit(j) \/ JobCrash(j)
          \/ \E n \in Ids : JobRemind(j, n)
      BY <2>1, WhatRuns, StartStep, RemindStep, EndStep
    <2>3. QED BY <1>1, <1>2, <1>3, <1>4, <2>2
  <1>6. QED BY <1>5, IInvStep DEF Apart

\* A set of numbers has a least one.
LEMMA Least ==
    ASSUME NEW S \in SUBSET Nat, S # {}
    PROVE  \E m \in S : \A n \in S : m <= n
  <1> DEFINE R == OpToRel(<, Nat)
  <1>1. \A m, n \in Nat : <<n, m>> \in R <=> n < m
    BY DEF OpToRel
  <1>2. IsWellFoundedOn(R, Nat)
    BY NatLessThanWellFounded
  <1> HIDE DEF R
  <1>3. \E m \in S : \A n \in S : ~(<<n, m>> \in R)
    BY <1>2, WFMin
  <1>4. PICK m \in S : \A n \in S : ~(<<n, m>> \in R)
    BY <1>3
  <1>5. ASSUME NEW n \in S
        PROVE  m <= n
    <2>1. m \in Nat /\ n \in Nat
      OBVIOUS
    <2>2. ~(n < m)
      BY <1>1, <1>4, <2>1
    <2>3. QED BY <2>1, <2>2
  <1>6. QED BY <1>5

\* Each of S waits for one of S.
Closed(S) == S # {} /\ \A j \in S : \E k \in S : WaitsFor(j, k)

\* Follow who waits for whom: in a closed set as small as can be, everybody is
\* waited for.
LEMMA ClosedHasCircle ==
    ASSUME NEW R \in SUBSET Jobs, Closed(R)
    PROVE  \E S \in SUBSET R : S # {} /\ Circle(S)
  <1> DEFINE Sizes == {Cardinality(S) : S \in {T \in SUBSET R : Closed(T)}}
  <1>1. \A S \in SUBSET R : IsFiniteSet(S) /\ Cardinality(S) \in Nat
    BY Runs
  <1>2. Sizes \in SUBSET Nat /\ Sizes # {}
    BY <1>1
  <1>3. PICK m \in Sizes : \A n \in Sizes : m <= n
    <2> HIDE DEF Sizes
    <2>1. QED BY <1>2, Least
  <1>4. PICK S \in SUBSET R : Closed(S) /\ m = Cardinality(S)
    OBVIOUS
  <1>5. \A T \in SUBSET R : Closed(T) => Cardinality(S) <= Cardinality(T)
    BY <1>3, <1>4
  <1> HIDE DEF Sizes
  <1> DEFINE T == {k \in S : \E j \in S : WaitsFor(j, k)}
  <1>6. T \in SUBSET S /\ T \in SUBSET R
    BY <1>4
  <1>7. Closed(T)
    BY <1>4 DEF Closed
  <1>8. T \in SUBSET S /\ Cardinality(S) <= Cardinality(T)
    BY <1>5, <1>6, <1>7
  <1>8a. \A k \in T : \E j \in S : WaitsFor(j, k)
    OBVIOUS
  <1> HIDE DEF T
  <1>9. T = S
    <2>1. /\ Cardinality(T) <= Cardinality(S)
          /\ Cardinality(S) = Cardinality(T) => S = T
      BY <1>1, <1>4, <1>8, FS_Subset
    <2>2. Cardinality(T) \in Nat /\ Cardinality(S) \in Nat
      BY <1>1, <1>4, <1>6
    <2>3. QED BY <1>8, <2>1, <2>2
  <1>10. QED BY <1>4, <1>8a, <1>9 DEF Circle, Closed

\* A run that has a row to go to and finds it free, or none, goes on.
GoesOn(j) == Running(j) /\ (job[j].list = {} \/ (job[j].next \in Ids /\ ~Locked(job[j].next)))

\* Overlapping runs take the rows in no stated order.  Whatever they hold, one of
\* them can go on or is in a circle that the database breaks; and a run that
\* overlaps no other is never stopped for it.
RunsGoOn ==
    /\ (\E j \in Jobs : Running(j)) => \E j \in Jobs : GoesOn(j) \/ (Running(j) /\ InCircle(j))
    /\ \A j \in Jobs : InCircle(j) => Running(j) /\ \E k \in Jobs \ {j} : Running(k)

\* Of the runs of the upkeep job, one goes on or is stopped by the database, however
\* many overlap and however they lock each other's rows; only overlaps stop a run.
THEOREM UpkeepGoesOn == Spec => []RunsGoOn
  <1>1. Init => AInv
    <2>1. Init => Apart
      BY DEF Init, JobIdle, Apart
    <2>2. QED BY <2>1, InitIInv DEF AInv
  <1>2. ASSUME AInv
        PROVE  RunsGoOn
    <2> USE <1>2 DEF AInv
    <2>1. \A j \in Jobs : /\ job[j].next \in First(job[j].list)
                          /\ job[j].expired \subseteq Ids /\ job[j].stamped \subseteq Ids
                          /\ job[j].list \subseteq Ids
      BY JobFields DEF IInv, NextIsListed
    <2>2. \A j \in Jobs, i \in Ids : Holds(j, i) => Running(j)
      BY DEF IInv, IdleHoldNothing, Holds
    <2>3. ASSUME NEW j \in Jobs, job[j].list # {}
          PROVE  job[j].next \in job[j].list /\ job[j].next \in Ids
      BY <2>1, <2>3 DEF First
    <2>4. ASSUME NEW j \in Jobs, NEW k \in Jobs, WaitsFor(j, k)
          PROVE  Running(j) /\ Running(k) /\ j # k
      <3>1. job[j].next \in Ids /\ Holds(k, job[j].next)
        BY <2>1, <2>4 DEF WaitsFor, Holds
      <3>2. job[j].list # {}
        <4>1. ASSUME job[j].list = {} PROVE FALSE
          <5>1. job[j].next = 0
            BY <2>1, <4>1 DEF First
          <5>2. 0 \notin Ids
            BY IdsAre DEF IInv
          <5>3. QED BY <3>1, <5>1, <5>2
        <4>2. QED BY <4>1
      <3>3. Running(j)
        BY <3>2 DEF IInv, IdleHoldNothing
      <3>4. ~Holds(j, job[j].next)
        BY <2>3, <3>2 DEF Apart
      <3>5. QED BY <2>2, <3>1, <3>3, <3>4
    <2>5. ASSUME NEW j \in Jobs, InCircle(j)
          PROVE  Running(j) /\ \E k \in Jobs \ {j} : Running(k)
      <3>1. PICK S \in SUBSET Jobs : j \in S /\ Circle(S)
        BY <2>5 DEF InCircle
      <3>2. PICK k \in S : WaitsFor(j, k)
        BY <3>1 DEF Circle
      <3>3. QED BY <2>4, <3>2
    <2>6. ASSUME NEW j \in Jobs, Running(j), \A k \in Jobs : ~GoesOn(k)
          PROVE  \E k \in Jobs : Running(k) /\ InCircle(k)
      <3> DEFINE R == {k \in Jobs : Running(k)}
      <3>1. ASSUME NEW k \in R
            PROVE  \E l \in R : WaitsFor(k, l)
        <4>1. Locked(job[k].next) /\ job[k].next \in Ids
          BY <2>3, <2>6 DEF GoesOn
        <4>2. QED BY <2>2, <4>1 DEF Locked, WaitsFor
      <3>2. R \in SUBSET Jobs /\ Closed(R)
        BY <2>6, <3>1 DEF Closed
      <3>3. \A k \in R : k \in Jobs /\ Running(k)
        OBVIOUS
      <3> HIDE DEF R
      <3>4. PICK S \in SUBSET R : S # {} /\ Circle(S)
        BY <3>2, ClosedHasCircle
      <3>5. PICK k \in S : TRUE
        BY <3>4
      <3>6. k \in Jobs /\ Running(k) /\ S \in SUBSET Jobs
        BY <3>2, <3>3
      <3>7. Locked(job[k].next)
        BY <3>4, <3>6 DEF Circle, WaitsFor, Locked
      <3>8. QED BY <3>4, <3>6, <3>7 DEF InCircle
    <2>7. QED BY <2>5, <2>6 DEF RunsGoOn
  <1>3. QED BY <1>1, <1>2, AInvStep, PTL DEF Spec

=============================================================================
