----------------------------- MODULE TeamInvites -----------------------------
(***************************************************************************)
(* The life of a team invite (affiliations/team_invites.py): the only      *)
(* place that emails people who never asked.  The module follows the       *)
(* invites of one organisation; nothing in the code relates those of two,  *)
(* besides the upkeep job, which takes them all.                           *)
(*                                                                         *)
(* Inviting runs in its request's transaction and emails after the commit. *)
(* Accepting, declining and reporting lock the invite's row, so each is    *)
(* one step once it has the lock.  The upkeep job is one request           *)
(* (orgs/middleware.py:68), hence one transaction: nobody sees what it     *)
(* wrote until it ends, the rows it wrote stay locked, and the emails it   *)
(* sent are gone whether it commits or not.                                *)
(***************************************************************************)
EXTENDS Naturals, Sequences, FiniteSets

CONSTANTS
    Emails,       \* normalized addresses somebody may invite
    Requests,     \* invitations being posted at the same time
    Jobs,         \* runs of the upkeep job that may overlap (cron, by hand)
    MaxPerDay,    \* TeamInvite.MAX_PER_DAY
    MaxPerWeek,   \* TeamInvite.MAX_PER_WEEK
    MaxInvites,   \* bound: rows ever created
    MaxReports,   \* bound: reports made
    MaxOverlaps,  \* bound: runs of the job started while another was running
    MaxAborts     \* bound: runs and requests that stop half way, out of a circle

ASSUME LimitsAssumption ==
    /\ MaxPerDay \in Nat \ {0} /\ MaxPerWeek \in Nat \ {0}
    /\ MaxInvites \in Nat /\ MaxReports \in Nat
    /\ MaxOverlaps \in Nat /\ MaxAborts \in Nat
ASSUME EmailsAssumption == "" \notin Emails
ASSUME WorkersAssumption == IsFiniteSet(Requests) /\ IsFiniteSet(Jobs)

VARIABLES
    accounts,    \* addresses with an account
    optOuts,     \* database: TeamInviteOptOut rows of this organisation
    invites,     \* database: TeamInvite rows, by pk
    verified,    \* database: affiliations each address has from an invite
    complaint,   \* the report on each invite (TeamInviteReport, once filed)
    request,     \* what each invitation being posted is at
    job,         \* what each run of the upkeep job is doing
    invited,     \* invites an email of which is sent, the first one or a reminder
    reminders,   \* reminders sent to each address
    overlaps,
    aborts

mail == <<invited, reminders>>
vars == <<accounts, optOuts, invites, verified, complaint, request, job, mail,
          overlaps, aborts>>

-----------------------------------------------------------------------------
\* How long ago the invite was created: within a day, three days (when the
\* reminder is due), a week, and past its 30 days (expires_at).
Ages == 0..3
ReminderAge == 1
ExpiredAge == 3
Answers == {"open", "accepted", "declined", "expired"}
\* `to` is the address the invite was made for; `email` the column, cleared
\* when the invite closes.
InviteRows == [to : Emails, email : Emails \cup {""}, answer : Answers,
               age : Ages, reminded : BOOLEAN]
Ids == DOMAIN invites
NoComplaint == [pc |-> "none", email |-> "", held |-> FALSE]
Idle == [pc |-> "idle"]
JobIdle == [pc |-> "idle", expired |-> {}, stamped |-> {}, list |-> {}, next |-> 0]
\* `list` is what the loop has left, and `next` the row it is at, if any.
JobStates == [pc : {"idle", "running"}, expired : SUBSET Ids,
              stamped : SUBSET Ids, list : SUBSET Ids, next : Ids \cup {0}]

TypeOK ==
    /\ accounts \subseteq Emails /\ optOuts \subseteq Emails
    /\ invites \in Seq(InviteRows)
    /\ verified \in [Emails -> Nat]
    /\ complaint \in [1..MaxInvites ->
           [pc : {"none", "read", "filed"}, email : Emails \cup {""},
            held : BOOLEAN]]
    /\ request \in [Requests -> [pc : {"idle"}]
           \cup [pc : {"allowed", "counted"}, email : Emails]
           \cup [pc : {"saved"}, id : 1..MaxInvites]]
    /\ job \in [Jobs -> JobStates]
    /\ invited \subseteq Ids
    /\ reminders \in [Emails -> Nat]
    /\ overlaps \in 0..MaxOverlaps
    /\ aborts \in Nat

Init ==
    /\ accounts = {} /\ optOuts = {}
    /\ invites = <<>>
    /\ verified = [e \in Emails |-> 0]
    /\ complaint = [i \in 1..MaxInvites |-> NoComplaint]
    /\ request = [r \in Requests |-> Idle]
    /\ job = [j \in Jobs |-> JobIdle]
    /\ invited = {}
    /\ reminders = [e \in Emails |-> 0]
    /\ overlaps = 0 /\ aborts = 0

\* No answer yet, whatever the date; and TeamInvite.is_open.
Unanswered(i) == invites[i].answer = "open"
IsOpen(i) == Unanswered(i) /\ invites[i].age < ExpiredAge

\* A run of the job keeps the rows it wrote locked until its request ends.
Holds(j, i) == i \in job[j].expired \cup job[j].stamped
Locked(i) == \E j \in Jobs : Holds(j, i)

\* Its loop waits for the row it is at; PostgreSQL stops a run of a circle.
WaitsFor(j, k) == Holds(k, job[j].next)
Circle(S) == \A j \in S : (\E k \in S : WaitsFor(j, k)) /\ (\E k \in S : WaitsFor(k, j))
InCircle(j) == Locked(job[j].next) /\ \E S \in SUBSET Jobs : j \in S /\ Circle(S)

\* Whoever has the link had one of the emails.
HasLink(i) == i \in invited

-----------------------------------------------------------------------------
(* Time, and people *)

\* Rows grow old in the order they were created in.
TimePasses(i) ==
    /\ invites[i].age < ExpiredAge
    /\ \A k \in 1..(i - 1) : invites[k].age > invites[i].age
    /\ invites' = [invites EXCEPT ![i].age = @ + 1]
    /\ UNCHANGED <<accounts, optOuts, verified, complaint, request, job, mail,
                   overlaps, aborts>>

SignUp(e) ==
    /\ e \notin accounts
    /\ accounts' = accounts \cup {e}
    /\ UNCHANGED <<optOuts, invites, verified, complaint, request, job, mail,
                   overlaps, aborts>>

-----------------------------------------------------------------------------
(* invite_team_member *)

\* Mutant: the opt-out is left to the sending of the email.
AnyStranger(e) == e \notin accounts
\* Somebody with an account takes the in-app flow instead, and an address that
\* opted out is answered as if the invite had been sent.
MayBeInvited(e) == e \notin accounts /\ e \notin optOuts

Invite(r, e) ==
    /\ request[r].pc = "idle"
    /\ MayBeInvited(e)
    /\ request' = [request EXCEPT ![r] = [pc |-> "allowed", email |-> e]]
    /\ UNCHANGED <<accounts, optOuts, invites, verified, complaint, job, mail,
                   overlaps, aborts>>

\* Mutant: <= for <.
OneMoreThan(max, age) == Cardinality({i \in Ids : invites[i].age <= age}) <= max
\* _quota_left: the rows created lately, whatever became of them.
QuotaLeft(max, age) == Cardinality({i \in Ids : invites[i].age <= age}) < max

CountInvites(r) ==
    /\ request[r].pc = "allowed"
    /\ request' = [request EXCEPT
           ![r] = IF QuotaLeft(MaxPerDay, 0) /\ QuotaLeft(MaxPerWeek, 1)
                    THEN [pc |-> "counted", email |-> request[r].email] ELSE Idle]
    /\ UNCHANGED <<accounts, optOuts, invites, verified, complaint, job, mail,
                   overlaps, aborts>>

\* uniq_open_team_invite, checked by the insert.
HasUnanswered(e) == \E i \in Ids : invites[i].email = e /\ Unanswered(i)

CreateInvite(r) ==
    /\ request[r].pc = "counted"
    /\ Len(invites) < MaxInvites
    /\ LET e == request[r].email IN
       IF HasUnanswered(e)
         THEN /\ request' = [request EXCEPT ![r] = Idle]
              /\ UNCHANGED invites
         ELSE /\ invites' = Append(invites, [to |-> e, email |-> e,
                                             answer |-> "open", age |-> 0,
                                             reminded |-> FALSE])
              /\ request' = [request EXCEPT
                                ![r] = [pc |-> "saved", id |-> Len(invites) + 1]]
    /\ UNCHANGED <<accounts, optOuts, verified, complaint, job, mail,
                   overlaps, aborts>>

\* on_commit: the email, composed from the object the request still holds.
SendInvite(r) ==
    /\ request[r].pc = "saved"
    /\ invited' = invited \cup {request[r].id}
    /\ request' = [request EXCEPT ![r] = Idle]
    /\ UNCHANGED <<accounts, optOuts, invites, verified, complaint, job,
                   reminders, overlaps, aborts>>

\* The worker stops between the commit and the email.
RequestCrash(r) ==
    /\ request[r].pc = "saved"
    /\ aborts < MaxAborts
    /\ aborts' = aborts + 1
    /\ request' = [request EXCEPT ![r] = Idle]
    /\ UNCHANGED <<accounts, optOuts, invites, verified, complaint, job, mail,
                   overlaps>>

-----------------------------------------------------------------------------
(* The answers *)

Close(i, answer) ==
    [invites EXCEPT ![i] = [invites[i] EXCEPT !.answer = answer, !.email = ""]]

\* Mutant: the invite is read before its row is locked, and not again after.
WasOpen(i) == invites[i].age < ExpiredAge
StillOpen(i) == IsOpen(i)

\* accept_team_invite, by the person whose account has the invite's address:
\* a verified affiliation, and the invite is answered.
Accept(i) ==
    /\ HasLink(i) /\ ~Locked(i)
    /\ StillOpen(i)
    /\ invites[i].to \in accounts
    /\ verified' = [verified EXCEPT ![invites[i].to] = @ + 1]
    /\ invites' = Close(i, "accepted")
    /\ UNCHANGED <<accounts, optOuts, complaint, request, job, mail, overlaps,
                   aborts>>

\* decline_team_invite: a link is enough.  The opt-out is written as long as
\* the row still has its address, even past its 30 days.  (One that finds neither
\* an open invite nor an address to block changes nothing.)
Decline(i, block) ==
    /\ IsOpen(i) \/ (block /\ invites[i].email # "")
    /\ HasLink(i) /\ ~Locked(i)
    /\ invites' = IF IsOpen(i) THEN Close(i, "declined") ELSE invites
    /\ optOuts' = IF block THEN optOuts \cup ({invites[i].email} \ {""})
                  ELSE optOuts
    /\ UNCHANGED <<accounts, verified, complaint, request, job, mail, overlaps,
                   aborts>>

\* report_team_invite reads the address before it declines ...
ReportReads(i) ==
    /\ HasLink(i)
    /\ complaint[i].pc = "none"
    /\ Cardinality({k \in Ids : complaint[k].pc # "none"}) < MaxReports
    /\ complaint' = [complaint EXCEPT ![i] =
           [pc |-> "read", email |-> invites[i].email,
            held |-> invites[i].email # ""]]
    /\ UNCHANGED <<accounts, optOuts, invites, verified, request, job, mail,
                   overlaps, aborts>>

\* Mutants: the address is read off the row when the invite has been declined;
\* or a row is written for a cleared address.
AddressAfter(i) == {invites'[i].email} \ {""}
AnyAddress(i) == {complaint[i].email}
AddressRead(i) == {complaint[i].email} \ {""}

\* ... since declining clears it, and blocks with what it read.
ReportFiles(i) ==
    /\ complaint[i].pc = "read" /\ ~Locked(i)
    /\ invites' = IF IsOpen(i) THEN Close(i, "declined") ELSE invites
    /\ optOuts' = optOuts \cup AddressRead(i)
    /\ complaint' = [complaint EXCEPT ![i].pc = "filed"]
    /\ UNCHANGED <<accounts, verified, request, job, mail, overlaps, aborts>>

-----------------------------------------------------------------------------
(* team_invite_upkeep *)

Running(j) == job[j].pc = "running"

\* Mutants: rows somebody answered are closed again; rows nobody reminded are
\* left alone.
PastTheirDate == {i \in Ids : invites[i].age = ExpiredAge}
RemindedOnly == {i \in Ids : Unanswered(i) /\ invites[i].age = ExpiredAge
                                           /\ invites[i].reminded}
\* expire_invites: past their 30 days with no answer.
Stale == {i \in Ids : Unanswered(i) /\ invites[i].age = ExpiredAge}

\* Mutant: reminded invites are listed again.
DueAgain == {i \in Ids : IsOpen(i) /\ invites[i].age >= ReminderAge}
\* send_due_reminders: the list is read once.
Due == {i \in Ids : IsOpen(i) /\ ~invites[i].reminded
                              /\ invites[i].age >= ReminderAge}
\* The query asks for no order, so any row of the list may be the next.
First(list) == IF list = {} THEN {0} ELSE list

\* Expiry first, then the list.  The update waits for a row another run has
\* written.  (A run that finds nothing to do changes nothing.)
JobStart(j) ==
    /\ ~Running(j)
    /\ Stale \cup Due # {}
    /\ \A i \in Stale : ~Locked(i)
    /\ LET overlap == \E k \in Jobs : Running(k) IN
       /\ overlap => overlaps < MaxOverlaps
       /\ overlaps' = IF overlap THEN overlaps + 1 ELSE overlaps
    /\ \E n \in First(Due) :
          job' = [job EXCEPT ![j] = [pc |-> "running", expired |-> Stale,
                                     stamped |-> {}, list |-> Due, next |-> n]]
    /\ UNCHANGED <<accounts, optOuts, invites, verified, complaint, request,
                   mail, aborts>>

\* reminded_at is saved, whatever the row has become, then the email goes to
\* the address that was read with the list.
JobRemind(j, i) ==
    /\ Running(j)
    /\ i = job[j].next /\ ~Locked(i)
    /\ \E n \in First(job[j].list \ {i}) :
          job' = [job EXCEPT ![j] = [job[j] EXCEPT !.list = job[j].list \ {i}, !.next = n,
                                                   !.stamped = job[j].stamped \cup {i}]]
    /\ invited' = invited \cup {i}
    /\ reminders' = [reminders EXCEPT ![invites[i].to] = @ + 1]
    /\ UNCHANGED <<accounts, optOuts, invites, verified, complaint, request,
                   overlaps, aborts>>

Stamped(j, i) == i \in job[j].stamped

JobCommit(j) ==
    /\ Running(j)
    /\ job[j].list = {}
    /\ invites' = [i \in Ids |->
           LET closed == i \in job[j].expired IN
           [invites[i] EXCEPT !.answer = IF closed THEN "expired" ELSE @,
                              !.email = IF closed THEN "" ELSE @,
                              !.reminded = @ \/ Stamped(j, i)]]
    /\ job' = [job EXCEPT ![j] = JobIdle]
    /\ UNCHANGED <<accounts, optOuts, verified, complaint, request, mail,
                   overlaps, aborts>>

\* The worker is killed (gunicorn --timeout 90, a deploy), or the run was waiting
\* in a circle: what it wrote is undone, its emails are not.
JobCrash(j) ==
    /\ Running(j)
    /\ aborts >= MaxAborts => InCircle(j)
    /\ aborts' = aborts + 1
    /\ job' = [job EXCEPT ![j] = JobIdle]
    /\ UNCHANGED <<accounts, optOuts, invites, verified, complaint, request,
                   mail, overlaps>>

-----------------------------------------------------------------------------
RequestStep(r) ==
    \/ CountInvites(r) \/ CreateInvite(r) \/ SendInvite(r) \/ RequestCrash(r)
    \/ \E e \in Emails : Invite(r, e)

Answer(i) ==
    \/ Accept(i) \/ Decline(i, FALSE) \/ Decline(i, TRUE)
    \/ ReportReads(i) \/ ReportFiles(i)

JobWork(j) == JobCommit(j) \/ \E i \in Ids : JobRemind(j, i)
JobStep(j) == JobStart(j) \/ JobWork(j) \/ JobCrash(j)

Next ==
    \/ \E e \in Emails : SignUp(e)
    \/ \E r \in Requests : RequestStep(r)
    \/ \E i \in Ids : TimePasses(i) \/ Answer(i)
    \/ \E j \in Jobs : JobStep(j)

Spec == Init /\ [][Next]_vars

\* The workflow posts the job every day, a worker finishes what it started, and
\* PostgreSQL breaks a circle (deadlock_timeout).
Fairness ==
    \A j \in Jobs : /\ WF_vars(JobStart(j))
                    /\ WF_vars(JobWork(j) \/ (InCircle(j) /\ JobCrash(j)))
FairSpec == Spec /\ Fairness

-----------------------------------------------------------------------------
\* accept_team_invite: an affiliation accepted through an invite is the person's
\* explicit consent.  Each verified affiliation an address has is one invite to
\* it that was accepted, and stays accepted, whatever double clicks, declines
\* and expiries it raced with.
VerifiedByConsent ==
    \A e \in Emails :
        verified[e] = Cardinality({i \in Ids : invites[i].to = e
                                               /\ invites[i].answer = "accepted"})

\* The promise of Invitation, seen from these rows: whatever the locks, links,
\* reports, crashes and overlapping runs of the job, it is as if each invite were
\* offered, answered, blocked or given up in one step.
Promised == [i \in Ids |-> [to |-> invites[i].to, email |-> invites[i].email,
                            answer |-> invites[i].answer]]
IV == INSTANCE Invitation WITH invites <- Promised
InvitationPromise == IV!Spec

\* Of what is promised, the part people notice: an answered invite keeps its
\* answer, and no longer has an address.
AnswerIsFinal ==
    [][\A i \in Ids : ~Unanswered(i) =>
          invites'[i].answer = invites[i].answer /\ invites'[i].email = ""]_vars

\* A request in flight for an address.
IsFor(r, e) ==
    \/ request[r].pc \in {"allowed", "counted"} /\ request[r].email = e
    \/ request[r].pc = "saved" /\ invites[request[r].id].to = e

\* Once an address has opted out and what was already in flight for it is
\* over (a request that had passed the check, an unanswered invite, a list
\* already read), the organisation never reaches it again.
Settled(e) ==
    /\ e \in optOuts
    /\ \A r \in Requests : ~IsFor(r, e)
    /\ \A i \in Ids : invites[i].to = e =>
          ~Unanswered(i) /\ \A j \in Jobs : i \notin job[j].list
OptOutIsFinal ==
    [][\A e \in Emails : Settled(e) =>
          /\ Settled(e)'
          /\ reminders'[e] = reminders[e]
          /\ \A i \in Ids' : invites'[i].to = e =>
                i \in Ids /\ (i \in invited' => i \in invited)]_vars

\* "A report that recorded the complaint but lost the block would be the worst
\* of the three outcomes": a report filed on an invite that still had its
\* address blocks that address, whatever closed the invite meanwhile.
ReportBlocks ==
    \A i \in Ids :
        complaint[i].pc = "filed" /\ complaint[i].held => invites[i].to \in optOuts

\* An address gets at most one reminder for each time it was invited, and one
\* more for each run of the job that did not commit or that overlapped another,
\* whichever of its invites these had listed.  ("At most one reminder, ever, per
\* address per org" the code does not keep: an address that has answered, or let
\* thirty days pass, may be invited, and reminded, again.)
InvitesTo(e) == {i \in Ids : invites[i].to = e}
RemindersAreBounded ==
    \A e \in Emails : reminders[e] <= Cardinality(InvitesTo(e)) + aborts + overlaps

\* The quotas of the day and of the week are read before the insert, so requests
\* in flight together go over each of them, by less than their number.
WithinReach(max, age) ==
    Cardinality({i \in Ids : invites[i].age <= age}) < max + Cardinality(Requests)
QuotasAreBounded == WithinReach(MaxPerDay, 0) /\ WithinReach(MaxPerWeek, 1)

\* "An address that was invited and ignored for thirty days leaves no record
\* of having been invited": there is always a moment to come at which no row past
\* its thirty days has its address.  (A cleared address does not come back.)
EveryAddressForgotten ==
    []<>(\A i \in Ids : invites[i].age = ExpiredAge => invites[i].email = "")

=============================================================================
