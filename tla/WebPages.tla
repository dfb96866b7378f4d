------------------------------ MODULE WebPages ------------------------------
(***************************************************************************)
(* One browser tab on one page of the web application.  The page was       *)
(* rendered from what the API answered then (seen); the API's own state    *)
(* (world) moves on, by this tab's presses and by everybody else's.  A     *)
(* press runs a server action, and the server actions of a tab run one at  *)
(* a time, in the order of the presses (queue).                            *)
(***************************************************************************)
EXTENDS Screens

CONSTANTS Pages,      \* the pages explored
          MaxQueue,   \* presses of this tab not yet answered
          MaxOthers,  \* changes made by somebody else
          MaxLosses   \* answers lost or broken, and parts of a page that do not load

VARIABLES page,    \* the page this tab is on
          world,   \* what the API holds: the viewer's role, the plan, the row
          seen,    \* what the page was last rendered with
          queue,   \* the presses not yet answered, oldest first
          shown,   \* what the tab shows: the page, the error page, ...
          told,    \* what the user was last told of a press
          unseen,  \* the components whose last effect is not on the page yet, by their flags
          others, losses

vars == <<page, world, seen, queue, shown, told, unseen, others, losses>>

Worlds(p) == [role : RolesOf(p), plan : PlansOf(p), row : RowsOf[p]]
\* What a page may be rendered with, and everything it may then offer.
Views(p) ==
  [role : RolesOf(p), plan : PlansOf(p) \cup If(p \in DOMAIN OrgRows, {"unknown"}), row : RowsOf[p]]
ControlsOf == [p \in AllPages |-> UNION {Offers(p, v) : v \in Views(p)}]
FlagsOf(controls) == {c.guard : c \in controls}
Tells(what, h) == [what |-> what, catches |-> h.control.act.catches, got |-> h.got, did |-> h.did]
NothingTold == [what |-> "nothing", catches |-> "none", got |-> "waiting", did |-> FALSE]

Init ==
  /\ page \in Pages
  /\ world \in {w \in Worlds(page) : CanOpen(page, w)}
  /\ seen \in {world} \cup Fallbacks(page, world)
  /\ queue = <<>> /\ shown = "page" /\ told = NothingTold /\ unseen = {}
  /\ others = 0 /\ losses = (IF seen = world THEN 0 ELSE 1) /\ losses <= MaxLosses

(* The API. *)
Denied(call, w) == w.role \notin call.who \/ (call.plan /\ w.plan = "no")
Conflicts(call, w) == w.row \notin DOMAIN call.does
Refuses(call, w) == Denied(call, w) \/ Conflicts(call, w)

(* The user. *)
\* Mutant: the button is enabled again when the API has done its part, before the page shows it.
GuardedUntilDone(c) ==
  \E i \in 1 .. Len(queue) : queue[i].control.guard = c.guard /\ queue[i].got = "waiting"
Guarded(c) == \E i \in 1 .. Len(queue) : queue[i].control.guard = c.guard
\* Mutant: a component that keeps its own state does not write what its action did into it.
NeverChanged(v, call) == v
Changed(v, call) == IF v.row \in DOMAIN call.does THEN [v EXCEPT !.row = call.does[@]] ELSE v

Press(c) ==
  /\ shown = "page" /\ Len(queue) < MaxQueue
  /\ c.busy => ~Guarded(c)
  /\ queue' = Append(queue, [control |-> c, got |-> "waiting", did |-> FALSE, was |-> seen.row,
                             blind |-> c.guard \in unseen])
  /\ seen' = IF c.own = "guess" THEN Changed(seen, c.act.call) ELSE seen
  /\ UNCHANGED <<page, world, shown, told, unseen, others, losses>>

\* The request reaches the API.
Serve ==
  /\ queue # <<>> /\ Head(queue).got = "waiting"
  /\ LET c == Head(queue).control
         call == c.act.call
     IN \/ /\ world.role = "suspended"
           /\ queue' = [queue EXCEPT ![1].got = "suspended"]
           /\ UNCHANGED <<world, unseen>>
        \/ /\ world.role # "suspended" /\ (Refuses(call, world) \/ c.typed)
           /\ queue' = [queue EXCEPT ![1].got = "refused"]
           /\ UNCHANGED <<world, unseen>>
        \/ /\ world.role # "suspended" /\ ~Refuses(call, world)
           /\ queue' = [queue EXCEPT ![1].got = "ok", ![1].did = TRUE]
           /\ world' = [world EXCEPT !.row = call.does[@]]
           /\ unseen' = IF world' = world THEN unseen ELSE unseen \cup {c.guard}
  /\ UNCHANGED <<page, seen, shown, told, others, losses>>

\* The request or its answer is lost, and the API client gives up after its timeout; or the API
\* breaks (a 5xx), before or after it did what it was asked.
Lose ==
  /\ queue # <<>> /\ losses < MaxLosses
  /\ Head(queue).got \in {"waiting", "ok"}
  /\ \E fate \in {"lost", "broken"} : queue' = [queue EXCEPT ![1].got = fate]
  /\ losses' = losses + 1
  /\ UNCHANGED <<page, world, seen, shown, told, unseen, others>>

(* The answer, back in the tab. *)
RenewsPage(p, c) == (Below(p) \cup {PathOf(p)}) \cap c.act.fresh # {} \/ c.after = "refresh"
Revalidates(c) == RenewsPage(page, c)
\* Revalidating another path may, or may not, render this page again with the answer.
MayRevalidate(c) == c.act.fresh # {}

\* The page is rendered again; it, or one of its parts, may not load.
Rerender(w) ==
  \/ /\ ~CanOpen(page, w)
     /\ shown' = IF w.role = "suspended" THEN "suspended" ELSE "not found"
     /\ UNCHANGED <<seen, unseen, losses>>
  \/ /\ CanOpen(page, w) /\ losses < MaxLosses
     /\ shown' = "error" /\ losses' = losses + 1
     /\ UNCHANGED <<seen, unseen>>
  \/ /\ CanOpen(page, w)
     /\ \/ seen' = w /\ losses' = losses
        \/ losses < MaxLosses /\ seen' \in Fallbacks(page, w) /\ losses' = losses + 1
     /\ unseen' = {}
     /\ shown' = "page"

Answered(c) ==
  \/ /\ shown # "page"
     \* Behind the error page the new rendering waits for its button.
     /\ IF shown = "error" /\ Revalidates(c)
        THEN /\ seen' = world /\ unseen' = {}
             /\ shown' = IF CanOpen(page, world) THEN "error" ELSE "not found"
        ELSE UNCHANGED <<seen, unseen, shown>>
     /\ UNCHANGED losses
  \/ /\ shown = "page" /\ c.after = "leave"
     /\ shown' = "left"
     /\ UNCHANGED <<seen, unseen, losses>>
  \/ /\ shown = "page" /\ c.after # "leave" /\ ~KeepsOwnState(page)
     /\ Revalidates(c) \/ MayRevalidate(c)
     /\ Rerender(world)
  \/ /\ shown = "page" /\ c.after # "leave" /\ (Revalidates(c) => KeepsOwnState(page))
     /\ seen' = IF c.own = "answer" THEN Changed(seen, c.act.call) ELSE seen
     /\ unseen' = IF c.own = "none" THEN unseen ELSE unseen \ {c.guard}
     /\ UNCHANGED <<shown, losses>>

Succeed ==
  /\ queue # <<>> /\ Head(queue).got = "ok"
  /\ LET c == Head(queue).control
     IN Answered(c) /\ told' = Tells("done", Head(queue))
  /\ queue' = Tail(queue)
  /\ UNCHANGED <<page, world, others>>

\* What the component does with a failure it is told of, and with an exception.
TakenBack(c, was) == IF c.own = "guess" THEN [seen EXCEPT !.row = was] ELSE seen

FailureTold ==
  LET h == Head(queue)
  IN /\ told' = IF h.control.thrown = "silent" THEN told ELSE Tells("failed", h)
     /\ seen' = TakenBack(h.control, h.was)
     /\ UNCHANGED shown

Thrown ==
  LET c == Head(queue).control
  IN /\ shown' = IF shown = "page" /\ c.thrown = "boundary" THEN "error" ELSE shown
     /\ told' = IF c.thrown = "told" THEN [Tells("failed", Head(queue)) EXCEPT !.catches = "all"] ELSE told
     /\ seen' = IF c.thrown = "told" THEN TakenBack(c, Head(queue).was) ELSE seen

\* Mutant: the error is not looked at before it is made an answer.
CaughtAll(h) == h.control.act.catches # "none"
\* What the API answered with an error status is one class of exception, whichever the status.
Caught(h) == h.control.act.catches = "all"
             \/ (h.control.act.catches = "api" /\ h.got \in {"refused", "broken"})

\* Mutant: the API client has no timeout, and a lost answer is waited for for ever.
FailUnlessLost ==
  IF queue # <<>> /\ Head(queue).got = "lost" THEN UNCHANGED vars
  ELSE /\ queue # <<>> /\ Head(queue).got \in {"refused", "broken"}
       /\ IF Caught(Head(queue)) THEN FailureTold ELSE Thrown
       /\ queue' = Tail(queue)
       /\ UNCHANGED <<page, world, unseen, others, losses>>
Fail ==
  /\ queue # <<>> /\ Head(queue).got \in {"refused", "lost", "broken"}
  /\ IF Caught(Head(queue)) THEN FailureTold ELSE Thrown
  /\ queue' = Tail(queue)
  /\ UNCHANGED <<page, world, unseen, others, losses>>

\* A suspended account is sent to its own page, unless the action catches the redirect too.
Suspend ==
  /\ queue # <<>> /\ Head(queue).got = "suspended"
  /\ IF Caught(Head(queue)) THEN FailureTold
     ELSE shown' = "suspended" /\ UNCHANGED <<told, seen>>
  /\ queue' = Tail(queue)
  /\ UNCHANGED <<page, world, unseen, others, losses>>

\* The error page's button renders the same page again, with what it was rendered with.
TryAgain ==
  /\ shown = "error" /\ queue = <<>>
  /\ shown' = "page"
  /\ UNCHANGED <<page, world, seen, queue, told, unseen, others, losses>>

Reload ==
  /\ shown \in {"page", "error"} /\ queue = <<>> /\ ~(seen = world /\ shown = "page")
  /\ Rerender(world)
  /\ UNCHANGED <<page, world, queue, told, others>>

\* Somebody else: a role given or taken, the plan, the row itself.
Other ==
  /\ others < MaxOthers
  /\ world' \in {w \in Worlds(page) : w # world}
  /\ Cardinality({f \in {"role", "plan", "row"} : world'[f] # world[f]}) = 1
  /\ others' = others + 1
  /\ UNCHANGED <<page, seen, queue, shown, told, unseen, losses>>

\* A search on a board: the same page at another address.
Search ==
  /\ page \in Boards /\ shown = "page" /\ queue = <<>>
  /\ world' = [world EXCEPT !.row = IF @ = "many" THEN "one" ELSE "many"]
  /\ IF page \in KeyedByQuery \/ ~CanOpen(page, world) THEN Rerender(world')
     ELSE UNCHANGED <<seen, unseen, shown, losses>>
  /\ UNCHANGED <<page, queue, told, others>>

Done == queue = <<>> /\ UNCHANGED vars

Next ==
  \/ \E c \in Offers(page, seen) : Press(c)
  \/ Serve \/ Lose \/ Succeed \/ Fail \/ Suspend \/ TryAgain \/ Reload \/ Search \/ Other \/ Done

Spec == Init /\ [][Next]_vars /\ WF_vars(Serve) /\ WF_vars(Succeed) /\ WF_vars(Fail) /\ WF_vars(Suspend)

(* What the tables of the pages have in common.  TLC goes through all of them. *)
Catches == {"none", "api", "all"}
CallsStayOnThePage(p) ==
  \A c \in ControlsOf[p] : \A r \in RowsOf[p] \cap DOMAIN c.act.call.does : c.act.call.does[r] \in RowsOf[p]
BoardsAreLists(p) == p \in Boards => {"one", "many"} \subseteq RowsOf[p]

\* Two pages do not take up all their changes: they go on showing the list they were first given.
NotRefreshed == {"affiliations", "roles"}
\* The controls that may change the row.
Changing(p) == {c \in ControlsOf[p] : \E r \in RowsOf[p] \cap DOMAIN c.act.call.does : c.act.call.does[r] # r}
\* The page is rendered again with them, or its component writes them into its own state.
ChangesAreShown(p) ==
  \A c \in Changing(p) :
    c.after = "leave" \/ (IF KeepsOwnState(p) THEN c.own # "none" ELSE RenewsPage(p, c))
\* The API can refuse it, and then the page is replaced by the error page.
MayBreak(p, c) ==
  /\ c.thrown = "boundary" /\ c.act.catches = "none"
  /\ c.typed \/ \E w \in Worlds(p) : w.role # "suspended" /\ Refuses(c.act.call, w)
\* What is done behind an error page is rendered before its button is pressed.
BreakablePagesRenew(p) == (\E c \in ControlsOf[p] : MayBreak(p, c)) => \A c \in Changing(p) : RenewsPage(p, c)
\* A page that guesses has one flag for all its buttons, and hears of every failure.
GuessesAreAlone(p) ==
  \A c, d \in ControlsOf[p] : c.own = "guess" =>
    /\ d.busy /\ d.guard = c.guard /\ d.own = "guess" /\ d.act.catches = "all"
    /\ KeepsOwnState(p) /\ p \notin Boards

ASSUME BoundsAssumption == Pages \subseteq AllPages /\ {MaxQueue, MaxOthers, MaxLosses} \subseteq Nat
ASSUME TablesAssumption ==
  \A p \in AllPages :
    /\ CallsStayOnThePage(p) /\ BoardsAreLists(p)
    /\ \A c \in ControlsOf[p] : c.act.catches \in Catches /\ c.own \in {"none", "answer", "guess"}
    /\ p \notin NotRefreshed =>
         ChangesAreShown(p) /\ BreakablePagesRenew(p) /\ GuessesAreAlone(p)

Answers == {"waiting", "ok", "refused", "suspended", "lost", "broken"}
Presses(p) ==
  [control : ControlsOf[p], got : Answers, did : BOOLEAN, was : RowsOf[p], blind : BOOLEAN]

\* Every variable has its type: the API's state and what the page was rendered with stay within what
\* the page is about, a press is of a control the page can offer, and no bound is passed.
TypeOK ==
  /\ page \in Pages /\ world \in Worlds(page) /\ seen \in Views(page)
  /\ queue \in Seq(Presses(page)) /\ Len(queue) <= MaxQueue
  /\ shown \in {"page", "error", "left", "not found", "suspended"}
  /\ told \in [what : {"nothing", "done", "failed"}, catches : Catches, got : Answers, did : BOOLEAN]
  /\ unseen \subseteq FlagsOf(ControlsOf[page])
  /\ others \in 0 .. MaxOthers /\ losses \in 0 .. MaxLosses

\* A page that shows what the API holds offers only what the API will do: no button whose answer
\* can only be a refusal, whoever looks and whatever state the row is in, but for the exceptions
\* named here.  The conditions of the components and the permissions of the views are written
\* twice, in two languages.
\* Two pages never read the organisation's plan and do offer what is answered 402.
PlanBlind == {"access", "my membership"}
\* These components never ask for the state of their row: a role already applied to, a link that
\* ended, a free year already had, the only owner of a team.
StateBlind == {"applyToJob", "applyToPublicJob", "acceptInvite", "confirmSignIn", "redeemCode", "removeMember"}
\* These forms ask whom or what they are about: the row is known once it is typed.
NamesItsRow == {"addTeamMember", "inviteTeamMember", "createAffiliation"}
OffersAreAllowed ==
  shown = "page" /\ seen = world /\ ~(page \in PlanBlind /\ world.plan = "no") =>
    \A c \in Offers(page, seen) :
      /\ ~Denied(c.act.call, world)
      /\ c.act.name \notin StateBlind \cup NamesItsRow => ~Conflicts(c.act.call, world)

\* What the user is told is so: what was said done was done, and what was said to have failed was
\* not done, except where the API itself broke after it had done it, and by the actions that make
\* any exception an answer, a lost answer with it.
ToldTruly == (told.what = "done" => told.did)
             /\ (told.what = "failed" /\ told.did => told.catches = "all" \/ told.got = "broken")

\* When everything pressed is answered and nobody else changed anything, the page shows what the API
\* holds: every action revalidates the page it is used on, or its component writes the change into
\* its own state, but for the two pages of NotRefreshed.
SettledPageIsCurrent ==
  page \notin NotRefreshed /\ shown = "page" /\ queue = <<>> /\ others = 0 /\ losses = 0 => seen = world

\* A component shows what its last press did before it can be pressed again, so that it is pressed
\* twice only by somebody who sees what the first press did, or was told that it failed.  Buttons
\* that nothing disables are left out: two presses of theirs are both meant.  So is another form
\* for the same action, and a form that was closed and opened again: it has a flag of its own.
NoBlindRepeat ==
  page \notin NotRefreshed => \A i \in 1 .. Len(queue) : queue[i].control.busy /\ queue[i].blind => losses > 0

AllAnswered == []<>(queue = <<>>) \/ []<><<Len(queue') < Len(queue)>>_vars
=============================================================================
