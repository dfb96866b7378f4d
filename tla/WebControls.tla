---------------------------- MODULE WebControls ----------------------------
(***************************************************************************)
(* The vocabulary of the pages' models.                                    *)
(*                                                                         *)
(* A call is what the API does with one request: who may make it, whether  *)
(* it needs the organisation's plan (on the pages of people: the profile's *)
(* rung of its ladder), and what it does to the one row a page's model is  *)
(* about (its domain: the states of the row it accepts).                   *)
(*                                                                         *)
(* An action is a server action of the front end: the call it makes, which *)
(* of the call's failures it turns into an answer ("api": what the API     *)
(* refused; "all": anything thrown; "none": nothing), and the pages it     *)
(* revalidates before it answers.                                          *)
(*                                                                         *)
(* A control is what a component puts on the page: the action it runs and  *)
(* what surrounds the press.                                               *)
(***************************************************************************)
EXTENDS Naturals, Sequences, FiniteSets, TLC

\* The states of the row a page is about.
Rows == {"none", "one", "many", "draft", "ready", "live", "saved", "open", "closed",
         "pending", "claimed", "added", "verified", "disputed", "settled", "new",
         "answered", "here", "stripe", "warning", "sent", "received", "connected",
         "hidden", "off", "liked", "passed", "sending", "settled one", "settled stripe", "gone",
         "sole owner"}

Call(who, plan, does) == [who |-> who, plan |-> plan, does |-> does]

\* An effect that leaves the row as it is, in whatever state.
Keeps == [s \in Rows |-> s]
\* One more row; one row fewer.
Adds == ("none" :> "one") @@ ("one" :> "many") @@ ("many" :> "many")
Drops == ("one" :> "none") @@ ("many" :> "one")
\* A removal that does not look whether there was anything to remove.
DropsIfAny == Drops @@ ("none" :> "none")

Action(name, call, catches, fresh) ==
  [name |-> name, call |-> call, catches |-> catches, fresh |-> fresh]

\* A button that is disabled while its request is under way, by a flag of the component that mounts
\* it: the flag is named after the action ("of") and the place the component is mounted at ("at").
Button(action) ==
  [act |-> action, busy |-> TRUE, guard |-> [of |-> action.name, at |-> "the page"], typed |-> FALSE,
   thrown |-> "boundary", own |-> "none", after |-> "stay"]
\* Buttons disabled by one flag: pressing any of them disables them all.
Together(flag, controls) == {[c EXCEPT !.guard.of = flag] : c \in controls}
\* Components that run the same action in two places of a page have two flags.
At(place, controls) == {[c EXCEPT !.guard.at = place] : c \in controls}
\* The same on a form whose content the API may refuse whatever the row's state.
Form(action) == [Button(action) EXCEPT !.typed = TRUE]
\* <form action={...}> or a transition with a plain button: nothing stops a second press.
Bare(action) == [Button(action) EXCEPT !.busy = FALSE]
BareForm(action) == [Form(action) EXCEPT !.busy = FALSE]

\* The component writes the effect into its own state when the answer arrives, or already
\* when it is pressed, taking it back if the answer is a refusal.
OnAnswer(control) == [control EXCEPT !.own = "answer"]
Guess(control) == [control EXCEPT !.own = "guess"]
\* The answer is followed by another page, or by a new rendering of this one.
Leaves(control) == [control EXCEPT !.after = "leave"]
Refreshes(control) == [control EXCEPT !.after = "refresh"]
\* What an exception does where no error boundary sees it: the user is told, or nobody is.
TellsUser(control) == [control EXCEPT !.thrown = "told"]
Silent(control) == [control EXCEPT !.thrown = "silent"]

\* The controls of a part shown only under a condition.
If(condition, controls) == IF condition THEN controls ELSE {}
=============================================================================
