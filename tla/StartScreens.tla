---------------------------- MODULE StartScreens ----------------------------
(***************************************************************************)
(* Where somebody comes in: signing in, the steps after signing up, the    *)
(* links that lead into a team, the page that opens an organisation, and   *)
(* the link that ends the newsletter.                                      *)
(***************************************************************************)
EXTENDS PeopleScreens

Visitor == {"out"}

(* What the API does. *)
\* A new code replaces the last; the right code, and the emailed link, work once.
SendCode == Call(Visitor, FALSE, ("none" :> "sent") @@ ("sent" :> "sent"))
TakeCode == Call(Visitor, FALSE, "sent" :> "none")
PutIdentity == Call(Viewer, FALSE, [s \in {"none", "saved"} |-> "saved"])
PutIntents == Call(Viewer, FALSE, Keeps)
PostRole == Call(Viewer, FALSE, Keeps)
CompleteOnboarding == Call(Viewer, FALSE, Keeps)
\* Only the address that was invited accepts; the link alone says no, or complains.
AcceptInvite == Call(Viewer, FALSE, "open" :> "added")
DeclineInvite == Call(Viewer \cup {"out"}, FALSE,
                      [s \in {"open", "added", "closed"} |-> IF s = "open" THEN "closed" ELSE s])
ReportInviteCall == DeclineInvite
\* Joining twice is joining once; a link that ended adds nobody.
AcceptOrgInvite == Call(Viewer, FALSE, ("open" :> "added") @@ ("added" :> "added"))
PostOrganisation == Call(Viewer, FALSE, Adds)
GetCode == Call(Viewer, FALSE, Keeps)
EndNewsletter == Call(Viewer, FALSE, DropsIfAny)

(* The server actions. *)
SendSignInLinkAction == Action("sendSignInLink", SendCode, "all", {})
VerifySignInCodeAction == Action("verifySignInCode", TakeCode, "all", {})
ConfirmSignInAction == Action("confirmSignIn", TakeCode, "all", {})
SaveIdentityAction == Action("saveIdentity", PutIdentity, "api", {})
SaveIntentsAction == Action("saveIntents", PutIntents, "api", {})
\* Without a company and a role, or with an impossible date, no call is made.
AddExperienceAction == Action("addExperience", PostRole, "api", {})
\* A refusal is answered with the feed all the same.
FinishOnboardingAction == Action("finishOnboarding", CompleteOnboarding, "none", {})
FollowSuggestion == Action("followSuggestion", FollowOrg, "all", {})
ConnectWithPersonAction == Action("connectWithPerson", SendRequest, "all", {})
AcceptTeamInvite == Action("acceptTeamInvite", AcceptInvite, "api", {"everything"})
DeclineTeamInvite == Action("declineTeamInvite", DeclineInvite, "api", {})
ReportTeamInvite == Action("reportTeamInvite", ReportInviteCall, "api", {})
AcceptInviteAction == Action("acceptInvite", AcceptOrgInvite, "api", {"everything"})
CreateOrganisation ==
  Action("createOrganisation", PostOrganisation, "all", {"feed", "dashboard", "profile", "cofounder"})
CheckCode == Action("checkCode", GetCode, "all", {})
Unsubscribe == Action("unsubscribe", EndNewsletter, "all", {})

(* Signing in.  "Start again" is a reload, so that the address may be given again after a
   code was sent; a link opened elsewhere asks for the address only. *)
EmailLinkForm(mode, v) ==
  IF mode = "confirm" THEN {Leaves(Form(ConfirmSignInAction))}
  ELSE Together("sign in", {OnAnswer(Form(SendSignInLinkAction))}
                             \cup If(v.row = "sent", {Leaves(Form(VerifySignInCodeAction))}))

(* The steps: each is a form whose answer is the next one.  The steps after the first ask for it. *)
IdentityForm == {Leaves(Form(SaveIdentityAction))}
IntentsForm == {Leaves(Form(SaveIntentsAction))}
ExperienceStep == {Leaves(Form(AddExperienceAction))}
FinishForm == {Leaves(Button(FinishOnboardingAction))}
OnboardingPage(v) ==
  IdentityForm \cup If(v.row = "saved", IntentsForm \cup ExperienceStep \cup FinishForm)
OrgCard(v) == If(v.row = "none", {OnAnswer(Bare(FollowSuggestion))})
PersonCard(v) == If(v.row = "none" /\ v.plan = "yes", {OnAnswer(Bare(ConnectWithPersonAction))})

\* The list remembers one busy card: pressing another gives the first its button back.
SuggestionsStep(kind, v) ==
  (IF kind = "organisation" THEN OrgCard(v) ELSE PersonCard(v)) \cup FinishForm

(* The link to a team: the page shows its form to whoever opens it. *)
AcceptInviteForm == {Leaves(Button(AcceptInviteAction))}

(* The invite: anybody who holds the link may decline, whoever signed in may accept. *)
ReportInvite == {Leaves(Form(ReportTeamInvite))}
\* The answer has two faces, and the report form is mounted anew in each.
TeamInviteAnswer(v) ==
  If(v.role = "me", {Leaves(Form(AcceptTeamInvite))}) \cup At("accepting", ReportInvite)
    \cup {Refreshes(Form(DeclineTeamInvite))} \cup At("declining", ReportInvite)
TeamInvitePage(v) == IF v.row = "open" THEN TeamInviteAnswer(v) ELSE ReportInvite

\* The code is looked at when it is typed, and again when the form is sent.
OrgOnboardingForm ==
  Together("new organisation", {Form(CheckCode), Leaves(Form(CreateOrganisation))})
UnsubscribeButton(v) == If(v.row = "one", {OnAnswer(Button(Unsubscribe))})

StartRows ==
     ("sign in" :> {"none", "sent"}) @@ ("sign in link" :> {"none", "sent"})
  @@ ("onboarding" :> {"none", "saved"})
  @@ ("suggested organisation" :> {"none", "one"}) @@ ("suggested person" :> {"none", "sent"})
  @@ ("invite" :> {"open", "added", "closed"}) @@ ("invite link" :> {"open", "added", "closed"})
  @@ ("team link" :> {"open", "added", "closed"})
  @@ ("new organisation" :> {"none", "one", "many"}) @@ ("unsubscribe" :> {"none", "one"})

StartPages(part, v) ==
  CASE part = "sign in" -> EmailLinkForm("send", v)
    [] part = "sign in link" -> EmailLinkForm("confirm", v)
    [] part = "onboarding" -> OnboardingPage(v)
    [] part = "suggested organisation" -> SuggestionsStep("organisation", v)
    [] part = "suggested person" -> SuggestionsStep("person", v)
    [] part = "team link" -> AcceptInviteForm
    [] part \in {"invite", "invite link"} -> TeamInvitePage(v)
    [] part = "new organisation" -> OrgOnboardingForm
    [] part = "unsubscribe" -> UnsubscribeButton(v)
=============================================================================
