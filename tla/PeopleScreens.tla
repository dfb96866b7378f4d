---------------------------- MODULE PeopleScreens ----------------------------
(***************************************************************************)
(* Other people and other organisations: the public profile pages, the     *)
(* network page, and the matches and the card of the co-founder page (its  *)
(* deck is CofounderDeck).  Here what a call needs besides the viewer is   *)
(* not a plan but a rung of the profile's ladder.                          *)
(***************************************************************************)
EXTENDS WebControls

Viewer == {"me"}

(* What the API does.  The row is how the viewer stands to the other one.  *)
SendRequest == Call(Viewer, TRUE, "none" :> "sent")
AcceptRequest == Call(Viewer, FALSE, "received" :> "connected")
DeclineRequest == Call(Viewer, FALSE, "received" :> "none")
WithdrawRequest == Call(Viewer, FALSE, "sent" :> "none")
DropConnection == Call(Viewer, FALSE, "connected" :> "none")
OpenConversation == Call(Viewer, FALSE, "connected" :> "connected")
FollowOrg == Call(Viewer, FALSE, ("none" :> "one") @@ ("one" :> "one"))
UnfollowOrg == Call(Viewer, FALSE, DropsIfAny)
PutOutcome == Call(Viewer, FALSE, ("new" :> "answered") @@ ("answered" :> "answered"))
PutCard == Call(Viewer, FALSE, ("none" :> "saved") @@ ("saved" :> "saved"))
PostReport == Call(Viewer, FALSE, Keeps)
BlockUser == Call(Viewer, FALSE, Keeps)

(* The server actions. *)
SendConnectionRequest == Action("sendConnectionRequest", SendRequest, "all", {"connections", "network"})
AcceptConnectionRequest ==
  Action("acceptConnectionRequest", AcceptRequest, "all", {"connections", "network", "feed"})
DeclineConnectionRequest ==
  Action("declineConnectionRequest", DeclineRequest, "all", {"connections", "network"})
WithdrawConnectionRequest == Action("withdrawConnectionRequest", WithdrawRequest, "all", {"network"})
RemoveConnection == Action("removeConnection", DropConnection, "all", {"network"})
StartConversation == Action("startConversation", OpenConversation, "all", {})
FollowOrgAction == Action("followOrg", FollowOrg, "api", {"profile", "dashboard", "feed", "org page"})
UnfollowOrgAction == Action("unfollowOrg", UnfollowOrg, "all", {"network"})
SetMatchOutcome == Action("setMatchOutcome", PutOutcome, "all", {"cofounder"})
UpdateBuilderProfile == Action("updateBuilderProfile", PutCard, "all", {"cofounder"})
ReportBuilder == Action("reportBuilder", PostReport, "all", {})
BlockBuilder == Action("blockBuilder", BlockUser, "all", {"cofounder"})

(* A person's public profile: one button, whichever the connection allows.  The message
   button says nothing when it fails, and a sent request is remembered by the component. *)
PersonProfileActions(v) ==
  Together("person",
    CASE v.row = "connected" -> {Silent(Leaves(Button(StartConversation)))}
      [] v.row \in {"sent", "received"} -> {}
      [] v.plan = "no" -> {}
      [] OTHER -> {OnAnswer(Button(SendConnectionRequest))})
PersonPage(v) == PersonProfileActions(v)

(* An organisation's public profile. *)
OrgProfileActions(v) == If(v.row = "none", {Refreshes(OnAnswer(Button(FollowOrgAction)))})
OrgPage(v) == OrgProfileActions(v)

(* The network page: each list hides what was answered, and the page is rendered again. *)
RequestCard ==
  Together("request", {Refreshes(OnAnswer(Button(AcceptConnectionRequest))),
                       OnAnswer(Button(DeclineConnectionRequest))})
ConnectionRequestsPanel(v) == If(v.row = "received", RequestCard)
ConnectionRow ==
  Together("connection", {OnAnswer(Button(RemoveConnection)), Leaves(Button(StartConversation))})
ConnectionsPanel(v) == If(v.row = "connected", ConnectionRow)
SentRequestRow == {OnAnswer(Button(WithdrawConnectionRequest))}
FollowRow == {OnAnswer(Button(UnfollowOrgAction))}
NetworkPrinciples(v) ==
  If(v.row = "sent", SentRequestRow) \cup If(v.row = "one", FollowRow)
NetworkPage(v) == ConnectionRequestsPanel(v) \cup ConnectionsPanel(v) \cup NetworkPrinciples(v)

(* Messages: the people a conversation can be started with, as they were last polled.  The
   hub of the feed and the inbox of the messages page offer the same; both open the
   conversation they are answered with (Chat). *)
Compose(v) == If(v.row = "connected", {Button(StartConversation)})
MessagesHubContent(v) == Compose(v)
MessagingInbox(v) == Compose(v)

(* The co-founder page's other tabs.  A match's outcome is kept by its row. *)
SafetyDialog == Together("safety", {Form(ReportBuilder), Button(BlockBuilder)})
MatchRow == {OnAnswer(Button(SetMatchOutcome))} \cup SafetyDialog
MatchesList(v) == If(v.row # "none", MatchRow)
BuilderProfileForm == {Form(UpdateBuilderProfile)}

PeopleRows ==
     ("person" :> {"none", "sent", "received", "connected"}) @@ ("org page" :> {"none", "one"})
  @@ ("network" :> {"none", "sent", "received", "connected"}) @@ ("following" :> {"none", "one"})
  @@ ("messages" :> {"none", "connected"}) @@ ("messages hub" :> {"none", "connected"})
  @@ ("matches" :> {"none", "new", "answered"}) @@ ("builder card" :> {"none", "saved"})

PeoplePages(part, v) ==
  CASE part = "person" -> PersonPage(v)
    [] part = "org page" -> OrgPage(v)
    [] part \in {"network", "following"} -> NetworkPage(v)
    [] part = "messages" -> MessagingInbox(v)
    [] part = "messages hub" -> MessagesHubContent(v)
    [] part = "matches" -> MatchesList(v)
    [] part = "builder card" -> BuilderProfileForm
=============================================================================
