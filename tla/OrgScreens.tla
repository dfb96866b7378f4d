----------------------------- MODULE OrgScreens -----------------------------
(***************************************************************************)
(* What the organisation workspace offers: one operator per component, from *)
(* a view to the controls the component renders, composed as the JSX is.   *)
(* A view is what the page was rendered with: the viewer's role, whether   *)
(* the organisation has a plan ("unknown" when that part did not load), and *)
(* the row the page is about.  Text, links between tabs and controls that  *)
(* change nothing on the server are left out.                              *)
(***************************************************************************)
EXTENDS OrgActions

CanManage(v) == v.role \in Managers
\* Mutant: the plan is not asked for.
CanEditAnyway(v) == CanManage(v)
\* billing?.has_access ?? true: a plan that did not load does not close the workspace.
CanEdit(v) == CanManage(v) /\ v.plan # "no"
IsOwner(v) == v.role = "owner"

(* Section fields, and the links, which are the fields of one section.  The *)
(* free-form card is used for the sections of a round only.                *)
SectionFieldRow == At("field", {Form(UpsertRoundField), Button(DeleteRoundField)})
SectionAddFieldForm == At("new field", {Form(UpsertRoundField)})
SectionCard(editable) == If(editable, SectionAddFieldForm \cup SectionFieldRow)
CuratedFieldForm(v, editable) ==
  If(editable, {Form(UpsertField)} \cup If(v.row # "none", {Button(DeleteField)}))
CuratedProfileSection(v, editable) == CuratedFieldForm(v, editable)
AboutProfileSection(v, editable) == CuratedProfileSection(v, editable)
CuratedLinkRow(v) == {Form(UpsertField)} \cup If(v.row # "none", {Button(DeleteField)})
CustomLinkRow == At("custom link", {Form(UpsertField), Button(DeleteField)})
AddCustomLinkForm == At("new link", {Form(UpsertField)})
LinksTab(v, editable) ==
  If(editable, CuratedLinkRow(v) \cup AddCustomLinkForm \cup If(v.row # "none", CustomLinkRow))

(* The profile tab. *)
OrgLogoForm(editable) == If(editable, {BareForm(UploadOrgLogo)})
OrgBasicsForm(editable) == If(editable, {Form(UpdateOrgProfile)})
ProfileTab(v) ==
  OrgLogoForm(CanEdit(v)) \cup OrgBasicsForm(CanEdit(v))
    \cup AboutProfileSection(v, CanEdit(v)) \cup CuratedProfileSection(v, CanEdit(v))

(* The overview: the ladder and its publish button. *)
PublishButton == {Button(ActivateOrg)}
OrgVerificationLadder(v) == If(v.row = "ready" /\ v.plan # "no" /\ CanEdit(v), PublishButton)
OverviewTab(v) == OrgVerificationLadder(v)

(* Posts and events. *)
OrgPostComposer == {Form(PostFeed)}
PostCard(canEdit) == If(canEdit, {Button(DeleteActivity)})
ActivityTab(v) ==
  If(CanEdit(v), OrgPostComposer) \cup If(v.row # "none", PostCard(CanEdit(v)))
CalendarTab(v) == If(CanEdit(v), OrgPostComposer)

(* The team and its invite links. *)
MemberSkills(v, canManage) ==
  If(v.row = "claimed" /\ canManage, {Bare(ConfirmMembershipSkill)})
\* The row does not ask whether the member is the only owner.
MemberRow(v, canManage) ==
  If(canManage,
     If(v.row = "pending", {Button(ConfirmMembershipDetails)})
       \cup {BareForm(UpdateMemberTitle), Button(RemoveMember)})
TeamSection(v, canManage) ==
  If(v.row \in {"pending", "settled", "sole owner"}, MemberRow(v, canManage))
    \cup MemberSkills(v, canManage)
InvitesSection(v) ==
  {Bare(CreateInvite)} \cup If(v.row \in {"one", "many"}, {Bare(RevokeInviteAction)})
TeamTab(v) == TeamSection(v, CanEdit(v))
InvitesTab(v) == If(CanEdit(v), InvitesSection(v))

(* Rounds. *)
FundraisingTab(v) ==
  If(CanEdit(v) /\ v.row = "open", {BareForm(CloseRoundAction)})
    \cup If(CanEdit(v) /\ v.row = "none", {BareForm(OpenRoundAction)})
    \cup If(v.row = "open", SectionCard(CanEdit(v)))

(* Affiliations: the tab keeps the list it was mounted with in its own state. *)
PendingRow ==
  Together("pending row", {OnAnswer(Button(ConfirmAffiliation)), OnAnswer(Button(DisputeAffiliation))})
AddTeamMemberForm == {Form(AddTeamMember)}
InviteByEmailForm == {Form(InviteTeamMember)}
AffiliationsTab(v) ==
  If(CanEdit(v), If(v.row = "claimed", PendingRow) \cup AddTeamMemberForm)
EmailInvites(v) == If(CanEdit(v), InviteByEmailForm)
CompanyRegistryCard(v) ==
  If(CanEdit(v) /\ v.row \in {"none", "warning"}, {Form(SubmitVerificationAction)})

(* Jobs and applications. *)
JobForm(editing) == {Form(IF editing THEN UpdateJob ELSE CreateJob)}
JobRow(v) ==
  JobForm(TRUE) \cup If(v.row # "closed", {Bare(CloseJobAction)})
    \cup If(v.row # "open", {Bare(RenewJobAction)}) \cup {Bare(DeleteJob)}
JobsTab(v) == If(CanEdit(v), JobForm(FALSE) \cup If(v.row # "none", JobRow(v)))
\* Nothing more to set on an application that was answered with interest.
ApplicationRow(v) == If(v.row = "new", {OnAnswer(Button(SetApplicationStatus))})
ApplicationsList(v) == If(CanEdit(v), ApplicationRow(v))

(* The plan.  On this page the row is the plan: "none", "one" (free year), "closed" (a free
   year that ended), "stripe", "warning" (its last charge failed), "off" (it ended), "settled"
   (complimentary).  The notice stands above the tab and mounts components of its own. *)
HasAccess(v) == v.row \notin {"none", "closed", "off"}
ManagedByStripe(v) == v.row \in {"stripe", "warning", "off"}
PortalButton == {Leaves(Button(OpenBillingPortal))}
PlanPicker == {Leaves(Button(StartCheckoutAction))}
RedeemCodeForm == {Refreshes(Form(RedeemCode))}
OrgPlanNotice(v) ==
  If(v.plan # "unknown" /\ CanManage(v),
     If(~HasAccess(v), PlanPicker \cup RedeemCodeForm) \cup If(v.row = "warning", PortalButton))
OrgBillingPanel(v) ==
  If(v.plan # "unknown" /\ CanManage(v),
     CASE ManagedByStripe(v) -> PortalButton
       [] v.row = "settled" -> {}
       [] OTHER -> PlanPicker \cup If(~HasAccess(v), RedeemCodeForm))
BillingTab(v) == At("notice", OrgPlanNotice(v)) \cup At("tab", OrgBillingPanel(v))

(* Settings: links, and closing the organisation. *)
DeleteOrgSection == {Leaves(Form(DeleteOrg))}
ShareTab(v) == LinksTab(v, CanEdit(v)) \cup If(IsOwner(v) /\ v.row = "here", DeleteOrgSection)

(* The page of granted access: only its reads keep others out. *)
RevokeGrantButton == {Button(DeleteGrant)}
AccessPage(v) == {BareForm(CreateGrant)} \cup If(v.row \in {"one", "many"}, RevokeGrantButton)

(* The pages, and the rows each is about. *)
OrgRows ==
     ("overview" :> {"draft", "ready", "live"}) @@ ("profile tab" :> {"none", "saved"})
  @@ ("activity" :> {"none", "one", "many"}) @@ ("calendar" :> {"none", "one", "many"})
  @@ ("team" :> {"none", "pending", "settled", "sole owner"})
  @@ ("skills" :> {"claimed", "verified"}) @@ ("invites" :> {"none", "one", "many"})
  @@ ("fundraising" :> {"none", "open"})
  @@ ("affiliations" :> {"none", "added", "claimed", "verified", "disputed"})
  @@ ("email invites" :> {"none", "sent", "closed"})
  @@ ("registry" :> {"none", "pending", "warning", "verified"})
  @@ ("org jobs" :> {"none", "open", "closed", "off"}) @@ ("applications" :> {"new", "answered"})
  @@ ("billing" :> {"none", "closed", "off", "one", "stripe", "warning", "settled"})
  @@ ("share" :> {"here", "gone"})
  @@ ("access" :> {"none", "one", "many"})

\* active === ... of the workspace: one tab at a time.
OrgTabs(tab, v) ==
  CASE tab = "overview" -> OverviewTab(v)
    [] tab = "profile tab" -> ProfileTab(v)
    [] tab = "activity" -> ActivityTab(v)
    [] tab = "calendar" -> CalendarTab(v)
    [] tab \in {"team", "skills"} -> TeamTab(v)
    [] tab = "invites" -> InvitesTab(v)
    [] tab = "fundraising" -> FundraisingTab(v)
    [] tab = "affiliations" -> AffiliationsTab(v)
    [] tab = "email invites" -> EmailInvites(v)
    [] tab = "registry" -> CompanyRegistryCard(v)
    [] tab = "org jobs" -> JobsTab(v)
    [] tab = "applications" -> ApplicationsList(v)
    [] tab = "billing" -> BillingTab(v)
    [] tab = "share" -> ShareTab(v)
    [] tab = "access" -> AccessPage(v)
=============================================================================
