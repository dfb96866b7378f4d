--------------------------- MODULE ProfileScreens ---------------------------
(***************************************************************************)
(* A person's own profile page: its calls, its server actions, and what    *)
(* each of its components offers.  The viewer is always the owner ("me");  *)
(* only the record of a membership depends on an organisation's plan.      *)
(***************************************************************************)
EXTENDS WebControls

Me == {"me"}

(* What the API does. *)
PutProfile == Call(Me, FALSE, ("none" :> "saved") @@ ("saved" :> "saved"))
PutVisibility(level) == Call(Me, FALSE, ("here" :> level) @@ ("hidden" :> level))
PostExperience == Call(Me, FALSE, Adds)
PutExperience == Call(Me, FALSE, ("one" :> "one") @@ ("many" :> "many"))
DropExperience == Call(Me, FALSE, Drops)
\* A member's own edit of the details waits for an administrator, an owner's too.
PatchMyDetails == Call(Me, TRUE, ("settled" :> "pending") @@ ("pending" :> "pending"))
\* A claim is the person's ("claimed") or the organisation's ("added") until it is settled.
DeclareClaim == Call(Me, FALSE, ("none" :> "claimed") @@ ("disputed" :> "claimed"))
EditClaim == Call(Me, FALSE, [s \in {"claimed", "added", "verified"} |-> "claimed"])
AcceptClaim == Call(Me, FALSE, "added" :> "verified")
WithdrawClaim == Call(Me, FALSE, [s \in {"claimed", "added", "disputed"} |-> "none"])
ReadArchive == Call(Me, FALSE, Keeps)
ApplyArchive == Call(Me, FALSE, Adds)
DropAccount == Call(Me, FALSE, "here" :> "gone")

(* The server actions. *)
ProfileSave(name) == Action(name, PutProfile, "all", {"profile"})
SaveIdentity == ProfileSave("saveIdentity")
SaveAbout == ProfileSave("saveAbout")
SaveSkills == ProfileSave("saveSkills")
\* A minimum ticket above the maximum is refused before any call.
SaveInvestmentFocus == ProfileSave("saveInvestmentFocus")
SetSectionVisibility(level) ==
  Action("setSectionVisibility", PutVisibility(level), "all", {"profile"})
UploadProfilePicture ==
  Action("uploadProfilePicture", PutProfile, "all", {"profile", "dashboard", "feed"})
CreateExperience == Action("createExperience", PostExperience, "api", {"profile", "dashboard"})
UpdateExperience == Action("updateExperience", PutExperience, "api", {"profile", "dashboard"})
DeleteExperience == Action("deleteExperience", DropExperience, "api", {"profile", "dashboard"})
CreateAffiliation == Action("createAffiliation", DeclareClaim, "api", {"profile", "dashboard"})
\* One form for both: an organisation picked from the list makes it an affiliation.
CreateExperienceOrAffiliation(orgPicked) == IF orgPicked THEN CreateAffiliation ELSE CreateExperience
UpdateMyMembershipDetails ==
  Action("updateMyMembershipDetails", PatchMyDetails, "api", {"profile", "org"})
UpdateAffiliationDetails == Action("updateAffiliationDetails", EditClaim, "api", {"profile"})
AcceptAffiliation == Action("acceptAffiliation", AcceptClaim, "all", {"profile", "dashboard"})
WithdrawAffiliation ==
  Action("withdrawAffiliation", WithdrawClaim, "api", {"profile", "dashboard"})
WithdrawAffiliationById ==
  Action("withdrawAffiliationById", WithdrawClaim, "all", {"profile", "dashboard"})
PreviewLinkedInImport == Action("previewLinkedInImport", ReadArchive, "all", {})
\* Only the dashboard is revalidated; the component asks for a new rendering itself.
ApplyLinkedInImport == Action("applyLinkedInImport", ApplyArchive, "all", {"dashboard"})
DeleteAccount == Action("deleteAccount", DropAccount, "api", {})

(* The components. *)
EditableSection(action) == {Form(action)}
Avatar == {Form(UploadProfilePicture)}
IdentitySection == EditableSection(SaveIdentity) \cup Avatar
AboutSection == EditableSection(SaveAbout)
SkillsSection == EditableSection(SaveSkills)
InvestmentFocusSection == EditableSection(SaveInvestmentFocus)
\* Picking the level that is shown already does nothing; the pill keeps its own level.
VisibilityPill(v) ==
  Together("visibility", {Guess(Button(SetSectionVisibility(l))) : l \in {"here", "hidden"} \ {v.row}})
ExperienceRecord == {Form(UpdateExperience), Button(DeleteExperience)}
MembershipRecord == {Refreshes(Form(UpdateMyMembershipDetails))}
AffiliationRecord(v) ==
  LET canWithdraw == v.row # "verified"
      canAccept == v.row = "added"
      canEdit == v.row # "disputed"
  IN If(canEdit, {Refreshes(Form(UpdateAffiliationDetails))})
       \cup If(canAccept, Together("affiliation", {Refreshes(Button(AcceptAffiliation)),
                                                   Refreshes(Button(WithdrawAffiliationById))}))
       \cup If(~canAccept /\ canWithdraw, {Button(WithdrawAffiliation)})
AddExperienceForm(orgPicked) == {Form(CreateExperienceOrAffiliation(orgPicked))}
\* One list of three kinds of record; the page is about a record of one kind.
ExperienceManager(kind, v) ==
  CASE kind = "membership" -> MembershipRecord
    [] kind = "experience" -> AddExperienceForm(FALSE) \cup If(v.row # "none", ExperienceRecord)
    [] kind = "affiliation" -> AddExperienceForm(TRUE) \cup If(v.row # "none", AffiliationRecord(v))
\* The archive is read first, its review applied; one transition disables both.
ArchiveUpload == {Form(PreviewLinkedInImport)}
ArchiveReview == {Refreshes(Form(ApplyLinkedInImport))}
LinkedInImport == Together("linkedin", ArchiveUpload \cup ArchiveReview)
\* Only what says DELETE is sent; the answer is a redirect to the logout route.
AccountSection == {Leaves(Form(DeleteAccount))}

ProfileRows ==
     ("profile" :> {"none", "saved"}) @@ ("visibility" :> {"here", "hidden"})
  @@ ("experience" :> {"none", "one", "many"}) @@ ("my membership" :> {"settled", "pending"})
  @@ ("my affiliation" :> {"none", "claimed", "added", "verified", "disputed"})
  @@ ("account" :> {"here", "gone"})

ProfilePage(part, v) ==
  CASE part = "profile" ->
         IdentitySection \cup AboutSection \cup SkillsSection \cup InvestmentFocusSection
    [] part = "visibility" -> VisibilityPill(v)
    [] part = "experience" -> ExperienceManager("experience", v) \cup LinkedInImport
    [] part = "my membership" -> ExperienceManager("membership", v)
    [] part = "my affiliation" -> ExperienceManager("affiliation", v)
    [] part = "account" -> AccountSection
=============================================================================
