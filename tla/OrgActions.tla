----------------------------- MODULE OrgActions -----------------------------
(***************************************************************************)
(* The organisation workspace's calls to the API and its server actions.   *)
(***************************************************************************)
EXTENDS WebControls

Managers == {"owner", "admin"}
Members == Managers \cup {"member"}

(* What the API does with each request. *)
PatchOrg == Call(Managers, TRUE, Keeps)
\* Exempt from the plan: an organisation that let it lapse can still be closed.
RemoveOrg == Call({"owner"}, FALSE, "here" :> "gone")
Activate == Call(Managers, TRUE, "ready" :> "live")
PutLogo == Call(Managers, TRUE, Keeps)
PutField == Call(Members, TRUE, ("none" :> "saved") @@ ("saved" :> "saved") @@ ("here" :> "here"))
DropField == Call(Members, TRUE, ("none" :> "none") @@ ("saved" :> "none") @@ ("here" :> "here"))
\* The sections of a round are archived when it closes: a write finds none, a removal still does.
PutRoundField == Call(Members, TRUE, "open" :> "open")
DropRoundField == Call(Members, TRUE, ("open" :> "open") @@ ("none" :> "none"))
PublishPost == Call(Members, TRUE, Adds)
DropActivity == Call(Members, TRUE, Drops)
OpenRound == Call(Managers, TRUE, "none" :> "open")
CloseRound == Call(Managers, TRUE, "open" :> "none")
\* An administrator's edit of the title re-attests the details, whatever awaited confirmation.
PatchTitle == Call(Managers, TRUE, ("pending" :> "settled") @@ [s \in {"settled", "sole owner"} |-> s])
ConfirmDetails == Call(Managers, TRUE, "pending" :> "settled")
\* Not the only owner ("sole owner").
DropMember == Call(Managers, TRUE, ("pending" :> "none") @@ ("settled" :> "none"))
ConfirmSkill == Call(Managers, TRUE, ("claimed" :> "verified") @@ ("verified" :> "verified"))
OpenInvite == Call(Managers, TRUE, Adds)
RevokeInvite == Call(Managers, TRUE, DropsIfAny)
Grant == Call(Managers, TRUE, Adds)
RevokeGrant == Call(Managers, TRUE, DropsIfAny)
SubmitVerification == Call(Managers, TRUE,
                           [s \in {"none", "warning", "pending"} |-> "pending"])
PostAffiliation == Call(Managers, TRUE, "none" :> "added")
PostTeamInvite == Call(Managers, TRUE, ("none" :> "sent") @@ ("closed" :> "sent"))
ConfirmClaim == Call(Managers, TRUE, "claimed" :> "verified")
DisputeClaim == Call(Managers, TRUE, "claimed" :> "disputed")
PostJob == Call(Managers, TRUE, [s \in {"none", "open", "closed", "off"} |->
                                   IF s = "none" THEN "open" ELSE s])
PatchJob == Call(Managers, TRUE, [s \in {"open", "closed", "off"} |-> s])
CloseJob == Call(Managers, TRUE, [s \in {"open", "closed", "off"} |-> "closed"])
DropJob == Call(Managers, TRUE, [s \in {"open", "closed", "off"} |-> "none"])
\* Renewing looks at the job's organisation but not at its plan.
RenewJob == Call(Managers, FALSE, [s \in {"open", "closed", "off"} |-> "open"])
AnswerApplication == Call(Managers, FALSE, ("new" :> "answered") @@ ("answered" :> "answered"))
\* Paid through Stripe and running ("stripe"), the last charge failed ("warning") or ended ("off").
StartCheckout == Call(Managers, FALSE, [s \in {"none", "one", "closed", "off", "settled"} |-> s])
OpenPortal == Call(Managers, FALSE, [s \in {"stripe", "warning", "off"} |-> s])
\* A code gives an organisation that never had a free year its plan, or waits beside the plan it
\* has (PromoCodes has the redemption itself).
Redeem == Call(Managers, FALSE, [s \in {"none", "off", "stripe", "warning", "settled"} |->
                                   IF s \in {"none", "off"} THEN "one" ELSE s])

(* The server actions.  A path of "org" is /dashboard/<slug>. *)
UpdateOrgProfile == Action("updateOrgProfile", PatchOrg, "api", {"org"})
ActivateOrg == Action("activateOrg", Activate, "api", {"org"})
DeleteOrg == Action("deleteOrg", RemoveOrg, "api", {"feed", "dashboard", "profile"})
UpsertField == Action("upsertField", PutField, "api", {"org"})
DeleteField == Action("deleteField", DropField, "api", {"org"})
UpsertRoundField == [UpsertField EXCEPT !.call = PutRoundField]
DeleteRoundField == [DeleteField EXCEPT !.call = DropRoundField]
DeleteActivity == Action("deleteActivity", DropActivity, "api", {"org", "feed"})
OpenRoundAction == Action("openRound", OpenRound, "none", {"org"})
CloseRoundAction == Action("closeRound", CloseRound, "none", {"org"})
SubmitVerificationAction == Action("submitVerification", SubmitVerification, "api", {"org"})
PostFeed == Action("postFeed", PublishPost, "api", {"org", "feed", "discovery"})
UploadOrgLogo == Action("uploadOrgLogo", PutLogo, "api", {"org", "feed", "discovery"})
CreateInvite == Action("createInvite", OpenInvite, "none", {"org"})
RevokeInviteAction == Action("revokeInvite", RevokeInvite, "none", {"org"})
UpdateMemberTitle == Action("updateMemberTitle", PatchTitle, "none", {"org"})
RemoveMember == Action("removeMember", DropMember, "api", {"org"})
CreateGrant == Action("createGrant", Grant, "none", {"org", "access"})
DeleteGrant == Action("deleteGrant", RevokeGrant, "api", {"org", "access"})
ConfirmMembershipDetails == Action("confirmMembershipDetails", ConfirmDetails, "api",
                                   {"org", "profile"})
ConfirmMembershipSkill == Action("confirmMembershipSkill", ConfirmSkill, "none", {"org"})
AddTeamMember == Action("addTeamMember", PostAffiliation, "api", {"org"})
InviteTeamMember == Action("inviteTeamMember", PostTeamInvite, "api", {"org"})
ConfirmAffiliation == Action("confirmAffiliation", ConfirmClaim, "all", {"org"})
DisputeAffiliation == Action("disputeAffiliation", DisputeClaim, "all", {"org"})
CreateJob == Action("createJob", PostJob, "api", {"org", "jobs"})
UpdateJob == Action("updateJob", PatchJob, "api", {"org", "jobs", "job"})
CloseJobAction == Action("closeJob", CloseJob, "none", {"org", "jobs", "job"})
DeleteJob == Action("deleteJob", DropJob, "none", {"org", "jobs", "job"})
RenewJobAction == Action("renewJob", RenewJob, "none", {"org", "jobs", "job"})
SetApplicationStatus == Action("setApplicationStatus", AnswerApplication, "all", {"org"})
StartCheckoutAction == Action("startCheckout", StartCheckout, "api", {})
OpenBillingPortal == Action("openBillingPortal", OpenPortal, "api", {})
RedeemCode == Action("redeemCode", Redeem, "api", {"org"})
=============================================================================
