---------------------------- MODULE NexusScreens ----------------------------
(***************************************************************************)
(* The back office: every change is one server action, nexusCall, which    *)
(* catches whatever is thrown and revalidates all of its pages.  Staff     *)
(* see it, administrators act in it; to anybody else it does not exist.    *)
(***************************************************************************)
EXTENDS WebControls

Admin == {"administrator"}
Staff == Admin \cup {"staff"}

NexusCall(call) == Action("nexusCall", call, "all", {"nexus"})

(* What the API does.  An action applied twice is the same as once, except where refused. *)
Beside == ("none" :> "settled") @@ ("one" :> "settled one") @@ ("stripe" :> "settled stripe")
Complimentary == {Beside[s] : s \in DOMAIN Beside}
SuspendUser == Call(Admin, FALSE, ("here" :> "off") @@ ("off" :> "off"))
ReactivateUser == Call(Admin, FALSE, ("here" :> "here") @@ ("off" :> "here"))
MarkUser == Call(Admin, FALSE, ("here" :> "here") @@ ("off" :> "off"))
DeleteUser == Call(Admin, FALSE, ("here" :> "gone") @@ ("off" :> "gone"))
VerifyOrg == Call(Admin, FALSE, [s \in {"none", "one", "stripe"} \cup Complimentary |-> s])
\* A free period cannot be added to a plan paid through Stripe.
ExtendFree == Call(Admin, FALSE, ("none" :> "one") @@ ("one" :> "one") @@ ("settled" :> "settled one")
                                 @@ ("settled one" :> "settled one"))
\* A complimentary plan is a row of its own, beside whatever the organisation has already.
GiveComp == Call(Admin, FALSE, Beside @@ [s \in Complimentary |-> s])
EndComp == Call(Admin, FALSE, [s \in DOMAIN Beside \cup Complimentary |->
                                 IF s \in Complimentary THEN CHOOSE t \in DOMAIN Beside : Beside[t] = s ELSE s])
RemovePost == Call(Staff, FALSE, [s \in {"live", "off"} |-> "off"])
RestorePost == Call(Admin, FALSE, [s \in {"live", "off"} |-> "live"])
\* An open report is about somebody active ("open") or already suspended ("off").
ResolveReport == Call(Staff, FALSE, ("open" :> "closed") @@ ("off" :> "closed"))
ResolveBySuspending == [ResolveReport EXCEPT !.who = Admin]
SwitchPromo(to) == Call(Admin, FALSE, [s \in {"one", "off"} |-> to])
CreatePromo == Call(Admin, FALSE, Keeps)
IssueInvoice == Call(Admin, FALSE, "open" :> "settled")
DropContact == Call(Admin, FALSE, Drops)
PostContacts == Call(Admin, FALSE, Adds)
CreateDraft == Call(Admin, FALSE, Keeps)
SaveDraft == Call(Admin, FALSE, "draft" :> "draft")
SendTest == Call(Admin, FALSE, [s \in {"draft", "sending", "sent"} |-> s])
\* The count the administrator confirmed is compared with the count now.
QueueSend == Call(Admin, FALSE, "draft" :> "sending")
ProcessBatch == Call(Admin, FALSE, ("draft" :> "draft") @@ ("sending" :> "sent") @@ ("sent" :> "sent"))
DropDraft == Call(Admin, FALSE, "draft" :> "gone")

(* The two buttons every page is made of; each has a flag of its own. *)
ReasonAction(label, call) == At(label, {Refreshes(Form(NexusCall(call)))})
ReasonActionAway(label, call) == At(label, {Leaves(Form(NexusCall(call)))})
QuickAction(label, call) == At(label, {Refreshes(Button(NexusCall(call)))})

CanManageUsers(v) == v.role \in Admin
UserPage(v) ==
  If(CanManageUsers(v),
     ReasonAction("verify", MarkUser) \cup QuickAction("internal", MarkUser)
       \cup ReasonActionAway("delete", DeleteUser)
       \cup If(v.row = "here", ReasonAction("suspend", SuspendUser))
       \cup If(v.row = "off", ReasonAction("suspend", ReactivateUser)))
NexusOrgPage(v) ==
  If(v.role \in Admin,
     ReasonAction("verify", VerifyOrg)
       \cup ReasonAction("comp", IF v.row \in Complimentary THEN EndComp ELSE GiveComp)
       \cup If(v.row \in {"none", "one"}, ReasonAction("extend", ExtendFree)))
PostsPage(v) ==
  If(v.row = "live", ReasonAction("remove", RemovePost))
    \cup If(v.row = "off" /\ v.role \in Admin, ReasonAction("restore", RestorePost))
ReportsPage(v) ==
  If(v.row # "closed",
     ReasonAction("close", ResolveReport) \cup ReasonAction("warn", ResolveReport)
       \cup If(v.role \in Admin /\ v.row = "open", ReasonAction("suspend", ResolveBySuspending)))
IssueFatura == At("invoice", {Refreshes(Form(NexusCall(IssueInvoice)))})
NewPromoCode == At("new code", {Refreshes(Form(NexusCall(CreatePromo)))})
BillingPage(v) ==
  If(v.row = "open", IssueFatura) \cup NewPromoCode
    \cup If(v.row \in {"one", "off"},
            QuickAction("switch", SwitchPromo(IF v.row = "one" THEN "off" ELSE "one")))
AddContacts == At("contacts", {Refreshes(Form(NexusCall(PostContacts)))})
NewDraftButton == At("new draft", {Leaves(Button(NexusCall(CreateDraft)))})
NewsletterPage(v) ==
  NewDraftButton \cup AddContacts \cup If(v.row \in {"one", "many"}, ReasonAction("remove", DropContact))
\* The editor keeps the draft it was given and what its own answers said; while a send is
\* under way it asks for the next batch by itself, until one fails.
NewsletterEditor(v) ==
  Together("newsletter",
    If(v.row = "draft", {OnAnswer(Form(NexusCall(SaveDraft))), Form(NexusCall(SendTest)),
                         OnAnswer(Form(NexusCall(QueueSend))), Leaves(Button(NexusCall(DropDraft)))})
      \cup If(v.row = "sending", {OnAnswer(Button(NexusCall(ProcessBatch)))}))

NexusRows ==
     ("nexus user" :> {"here", "off", "gone"}) @@ ("nexus org" :> DOMAIN Beside \cup Complimentary)
  @@ ("nexus posts" :> {"live", "off"}) @@ ("nexus reports" :> {"open", "off", "closed"})
  @@ ("nexus invoice" :> {"open", "settled"}) @@ ("nexus promo" :> {"one", "off"})
  @@ ("nexus contacts" :> {"none", "one", "many"})
  @@ ("nexus newsletter" :> {"draft", "sending", "sent", "gone"})

\* The billing and the newsletter pages answer administrators only.
AdminPages == {"nexus invoice", "nexus promo", "nexus contacts", "nexus newsletter"}

NexusPages(part, v) ==
  CASE part = "nexus user" -> UserPage(v)
    [] part = "nexus org" -> NexusOrgPage(v)
    [] part = "nexus posts" -> PostsPage(v)
    [] part = "nexus reports" -> ReportsPage(v)
    [] part \in {"nexus invoice", "nexus promo"} -> BillingPage(v)
    [] part = "nexus contacts" -> NewsletterPage(v)
    [] part = "nexus newsletter" -> NewsletterEditor(v)
=============================================================================
