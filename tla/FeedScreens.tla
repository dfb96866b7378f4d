----------------------------- MODULE FeedScreens -----------------------------
(***************************************************************************)
(* The feed, the boards of roles and of people, and a public role's apply  *)
(* page.  Here "plan" is whether the profile is complete enough to post:   *)
(* the page asks for it, the API does not.                                 *)
(***************************************************************************)
EXTENDS WebControls

Reader == {"me"}

(* What the API does.  A person posts once a day, comments once on a post, applies once to a role. *)
PostToday == Call(Reader, FALSE, "none" :> "one")
PutReaction(kind) == Call(Reader, FALSE, [s \in {"none", "liked", "passed"} |-> kind])
DropReaction == Call(Reader, FALSE, [s \in {"none", "liked", "passed"} |-> "none"])
PostComment == Call(Reader, FALSE, "none" :> "one")
Participate == Call(Reader, FALSE, ("none" :> "one") @@ ("one" :> "one"))
StayAway == Call(Reader, FALSE, DropsIfAny)
ReportContent == Call(Reader, FALSE, Keeps)
GetPage == Call(Reader, FALSE, Keeps)
Apply == Call(Reader, FALSE, "none" :> "sent")

(* The server actions. *)
PublishFeedPost == Action("publishFeedPost", PostToday, "api", {"profile", "dashboard", "feed"})
React(kind) == Action("react", PutReaction(kind), "all", {"profile", "dashboard"})
Unreact == Action("unreact", DropReaction, "all", {"profile", "dashboard"})
PostCommentAction == Action("postComment", PostComment, "none", {})
LoadComments == Action("loadComments", GetPage, "none", {})
LoadMoreFeed == Action("loadMoreFeed", GetPage, "none", {})
SetEventParticipation(next) ==
  Action("setEventParticipation", IF next THEN Participate ELSE StayAway, "all",
         {"feed", "dashboard layout"})
ReportPost == Action("reportPost", ReportContent, "all", {})
LoadMoreJobs == Action("loadMoreJobs", GetPage, "none", {})
LoadMoreDiscovery == Action("loadMoreDiscovery", GetPage, "none", {})
LoadMorePeopleDiscovery == Action("loadMorePeopleDiscovery", GetPage, "none", {})
ApplyToJob == Action("applyToJob", Apply, "all", {"opportunities"})
\* The public page's action is another one: its success is a redirect.
ApplyToPublicJob == Action("applyToPublicJob", Apply, "api", {})

(* The feed.  FeedHome takes the list it is given at every rendering, the bars of a post do
   not: they keep what their own answers said. *)
FeedComposer(v) == If(v.plan = "yes" /\ v.row = "none", {Refreshes(Form(PublishFeedPost))})
FeedList == {TellsUser(Button(LoadMoreFeed))}
FeedHome(v) == FeedComposer(v) \cup FeedList
FeedPage(v) == FeedHome(v)
ReactionBar(v) ==
  Together("reaction",
    {OnAnswer(Button(IF v.row = kind THEN Unreact ELSE React(kind))) : kind \in {"liked", "passed"}})
CommentThread(v) ==
  {TellsUser(Button(LoadComments))}
    \cup If(v.row = "none", {TellsUser(OnAnswer(Form(PostCommentAction)))})
EventParticipationBar(v) ==
  {Refreshes(OnAnswer(Button(SetEventParticipation(v.row = "none"))))}
ReportPostDialog == {Form(ReportPost)}
FeedCard(v) == ReactionBar(v) \cup ReportPostDialog

(* The boards: a search is a new address of the same page (WebPages!Search).  Both of the
   discovery lists are keyed by the query, the members' board of roles is not. *)
JobsList == {TellsUser(Button(LoadMoreJobs))}
DiscoveryList == {TellsUser(Button(LoadMoreDiscovery))}
PeopleDiscoveryList == {TellsUser(Button(LoadMorePeopleDiscovery))}
KeyedByQuery == {"organisations", "people"}

(* Applying: the button only remembers its own application. *)
ApplyButton(v) == If(v.row # "closed", {OnAnswer(Form(ApplyToJob))})
ApplyForm == {Leaves(Form(ApplyToPublicJob))}
ApplyPage == ApplyForm

Boards == {"roles", "organisations", "people"}
FeedRows ==
     ("feed" :> {"none", "one"}) @@ ("post" :> {"none", "liked", "passed"})
  @@ ("comments" :> {"none", "one"}) @@ ("event" :> {"none", "one"})
  @@ ("role" :> {"none", "sent", "closed"}) @@ ("apply" :> {"none", "sent", "gone"})
  @@ [b \in Boards |-> {"many", "one"}]

FeedPages(part, v) ==
  CASE part = "feed" -> FeedPage(v)
    [] part = "post" -> FeedCard(v)
    [] part = "comments" -> CommentThread(v)
    [] part = "event" -> EventParticipationBar(v)
    [] part = "role" -> ApplyButton(v)
    [] part = "apply" -> ApplyPage
    [] part = "roles" -> JobsList
    [] part = "organisations" -> DiscoveryList
    [] part = "people" -> PeopleDiscoveryList
=============================================================================
