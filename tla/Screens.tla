------------------------------- MODULE Screens -------------------------------
(***************************************************************************)
(* All the pages together: what each offers, to whom it opens, which path  *)
(* renders it, which of its parts may be missing, and which keep what they *)
(* were first given.                                                       *)
(***************************************************************************)
EXTENDS OrgScreens, ProfileScreens, StartScreens, FeedScreens, NexusScreens

RowsOf == OrgRows @@ ProfileRows @@ PeopleRows @@ StartRows @@ FeedRows @@ NexusRows
AllPages == DOMAIN RowsOf

Offers(p, v) ==
  CASE p \in DOMAIN OrgRows -> OrgTabs(p, v)
    [] p \in DOMAIN ProfileRows -> ProfilePage(p, v)
    [] p \in DOMAIN PeopleRows -> PeoplePages(p, v)
    [] p \in DOMAIN StartRows -> StartPages(p, v)
    [] p \in DOMAIN FeedRows -> FeedPages(p, v)
    [] p \in DOMAIN NexusRows -> NexusPages(p, v)

PathOf(p) ==
  CASE p = "access" -> "access"
    [] p \in DOMAIN OrgRows -> "org"
    [] p \in DOMAIN ProfileRows -> "profile"
    [] p \in {"network", "following"} -> "network"
    [] p \in {"matches", "builder card"} -> "cofounder"
    [] p \in {"feed", "post", "comments", "event"} -> "feed"
    [] p = "messages hub" -> "feed"
    [] p = "roles" -> "opportunities"
    [] p \in {"organisations", "people"} -> "discovery"
    [] p \in DOMAIN NexusRows -> "nexus"
    [] OTHER -> p

\* Both of the organisation's paths are below the dashboard's layout.
Below(p) == IF p \in DOMAIN OrgRows THEN {"everything", "dashboard layout"} ELSE {"everything"}

RolesOf(p) ==
  CASE p \in DOMAIN OrgRows -> Members \cup {"out", "suspended"}
    [] p \in DOMAIN NexusRows -> Staff \cup {"out", "suspended"}
    [] p \in {"invite link", "sign in", "sign in link"} -> {"out"}
    [] p \in {"invite", "unsubscribe", "apply"} -> {"me"}
    [] OTHER -> {"me", "suspended"}

\* The billing page's row is the plan; most pages of people ask for no rung.
PlansOf(p) ==
  IF p \in (DOMAIN OrgRows \ {"billing"}) \cup {"my membership", "person", "suggested person", "feed"}
  THEN {"yes", "no"} ELSE {"yes"}

CanOpen(p, w) ==
  /\ w.row # "gone" /\ w.role # "suspended"
  /\ p \in DOMAIN OrgRows => w.role \in IF p = "access" THEN Managers ELSE Members
  /\ p \in DOMAIN NexusRows => w.role \in IF p \in AdminPages THEN Admin ELSE Staff

\* Parts fetched with safeFetch: one that does not answer is rendered as if there were none.
SafelyFetched ==
  (DOMAIN OrgRows \ {"access"})
    \cup {"network", "following", "feed", "messages", "messages hub",
           "experience", "my affiliation", "matches", "builder card"}
\* Mutant: a part that does not load is rendered as an empty list even where the page has no list.
FallbacksOfAnyRow(p, v) ==
  IF p \notin SafelyFetched THEN {}
  ELSE If(p \in DOMAIN OrgRows, {[v EXCEPT !.plan = "unknown"]}) \cup {[v EXCEPT !.row = "none"]}
Fallbacks(p, v) ==
  IF p \notin SafelyFetched THEN {}
  ELSE If(p \in DOMAIN OrgRows, {[v EXCEPT !.plan = "unknown"]})
         \cup If("none" \in RowsOf[p], {[v EXCEPT !.row = "none"]})

\* Components with a useState of what they were first given, left alone by a new rendering.
KeepsOwnState(p) ==
  p \in {"affiliations", "applications", "visibility", "person", "org page", "matches",
         "suggested organisation", "suggested person", "unsubscribe", "sign in", "messages", "messages hub",
         "post", "comments", "event", "role", "nexus newsletter"}
    \cup (Boards \ KeyedByQuery)
=============================================================================
