# Formal models of Beedero

Beedero is a directory and network of organisations and the people behind them:
a Django back end on PostgreSQL (`src/backend`), a Next.js front end
(`src/frontend`), Stripe for money, Firebase for identity, SMTP for email, and
GitHub workflows that call the daily jobs over HTTP. This directory holds TLA+
models of the parts of it where the order of events decides the outcome, the TLC
runs that check them on small instances, and TLAPS proofs of the facts that
matter most for instances of every size.

## 1. How the program runs

Four facts about the back end, and one about the front end, decide what is one step in every module.

| Fact | Where | Consequence in the models |
|---|---|---|
| Every request except the webhook and `/api/public/` is one transaction | `orgs/middleware.py:52-76` | what an ordinary request writes is seen by others at its end, or never; emails and Stripe calls made on the way are not undone |
| The webhook is exempt | `orgs/middleware.py:13` | each `transaction.atomic()` in it commits by itself, and it may stop between two |
| PostgreSQL at READ COMMITTED, locks only by `select_for_update`, writes and unique constraints | settings | two requests may both read before either writes; a check followed by an insert is two steps unless a constraint decides |
| Next.js runs the server actions of a browser tab one at a time, in the order they were started; the API client behind them gives up after its timeout | `lib/api.ts:85` | presses queue up, and each is answered, refused, or lost after it may have taken effect |
| Three gunicorn workers, killed after 90 s; jobs are ordinary requests | `startup.sh:39-44`, `beedero/views.py:20-65` | two webhook deliveries, or two runs of one job, may overlap, and any of them may stop half way |

## 2. Inventory

For each part: the state it keeps, what is done to it, what makes it hard, and
what has to be true of it. "Module" says where it stands today; the line of each
hazard is in `PROJECT.json`.

| Part (source under `src/backend`) | State | Operations | Hard behaviour | Correct when | Module |
|---|---|---|---|---|---|
| Stripe subscription sync (`billing/subscriptions.py`, `gateway.py`, `views.py`; `orgs/services.py`) | `Subscription` rows with a `provider_ref`, `StripeEvent`, `PaidInvoice`; in Stripe: sessions, subscriptions | open a checkout, webhook, return from checkout, take over a free year, delete an organisation | events redelivered, reordered, handled by overlapping workers; crash between two commits; several cancellations of which one fails | rows show what Stripe had; an effect happens once and leaves its row; a deleted organisation is no longer charged; the free year survives until something else gives access | `StripeSync` |
| Free year (`billing/subscriptions.py`, `nexus/billing.py`, `orgs/create_flow.py`) | the `promo`/`launch` row of an organisation, `PromoCode` | redeem a code, grant the launch year, switch a code | count, check and insert are separate reads | one per organisation; a code's cap holds up to what is in flight | `PromoCodes` |
| Billing reminders (`billing/subscriptions.py`, the `billing_reminders` command) | the free row's status, `Notification` keys | daily job, `tell_owners`, `invoice.payment_failed` | a list that goes stale, two runs, emails not undone by an abort | a year is never cut short; one notice per key; an ended year is told | `BillingReminders` |
| Team invites (`affiliations/team_invites.py`, the `team_invite_upkeep` command) | `TeamInvite`, `TeamInviteOptOut`, `TeamInviteReport` | invite, accept, decline, report, remind, expire | answers race with each other, with the job and with opt-outs | consent is real, opt-outs and answers are final, reports block, addresses are forgotten | `TeamInvites` (abstract: `Invitation`) |
| Affiliation claims (`affiliations/services.py`) | `Affiliation` status | claim, confirm, dispute, accept, withdraw, registry check | status checked on an unlocked copy | a dispute or a withdrawal is not undone by a late confirm | planned |
| Investment records (`investments/services.py`) | `InvestmentRecord` status and publicity | declare, confirm, dispute, withdraw | the same | both sides agreed to what is public | planned |
| Newsletter (`newsletter/sending.py`) | issues, recipients | queue, process batches | the email leaves inside the batch's transaction | nobody is sent one issue twice, nobody is left out | planned |
| Connections (`connections/services.py`) | requests, connections | ask, accept, withdraw, decline | crossed requests, an accept racing a withdraw | one connection per pair, asked for by one and accepted by the other | planned |
| Messaging (`messaging/services.py`; `components/messaging/messaging-shared.tsx`, `MessagesHub.tsx`, `lib/use-visible-polling.ts`) | messages; in the browser: the list shown, the requests under way | poll, send, close, minimise, hide | lists that answer late, in any order or never, and after a message they do not have | what was sent stays on the screen until newer messages fill it; the window comes to show the newest messages | `Chat` |
| Cofounder matching (`cofounder/services.py`, `recommendations.py`; `components/cofounder/Deck.tsx`) | interests, matches, blocks, the cached deck of the day; in the browser: the deck and the place in it | draw, like, pass, block, match | two likes that each miss the other; a cached list, and an older copy of it in the browser | a match needs both yes, and two yes make one; nobody answered comes back | `Cofounder` |
| The pages (`src/frontend/app`, `src/frontend/components`, their `actions.ts`, `lib/api.ts`) | what the page was rendered with, the component's own copy of it, the presses not yet answered | press, answer, refuse, lose, render again | the conditions of a button and the API's permissions are written twice; each action names by hand the paths it revalidates; a page may be rendered with a part missing | a button is there only if the API will do what it says; what the user is told is so; a settled page shows what the API holds | `WebPages` over `Screens` |
| Membership, org invites, rounds (`orgs/views.py`) | `OrgMembership`, invites, `FundraiseRound` | add, change role, leave, accept, open, close | counts read before the change | always an owner; one open round | planned |
| Sign-in and rate limits (`accounts/signin_code.py`, `beedero/ratelimit.py`) | entries of the database cache | send a code, verify it, count attempts | get, compare, set without a lock | a code works once; attempts are counted | planned |
| Jobs, posts, link previews (`jobs/`, `social/`) | status, counters, `LinkPreview` | renew, expire, react, unfurl | lost updates, a bounded pool | counters match the rows; no preview stays pending | planned |
| Notifications (`notifications/services.py`) | `Notification` | notify and aggregate, push, digests | read, then create | one unread row per key | the keys that gate emails are in `BillingReminders` |
| Request transaction, jobs (`orgs/middleware.py`, `beedero/views.py`, `startup.sh`) | transactions, locks | begin, commit, roll back, kill | a job is a request like any other | | in every module (section 1) |
| Session refresh and app shell (`proxy.ts`, `app/api/auth/refresh/route.ts`, `lib/session.ts`) | cookies | refresh, log out | a refresh under way at logout | a session that was ended stays ended | planned |
| Accounts, profiles, ladders, credibility, discovery, analytics, Nexus's reviews | rows and scores recomputed from rows | forms, reads, reviews | little of it concurrent | | not modelled (section 8) |

How the parts meet. `StripeSync`, `PromoCodes` and `BillingReminders` are three
views of one table: the free period's row, which a redeemed code creates, a
Stripe subscription closes, the daily job pauses and a deletion removes. What
they promise of it together is `FreePeriod`. The reminders share `tell_owners`
with the webhook. Deleting an organisation (or an account) goes through Stripe
first. Team invites turn into affiliations, which the claims also write. The pages
call all of them, one request at a time: `WebPages` keeps of the API only the state of the
one row a page is about, and what the API does to it, so it composes with the
modules above by their calls and not by their state. `Cofounder` and `Chat` model both
sides, because there the browser's copy and the server's rows race.

## 3. Modules

`FreePeriod` is the abstract specification: an organisation's free period goes
`none -> open -> closed`, with `gone` from anywhere, once only. Closing takes a set, because the
daily job closes in one commit all it found. The three concrete modules
each define `PeriodOf` and instantiate it (`FP == INSTANCE FreePeriod WITH period <-
PeriodOf`); `FreePeriodPromise` is the whole abstract specification as a property.

**`StripeSync`.** Stripe is the environment: `history[s]` is the sequence of
statuses subscription `s` has had, and `Emitted` the events that makes
(subscription changes, the completed session, paid invoices). `rows[s]` is the
sequence of database rows carrying this `provider_ref`. `recorded`, `invoices`
are the `StripeEvent` and `PaidInvoice` tables; `acked` is what Stripe has had a
200 for; `applied` only observes. A worker goes
`idle -> fetching -> syncing -> creating -> idle` (or `invoicing`), one state for each
place where the code has committed something or waits for Stripe:

| Code | Action |
|---|---|
| `handle_event`, up to the commit of `StripeEvent` | `HandleEvent` |
| `sync_checkout_session`: `retrieve_subscription` | `FetchSubscription` |
| `sync_after_return`: the expanded session | `ReturnFromCheckout` |
| `sync_stripe_subscription`, row found and locked | `SyncExisting` |
| ... no row: organisation gone / about to insert / insert / foreign key refuses | `SyncNoOrg` / `SyncMiss` / `SyncCreate` / `SyncCreateRefused` |
| `record_paid_invoice` | `RecordPaidInvoice` |
| `release_stripe_subscriptions` and `delete_organization` | `DeleteStart`, `CancelInStripe`, `DeleteRefused`, `DeleteCommit` |
| `start_checkout`, `redeem_free_period` | `StartCheckout`, `RedeemFreePeriod` |
| gunicorn's timeout, a deploy, a call that raises | `Crash` |
| Stripe and the customer | `CompleteCheckout`, `StripeChanges` |

**`PromoCodes`.** A request is at `idle -> found -> unused -> idle`: `FindCode`
counts, `CheckUnused` asks `free_period_used`, `CreatePeriod` inserts, and only
the insert is checked by `one_free_period_per_org`. `BeginLaunchYear` enters at
the same place without a code.

**`BillingReminders`.** Thresholds (30, 7, 1 days) cut a free period into stages,
and a reminder's key is its stage. A run of the job keeps its list, and what it
wrote (`paused`, `notes`) until `JobCommit`; `sent` grows at once. `JobSaveFails`
is the `DatabaseError` of saving a row that went with its organisation. The
webhook's `tell_owners` has no surrounding transaction: `PaymentFailed` looks,
`HookTells` writes and sends, `HookCrash` stops before, or between the two. A
mail failure is caught and logged by the code, so `sent` counts attempts.

**`TeamInvites`.** One organisation's invites; nothing in the code relates those
of two, except that one run of the job takes them all. `Invite`, `CountInvites`,
`CreateInvite`, `SendInvite` are the four moments of `invite_team_member` (the
opt-out, the quotas, the insert with `uniq_open_team_invite`, the email after the
commit). Accepting, declining and filing a report take the row's lock, so each is
one step that waits for a run of the job holding the row. `ReportReads` comes
before: the address is read without the lock. `to` in a row is the address the
invite was made for, kept to state properties; `email` is the column, which
closing clears. Where an admin's request for an address that already has an account
leaves this flow, it leaves the module.

The list of due reminders is a query without an order, so the loop of a run may meet its rows in any
(`First`), and it stays at the row it has reached (`next`) for as long as another run holds it. Runs that
met the same rows in different orders wait for each other: PostgreSQL finds the circle (`InCircle`) and
stops a run of it, which `JobCrash` models beside the worker that is killed; what the run
wrote is undone, and its emails are gone.

**`Invitation`** is what all this promises, without locks, links, reports and runs of a job: an address
has one invite to answer at most, offered, answered or given up in one step, after which the address is forgotten; only
accepting makes somebody a verified member, once; only an address that was invited is ever
blocked. `TeamInvites` implements it under the mapping `Promised`, which leaves out how old an invite is and whether it was
reminded of.

**`Cofounder`.** `answer` is `CofounderInterest`, `cache` the ids of each user's deck of the
day; `cards`, `place` and `opted` are the page in the browser. `record_interest` is one
transaction in two steps, since what another has not committed is not read:

| Code | Action |
|---|---|
| `build_deck`, `daily_deck`, `cofounder/page.tsx` | `Render`, in `Load`, `Answered`, `AnsweredBlock` |
| `Deck.tsx`: `decide`; its safety dialog; the tabs of the page | `Decide`, `SubmitBlock`, `SelectTab` |
| `record_interest` up to the read of the other side's answer / its commit, with `create_match` | `RecordInterest` / `CommitInterest` |
| a refusal: not opted in, gone, blocked, too many today | `Refuse` |
| `block_user` | `BlockUser` |
| the answer, after `revalidatePath("/cofounder")` / an error under the card | `Answered`, `AnsweredBlock` / `Failed` |
| a lost request or answer | `Lose` |
| `builder_profile` saved, midnight | `SaveCard`, `NewDay` |

`Refuse` may always happen: the reasons the model does not follow (the daily rate, an
account suspended) are behind it. A tab has one press under way, as the buttons are disabled by `pending`; other
tabs of the page are opened only between presses. The ranking is any order.

**`Chat`.** One conversation in one window, of the dock (`ChatWindow`, whose `requestIdRef` drops answers
older than what it shows) or of the messages page (`HubChat`, which shows whatever
comes). A message is its place in the conversation, so the order and the number of times it is
shown can be said. `Tick` is the interval of `useVisiblePolling`, `ShowTab` its
`visibilitychange`; `ServeList`, `ShowList`, `LoseList` are a request for the list being answered, arriving, and
lost; `PostMessage` and `AddSent` the sending of a message and its answer. An interval starts no
second request (an answer is quicker than fifteen seconds); showing the tab, restoring the
window and sending do overlap it. A list has the newest `Limit` messages (30 in the code), and the window
asks for no others, so what it shows is `Newest(n)` of the moment a list was answered. Read marks are left out.

**The pages.** `WebControls` is a vocabulary: what a *call* to the API does to the row a page is
about and who may make it; what a server *action* does with the call's failures and which paths it
revalidates; what a *control* adds (disabled while pending, writes its own
state, guesses, leaves the page). The flag that disables a control belongs to one mounted component: the same
form in two places of a page has two (`At`), and buttons of one component share theirs (`Together`). The other
modules are written in it:

| Module | Code |
|---|---|
| `OrgActions`, `OrgScreens` | the organisation workspace: `orgs/views.py`, `dashboard/actions.ts`, `job-actions.ts`, `OrgTabs.tsx` and the components of its tabs |
| `ProfileScreens` | one's own profile: sections, visibility, experience, LinkedIn import, closing the account |
| `PeopleScreens` | other people and organisations, the network page, matches, the builder card, the inbox |
| `FeedScreens` | feed, posts, comments, events, the boards, applying to a role |
| `NexusScreens` | the back office |
| `StartScreens` | sign-in, onboarding, the three kinds of invitation, a new organisation |
| `Screens` | all pages: what each offers (`Offers`), its path, to whom it opens (`CanOpen`), which parts may be missing (`Fallbacks`), which components keep what they were first given (`KeepsOwnState`) |

Each component of the code is one operator from a view to a set of controls, and they are
composed as the JSX composes them. `WebPages` runs one browser tab on one page: `world` is what
the API holds, `seen` what the page was last rendered with, `queue` the presses not yet answered.

| Code | Action |
|---|---|
| a press; the component's optimistic write | `Press` |
| `apiFetch` reaches the view: done, refused, or the account is suspended | `Serve` |
| the client's timeout, a dropped answer, a 5xx (before the effect or after it) | `Lose` |
| the action returns: revalidation, `router.refresh`, a redirect, the component's own write | `Succeed` |
| a `catch` that makes the failure an answer, or an exception that goes to the error page, a toast or nowhere | `Fail` |
| `redirect("/suspended")` | `Suspend` |
| `error.tsx`: its button renders again what it had | `TryAgain` |
| a reload, a search on a board | `Reload`, `Search` |
| somebody else changes the role, the plan or the row | `Other` |

A form's content is data: the API may refuse what is typed (`typed`) in any state of the row. The plan's notice
(`OrgPlanNotice`) stands above every tab of the workspace (`OrgWorkspace.tsx:99`); it is modelled where it meets
the billing tab, whose row is the plan.

Definitions under a comment beginning with "Mutant" are plausible bugs of the definition
after them, used to test the properties: each property of a passing run is
violated when one of them takes its definition's place. They are otherwise unused.

## 4. Runs

Bounds are CONSTANTS and appear in the guards. "Holds" runs are exhaustive.

| Run | Instance | Question, and what it shows |
|---|---|---|
| `sync_overlap` | 1 organisation, 1 subscription, 2 workers, up to 3 statuses, any order and repeats, a code, a checkout, 1 crash | do overlapping, repeated, reordered deliveries write only statuses the subscription had, apply each event once, lose none but to a crash, leave the row they are answered for, insert no more rows than workers, and close the free year only for a row that grants access? Holds |
| `sync_delete` | 2 subscriptions, 1 worker, 1 crash, delete with refusals and retries | has everything a delete listed ended, and does nothing of a deleted organisation come back? Holds |
| `sync_lost_event` | 1 subscription, 1 worker, 1 crash | is an event Stripe has a 200 for applied? No: finding 1 |
| `codes_overlap` | 3 organisations, 2 codes (caps 1 and 0), 3 requests | one free year each, and a bounded overshoot of the cap. Holds |
| `remind` | 1 organisation, codes of a year or of a week, 2 runs, 1 webhook worker, 1 abort, a delete | is no year cut short or reopened, are repeated notices bounded, is an ended year told? Holds |
| `invites` | 1 address, 2 rows, 1 invitation, 2 runs, 1 report, 1 overlap, 1 abort | is consent real, does `TeamInvites` implement `Invitation`, are opt-outs final, do reports block, are an address's reminders bounded, is every address forgotten? Holds |
| `invite_quotas` | 3 addresses, 2 invitations in flight, 1 a day and 2 a week | do requests that count before either inserts go over a quota by less than their number? Holds; the quota itself is exceeded |
| `web` | every page, 2 presses under way, 1 change by somebody else, 1 lost answer, 5xx or missing part | does every page of the application offer only what the API allows, tell the user what happened, and end up showing it? Holds, but for the exceptions named below |
| `cofounder` | 3 builders, 2 of them with a page, decks of 2, 1 change, 1 loss | does every match have both yes, and does nobody answered come back? Holds |
| `deck_skips` | the same | has everybody in the deck been answered at its end? No: finding 2 |
| `missed_match` | the same | are two yes a match? No: finding 3 |
| `chat` | 4 messages, lists of 2, 2 lists under way, 2 shows, 1 loss | does what was sent stay on the screen of the dock until a whole list of newer messages replaces it, and does a window come to show the newest messages? Holds |

*Findings.* (1) `StripeEvent` commits before the effect, so a worker that stops
in between makes Stripe's retry a duplicate. (2) An answer in the co-founder deck both shortens the list
and moves the place in it: the next card is skipped, and the end of the deck says that all
were seen. (3) Two yes in overlapping transactions each miss the other, and nothing
looks again. Each quotes, in `PROJECT.json`, the sentence of the code it contradicts.

*Exceptions the properties of `web` name.* `PlanBlind`: the page of granted access
(`access/page.tsx:23`) and the record of a membership never read the organisation's plan, and offer what the API
answers with 402; the grant's action does not catch it, and the error page follows.
`NotRefreshed`: the affiliations tab keeps the list it was mounted with
(`AffiliationsTab.tsx:496`), and the board of roles, which is not keyed by its query
(`opportunities/page.tsx:44-49`), the list of the first search. `StateBlind`: six controls are offered where the
row lets the API do nothing but refuse. `ApplyButton` remembers only its own application (`ApplyButton.tsx:15`,
`JobCard.tsx:53`), as does the public form; the invite's form asks nothing before it is sent; the sign-in
form in confirm mode has no code to check; a code may be typed by an organisation that had its free year
(`OrgBilling.tsx:281`, `:435`, refused by `subscriptions.py:82`); and the team's remove button stands beside the last owner
(`orgs/views.py:507`). For these only who may press is checked, and `ToldTruly` says what the user is then told.
`NamesItsRow`: three forms ask for the person or the address they are about, so no state can hide them.

The actions that make any exception an answer may tell the user that something failed which was
done; a second try then does it twice. So may every action that catches the API's errors, when the API breaks after
its commit: a 5xx is an `ApiError` like a refusal (`api.ts:107`). `ToldTruly` names both.

*Known divergences, with no run of their own.* Each is reachable in the modules unless it says otherwise.

* Billing. The last status written wins, older or not (`subscriptions.py:261`), and stays until the next event, where
  the module says that webhook and browser "can arrive in any order" (`:13-15`) and the model that `status` "mirrors
  Stripe's own status" (`models.py:15`); what is checked is that a row shows a status its subscription has had. A delete lists rows, and a
  checkout just paid for has none yet (`:180`). `trial_end` is fixed when a session opens, so one opened
  before a code is redeemed charges at once (`:146`). The key of a failed payment is the same for ever, so the second is told to
  nobody (`:361`). Two workers that both find no row for a subscription insert two
  (`:237`: `select_for_update` locks nothing then, and there is no unique constraint on
  `provider_ref`), against "One row per subscription" (`models.py:8`); `RowsAreBounded` says how many. Two checkout pages opened before either completes leave two
  subscriptions (`:144`). A code is redeemed past its cap by requests in flight
  (`:65`, bounded by `OvershootIsBounded`). A notice is sent again after a run that rolled
  back (`:388`, bounded by `DuplicatesAreBounded`).
* Team invites. "One invite and at most one reminder, ever, per address per org" (`team_invites.py:13`; admins are told
  the same at `AffiliationsTab.tsx:467`) is kept for each row only: an address that declined, or let thirty days
  pass, may be invited and reminded again (`RemindersAreBounded`). "20 a day and 50 a week" are exceeded by
  requests in flight together (`:130`, bounded by `QuotasAreBounded`). Two runs of the upkeep job that read their list before either
  commits both remind (`:372`, in the same bound). They may also meet the same rows in
  different orders (`:362`, no `order_by`) and wait for each other until the database stops one, after it has emailed.
* Pages. Without a plan the billing tab mounts two forms for a code, one in the notice and one in the tab, each with a flag
  of its own (`OrgBilling.tsx:281`, `:435`); the report form of an invite stands in both of its faces; and a form
  closed and opened again starts with its flag down. The second can be sent before the effect of the first is on the page;
  `NoBlindRepeat` is about one mounted component. `error.tsx`'s button renders the same stale page again. A plain `<form action>` may be pressed twice: it is meant twice
  (`Bare`). `SuggestionsStep.tsx:30-43` remembers one busy card of several. A title field's `onBlur`
  saves, and so attests again, a membership still pending. Renewing a role and answering an application do not ask for the plan.
* Messages. A window shows the newest 30 messages and has no way to ask for older ones (`messaging/views.py:165`,
  `messaging-shared.tsx:17-25` sends no cursor). The messages page drops a message just sent when an older list arrives, or shows it twice, until the next
  poll (so `SentStaysShown` is about the dock).
* Read in the code, outside every module: a refresh of the session under way at logout brings the session back;
  `NotificationsPanel.tsx:95` offers an affiliation request again that was answered;
  `notifications-context.tsx:107-111` clears all notifications even when the API refuses.

*Why the bounds are enough.* The interesting cases need two of one thing: two
workers on one event, two subscriptions of which one refuses to be cancelled, two
runs of a job, two rows for one address (the second created after the first was
answered). One crash makes the difference between none and some; what a second
would add is a repeat of the first. Three statuses make an update that overtakes another, and a
return to a status already had. Three requests are one more than a
cap of one can absorb with two. The safety properties of the passing runs, all but `OffersAreAllowed`, do not rest on the
bounds at all: they are proved for every value of the constants (section 6).
In `web` two presses make a queue, the one change by somebody else falls between any two steps, and a loss makes the
difference between a page that is told and one that is not; every page is an initial state. In `cofounder`
the third builder is one more than the deck holds of the others' cards when one is
answered, and the two users are enough for two transactions to overlap. In
`chat` two lists under way answer in either order, and four messages are two full lists of two. In `invite_quotas` the second request counts
while the first has not inserted yet, which is all the overshoot there is. In `invites` one address has one row to remind of at a time, so no two
runs wait for each other there: circles need two addresses, whose states are too many for a run, and are
covered by the proofs, which hold for any number of addresses and runs.
Deadlock is checked in `web` (a tab with nothing pressed may rest: `Done`), `cofounder`,
`chat` and the two runs of `Cofounder` that end in a finding. In the other models, which stop once their bounds are used up, it is not.

Symmetry is used in runs of safety properties only, over sets whose members are
interchangeable (subscriptions, workers, organisations, requests, users); the codes of
`codes_overlap` have different caps and are left out of it.

## 5. Fairness

* `BillingReminders`, `TeamInvites`: the workflows post the job every day
  (`WF` on `JobStart`), and a run that has started goes on (`WF` on `JobWork`) until
  it commits, aborts or fails, killed workers being bounded by `MaxAborts`; a run of a circle is stopped by PostgreSQL in the end
  (`deadlock_timeout`), whatever that bound is, since otherwise both would wait for ever. A webhook
  worker that is about to tell an owner does. Time, owners and invitees are
  not obliged to do anything.
* `WebPages`: a press that was made is served or lost, and its answer is worked off (`WF` on `Serve`,
  `Succeed`, `Fail`, `Suspend`: the client has a timeout, and Next.js runs the next action when one ends). Users press nothing they do not want to.
* `Chat`: the interval goes on while the window is open (`WF` on `Tick`), a message is posted or refused, its answer is
  shown, and lists are served and shown (`WF` for each place in the list of requests); losses are bounded by
  `MaxLosses`. Nobody is obliged to write.
* `StripeSync`, `PromoCodes`, `Cofounder` assume none: all they say is safety. That every event is applied in the end is not true of the code (finding 1).

## 6. Proofs

All of it is checked by `tlapm` with SMT, Zenon and LS4.

**`StripeSyncProofs`.** The inductive invariant is `IInv`: types, `SessionsMatch` (a
subscription exists exactly when its session is complete), `WorkersHoldHistory` (what a worker is about to write is a
status the subscription has had), `RowsMirrorStripe` itself, and `DeletesProgress`
(what a delete has listed and is not still to cancel has ended). `RowsMirrorStripe` is not
inductive without the third: a worker writes what it read
some steps before. `DeletedOrgStopsWhatItListed` needs the last, and that `StripeMoves` leaves
no ended status. From it: `TypeCorrect`, `RowsAlwaysMirror`,
`DeletedOrgStops`. `EffectsHappenOnce` has its own invariant, `Exclusive`: an event
a worker is applying is recorded, is not applied, and is in no other
worker's hands. `AInv` adds `NoOrphans` (a deleted organisation has no row
and no free period), and three facts about trials: a subscription that has ever been
`trialing` was bought with a trial (`TrialsAreKnown`), a session not yet open has none
(`NoTrialYet`), and while the free period behind a trial session is still open, no row
of the organisation is managed by Stripe (`TrialsWait`): every managed status written closes
the period, so a row written later from it is the one that grants access. With them: `NothingComesBack`; `TakeOverIsSafe`, the action property that the step
closing a free year leaves a row granting access; and `FreePeriodIsKept`, that
`StripeSync` implements `FreePeriod`, by cases on what the step moves
(`WhatMoves`).

**`StripeMirrorProofs`** is about what becomes of events, for any number of workers, in any order, repeated and with any
crashes. `LossInv` pairs every lost event (recorded, in nobody's hands, not applied) with a crash of its own: no more
are lost than there are crashes (`CrashesAreCounted`). What was handled left its row: `AppliedLeftARow` says it of what is applied,
which wrote its row at that step, and a row goes only with its organisation; `InvoicesApart` tells the workers that record an invoice
from those that mirror a subscription; and what is recorded and not applied is in a worker's hands or lost (`HandledEventsLeaveARow`). `RowsToCome` counts a subscription's rows and the workers about to insert
one, since a row only comes from a worker that found none, and none does so once there is one: together they are at most as many as
the workers (`RowsBounded`, for any finite set of them).

**`PromoCodesProofs`.** `PInv`: types, one row at most per organisation, no request
in flight for a code capped at zero, and `WithinReach`: redemptions
and requests in flight together stay below the cap plus the number of requests.
The argument counts: a request enters only when redemptions are below the cap,
and an insert moves one from the second count to the first. Rests on finite sets
of organisations and requests. Theorems: `CodesTypeCorrect`, `OneFreePeriod`
(the check and the insert are two steps; the constraint on the rows is what holds it), `OvershootBound`,
`CodesKeepThePromise`.

**`BillingRemindersProofs`.** `BInv`: types, a deleted organisation has no free
period, and two facts about what a run of the job holds: a list may be behind but
never ahead (`ListsAreBehind`: what it has at its end is at its end), and what a run has
paused exists and was at its end (`PausedHaveEnded`: the row stays locked until the run
is over, so no delete slips in between). `NoYearCutShort` is about a commit,
which writes what was decided many steps before; these two facts carry it there. From
it: `RemindersTypeCorrect`, `YearsRunTheirCourse`, `RemindersKeepThePromise`.
`NoticesAreBounded` counts, with `DInv`: until a notice has its `Notification`, each
time it was sent is a run that still holds it or one that aborted
(`NoticesInReach`); each warning of a failed payment uses up a worker that had found
no `Notification`, and none joins them later (`WarningsInReach`). Rests on finite sets of runs and
workers.

**`TeamInvitesProofs`.** `IInv`: types; `Addresses` (a row has the address it was
made for until it is answered, and none after); `SavedExist` (a request about to
email holds a row that exists); what runs of the job hold, `IdleHoldNothing`,
`LocksExclude` (no row is held by two runs) and `ExpiringAreUnanswered`; and
`ComplaintsHold`, with `ReportBlocks`. `AnswerIsFinal` is about `JobCommit`
writing "expired" over what it read at its start: `LocksExclude` says no other run, and
`Answered` nobody else, closed the row meanwhile (`LockedRowsKept`). Each
step's effect on the rows is one of four, by `WhatMoves`: a row ages, is answered,
is made, or a run commits. Theorems: `InvitesTypeCorrect`, `AnswersStand`,
`ReportsBlock`, `OptOutsAreFinal` (`Settled` is preserved: whatever could reach
the address again is refused, closed or unlisted). The rest counts, over finite sets of runs and requests.
`RemindersInReach`: a reminder of a row not yet marked was sent by a run that aborted
or holds the row; and, address by address, reminders sent plus runs that still list one of its rows stay within the rows
made for it, the aborts and the overlaps. `CInv` pairs each verified affiliation with an
accepted invite. `QuotaInReach` is the argument of `WithinReach`. Theorems:
`RemindersBounded`, `ConsentIsExplicit`, `QuotasBounded` (one argument, of any quota over any period, serves the day
and the week: rows only grow older).

`InvitesKeepThePromise` is the refinement of `Invitation`, action by action. What could break it is, again, a step that
acts on what was read before: the insert, which the uniqueness of unanswered rows holds
back (an unanswered row still has its address, by `Addresses`); the commit of a run, whose rows are all still unanswered (`ExpiringAreUnanswered`), so that
it is one `Expire` of them; and the filing of a report, which blocks the address it had read, hence
that of an invite (`ComplaintsHold`): it is a `Decline` if the invite is still open and a `Block` if not.
`AnswersStand` says of it the part people notice.

`UpkeepGoesOn` is about runs of the job that wait for each other: at any moment, if runs are under way, one of them has its next
row free or nothing left to do, or is in a circle, which the database breaks; and a run in a circle
overlaps another, so that a run alone is never stopped for it. `AInv` adds that the row a loop is at is one of its
list (`NextIsListed` and `Apart`). If no run goes on, each waits for another: the smallest set of runs each of which waits for one of
the set (`Least`; there is one because runs are finitely many) is a circle (`ClosedHasCircle`).

**`CofounderProofs`.** `FInv`: types, for which a day's deck is described by what is true of it (the one list that keeps the
ranking's order) and not by a filter; `Requested` (an answer under way is about somebody else); `MatchInv`, that is `YesIsKept` (an answer stored as a
yes was one) and
`ReadIsFounded`: a transaction between its read and its commit that will make a match is about a builder,
brings a yes, and has read a yes of the other side, which was said. `MatchNeedsBoth` is not inductive
without it, since the match is written a step after the read. `DeckIsUnanswered` carries `NoSecondLook`: the cached deck may be
hours old, yet nobody in it has been answered since, every answer dropping the cache in its own transaction. Theorems: `CofounderTypeCorrect`, `MatchesNeedBoth`,
`NobodyIsAskedTwice`. `BlockedStaysGone` says the same of those a user has blocked, with `DeckIsUnblocked`, in which the moment between
the block and the page rendered after it is the only exception; as in `NoSecondLook`, nothing must have been lost.

**`WebPagesProofs`.** Of the pages' tables the proofs use only `TablesAssumption`: a call keeps the row within
the rows its page is about; a control that changes the row leaves the page, renders it again or is written into the component's own
state; a page that a refusal may replace by the error page renders all its changes; and the
one page that guesses has one flag for all of them and hears of every failure. TLC evaluates it on all the pages of the program, so a
page that forgets its `revalidatePath` fails there. What the tables do not say is what the tab does over time, for any queue of
presses, any changes by others and any losses; that is proved. `AnswersAreTrue`: only the head of the queue
has an answer, and the answer says what was done. `ErrorsAreRefusals`: without a loss the error page comes from a refusal nothing catches.
`UnseenArePending`: until something is lost, a component whose effect is not on the page (its flag is in `unseen`) is the one whose answered press is at the
head of the queue, behind the error page too, so its own flag is still up. `PageIsCurrent`: the page is exactly one press away from the API's state, the
one at the head of the queue, ahead of it where it was guessed and behind it where it was answered; on a page that guesses that press is alone
(`OneGuessAtATime`). Theorems: `PagesTypeCorrect`,
`UserIsToldTruly`, `RepeatsAreSighted`, `AnsweredPageIsCurrent`.
`FairTabAnswers` is the liveness property `AllAnswered`: every press, served, refused, lost or suspended, has its answer in
the end. The head of the queue waits, is ready, has failed or is halted (`HeadGoesOn`), and the fair action of each of these four changes it or
shortens the queue (`TakingShortens`). Its hypothesis `CanRun` says of each of the four actions that it is enabled when its
guard holds; ENABLED is beyond the prover, and TLC evaluates `CanRun` to true in every state of
the instance of `web`, where `AllAnswered` is a property of the run without it.

**`ChatProofs`.** `ChatInv`: types, `SentExist` (what was answered for is in the conversation), and
`NewestHasAll`: in the dock, a list that has answered and will still be shown was answered after
everything the window has sent. Sending supersedes the lists under way, asking again does too, and a list that
answers has the newest messages of that moment: a message sent is among them, or they are `Limit` newer ones. `Limit`
is any positive number. Theorem: `SentStays`.

Assumptions are those the modules declare (bounds are naturals, `Cap` maps codes to
naturals, requests, runs, builders and webhook workers are finitely many, `Launch` is no code, no organisation is called "idle", no address is empty, users are builders,
`TablesAssumption`). None of them limits
how many organisations, subscriptions, workers or statuses there are. One theorem has a hypothesis of its
own, `FairTabAnswers`, named above.

*Model-checked only.* Three liveness properties (`EndedYearIsTold`,
`EveryAddressForgotten`, `WindowCatchesUp`): each needs an induction over how
much is left (rows of a list, losses), which temporal steps cannot be chained by here, and facts about
ENABLED. `AllAnswered` is a theorem up to `CanRun`. `UpkeepGoesOn` is the safety half of `EveryAddressForgotten`: no state in which
all runs wait for ever. `OffersAreAllowed` compares two tables, the conditions of the
components and the permissions of the API, control by control; TLC goes through both completely, and there is no step of
the system in it to prove anything about.

## 7. Plan

Done: `StripeSync`, `FreePeriod`, `PromoCodes`, `BillingReminders`,
`TeamInvites`, `Cofounder`, `Chat`, `WebPages` and the modules of the pages, with their runs and the proofs above. Next, most important first:

1. `Claims`: `affiliations/services.py` composed with `TeamInvites` on one
   person's role, and the investment records that share its two-sided
   confirmation. Abstract specification: a claim is decided once, by whoever did
   not make it. Properties: a decision stands; a verified claim has the other
   side's consent. Two stale readers, one withdrawal.
2. `Newsletter`: queue and batches with `skip_locked`, aborts between an email
   and its commit. Abstract specification: each recipient is sent an issue at most once
   more than there were aborts, and at least once in the long run.
3. `Connections`: requests, connections, and the one conversation of a pair.
   Abstract specification: a symmetric relation that both sides asked for.
4. `OrgMembership`: roles, last owner, invitations, rounds; composed with the
   delete of `StripeSync` for an account's organisations.
5. `SigninCode` over the cache of `RateLimit`.
6. Link previews, counters and job posts.
7. `Notifications`: aggregation and limits, with the bell and its panel.
8. The front end's session refresh, for which tabs race.

Theorems to add: of each module above, its type invariant and the finality of its
decisions.

## 8. Not modelled

* *Data that no property tells apart*: plans, prices and period dates of a
  subscription, the `StripeCustomer` row, names and texts of emails, the role and note
  of an invite, where a sign-up came from.
* *Other services*: Stripe's own guarantees, Firebase's tokens, SMTP. They are
  environment actions with the freedom their use in the code allows.
* *Row-level security policies*: they filter what a query returns; only the
  transaction that the middleware opens for them matters to the order of events.
* *Sequential functions of one request*: profile completeness, ladders, badges,
  LinkedIn import, discovery ranking, NIF checks, badge images. Unit tests reach them.
* *Roll-ups and analytics*: recomputed from rows, and a repeat overwrites.
* *Of the pages*: the notification bell and its panel, the email preference toggle, share links and cards, statistics, calendars'
  layout, the follow buttons of the feed's side column, Google's own sign-in window, the marketing pages; the sections (preferences, advisory, credentials) and
  the server actions (`updateMemberRoleAction`, `connectStripeTractionAction`, `createInvestorPostAction`, the two of a declared
  membership skill) that no page uses; two tabs of one user; what a form contains.
* *Of co-founder matching*: the score behind the ranking, a match's outcome and the organisation founded from it
  (the matches page has their controls). *Of Stripe's answers*: a status the code does not know, for which it keeps the row's
  own (`subscriptions.py:247-248`). *Of messaging*: opening a conversation from both sides, read marks, an organisation's inbox as other
  than a second kind of conversation.
* *Migrations, workflows* other than as the source of job requests.
