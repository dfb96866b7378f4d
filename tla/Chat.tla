-------------------------------- MODULE Chat --------------------------------
(***************************************************************************)
(* One conversation, followed in one window.  The window asks for the list *)
(* of messages again and again, replaces what it shows by the answer, and  *)
(* adds the user's own messages as soon as they are answered for.  It is a *)
(* chat of the dock, which drops the answers older than what it shows, or  *)
(* the chat of the messages page, which shows whatever answer comes.  A    *)
(* message is its place in the conversation.  A list has the newest Limit  *)
(* messages and the window asks for no others.                             *)
(***************************************************************************)
EXTENDS Naturals, Sequences

CONSTANTS Limit,        \* DEFAULT_LIMIT: the messages a list has at most
          MaxMessages,  \* messages of the conversation
          MaxPolls,     \* requests for the list under way at once
          MaxShows,     \* times the window is restored, or its browser tab shown again
          MaxLosses     \* requests and answers that are lost

ASSUME LimitAssumption == Limit \in Nat \ {0}

VARIABLES kind,     \* "dock": a ChatWindow of the dock; "page": the HubChat of the messages page
          length,   \* how many messages the conversation has
          window,   \* "closed", "open", "minimized"
          screen,   \* the messages the window holds, from the top
          polls,    \* the requests for the list under way, oldest first
          sending,  \* the press of Send under way
          sent,     \* history: the messages sent from this window and answered for
          shows, losses

vars == <<kind, length, window, screen, polls, sending, sent, shows, losses>>

Idle == [step |-> "none", here |-> FALSE, id |-> 0]
Asked == [step |-> "asked", upTo |-> 0, current |-> TRUE]

Init ==
  /\ kind \in {"dock", "page"}
  /\ length = 0 /\ window = "closed" /\ screen = <<>> /\ polls = <<>>
  /\ sending = Idle /\ sent = {}
  /\ shows = 0 /\ losses = 0

(* The requests for the list. *)
Outdated(list) == [i \in DOMAIN list |-> [list[i] EXCEPT !.current = FALSE]]
\* requestIdRef: only the dock has it.
Superseded == IF kind = "dock" THEN Outdated(polls) ELSE polls
Without(list, i) == SubSeq(list, 1, i - 1) \o SubSeq(list, i + 1, Len(list))

RefreshMessages ==
  /\ Len(polls) < MaxPolls
  /\ polls' = Append(Superseded, Asked)

\* Mutant: only an empty window asks by itself.
TickWhenEmpty ==
  /\ window = "open" /\ polls = <<>> /\ screen = <<>>
  /\ RefreshMessages
  /\ UNCHANGED <<kind, length, window, screen, sending, sent, shows, losses>>
\* The interval; an answer is quicker than the interval is long.
Tick ==
  /\ window = "open" /\ polls = <<>>
  /\ RefreshMessages
  /\ UNCHANGED <<kind, length, window, screen, sending, sent, shows, losses>>

\* The browser tab is hidden and shown again.
ShowTab ==
  /\ window = "open" /\ shows < MaxShows
  /\ RefreshMessages
  /\ shows' = shows + 1
  /\ UNCHANGED <<kind, length, window, screen, sending, sent, losses>>

\* The newest Limit of the messages there are at this moment.
ServeList(i) ==
  /\ polls[i].step = "asked"
  /\ polls' = [polls EXCEPT ![i].step = "answered", ![i].upTo = length]
  /\ UNCHANGED <<kind, length, window, screen, sending, sent, shows, losses>>

\* The list answered when there were n messages, oldest first.
Listed(n) == IF n <= Limit THEN n ELSE Limit
Newest(n) == [k \in 1 .. Listed(n) |-> n - Listed(n) + k]
ShowList(i) ==
  /\ polls[i].step = "answered"
  /\ polls' = Without(polls, i)
  /\ screen' = IF polls[i].current THEN Newest(polls[i].upTo) ELSE screen
  /\ UNCHANGED <<kind, length, window, sending, sent, shows, losses>>

LoseList(i) ==
  /\ losses < MaxLosses /\ losses' = losses + 1
  /\ polls' = Without(polls, i)
  /\ UNCHANGED <<kind, length, window, screen, sending, sent, shows>>

(* The window. *)
Open ==
  /\ window = "closed" /\ window' = "open"
  /\ screen' = <<>> /\ sent' = {}
  /\ RefreshMessages
  /\ UNCHANGED <<kind, length, sending, shows, losses>>

\* What is under way goes on without the window.
Close ==
  /\ window # "closed" /\ window' = "closed"
  /\ polls' = Outdated(polls)
  /\ sending' = [sending EXCEPT !.here = FALSE]
  /\ UNCHANGED <<kind, length, screen, sent, shows, losses>>

Minimize ==
  /\ kind = "dock" /\ window = "open" /\ window' = "minimized"
  /\ UNCHANGED <<kind, length, screen, polls, sending, sent, shows, losses>>

Restore ==
  /\ window = "minimized" /\ window' = "open"
  /\ shows < MaxShows /\ shows' = shows + 1
  /\ RefreshMessages
  /\ UNCHANGED <<kind, length, screen, sending, sent, losses>>

(* Sending. *)
Send ==
  /\ window = "open" /\ sending = Idle
  /\ sending' = [step |-> "asked", here |-> TRUE, id |-> 0]
  /\ UNCHANGED <<kind, length, window, screen, polls, sent, shows, losses>>

PostMessage ==
  /\ sending.step = "asked" /\ length < MaxMessages
  /\ length' = length + 1
  /\ sending' = [sending EXCEPT !.step = "sent", !.id = length']
  /\ UNCHANGED <<kind, window, screen, polls, sent, shows, losses>>

\* Blocked, or too many in an hour.
RefuseMessage ==
  /\ sending.step = "asked"
  /\ sending' = Idle
  /\ UNCHANGED <<kind, length, window, screen, polls, sent, shows, losses>>

\* The user is told that it failed and has the text back, although it was sent.
LoseMessage ==
  /\ sending.step = "sent" /\ losses < MaxLosses
  /\ sending' = Idle /\ losses' = losses + 1
  /\ UNCHANGED <<kind, length, window, screen, polls, sent, shows>>

\* Mutant: the request for the list that is under way is not superseded.
AddSentOnly ==
  /\ sending.step = "sent"
  /\ sending' = Idle
  /\ IF sending.here
     THEN screen' = Append(screen, sending.id) /\ sent' = sent \cup {sending.id}
     ELSE UNCHANGED <<screen, sent>>
  /\ UNCHANGED <<kind, length, window, polls, shows, losses>>
AddSent ==
  /\ sending.step = "sent"
  /\ sending' = Idle
  /\ IF sending.here
     THEN screen' = Append(screen, sending.id) /\ sent' = sent \cup {sending.id} /\ polls' = Superseded
     ELSE UNCHANGED <<screen, sent, polls>>
  /\ UNCHANGED <<kind, length, window, shows, losses>>

\* A message of the other side.
OtherSide ==
  /\ length < MaxMessages /\ length' = length + 1
  /\ UNCHANGED <<kind, window, screen, polls, sending, sent, shows, losses>>

Next ==
  \/ Tick \/ ShowTab \/ Open \/ Close \/ Minimize \/ Restore
  \/ Send \/ PostMessage \/ RefuseMessage \/ LoseMessage \/ AddSent \/ OtherSide
  \/ \E i \in 1 .. Len(polls) : ServeList(i) \/ ShowList(i) \/ LoseList(i)

\* The interval goes on while the window is open, and requests are answered.
Fairness ==
  /\ WF_vars(Tick) /\ WF_vars(PostMessage \/ RefuseMessage) /\ WF_vars(AddSent)
  /\ \A i \in 1 .. MaxPolls : WF_vars(i \in DOMAIN polls /\ (ServeList(i) \/ ShowList(i)))

Spec == Init /\ [][Next]_vars /\ Fairness

\* A message that was answered for stays in the window of the dock it was sent from, whatever older
\* list arrives after it: only newer messages, a whole list of them, take its place.  That is the
\* request counter of ChatWindow.
Shown(m) == \E k \in DOMAIN screen : screen[k] = m
PushedOut(m) == Len(screen) >= Limit /\ \A k \in DOMAIN screen : screen[k] > m
SentStaysShown ==
  kind = "dock" /\ window # "closed" => \A m \in sent : Shown(m) \/ PushedOut(m)

\* A window that stays open comes to show the end of the conversation as it is, the newest messages
\* a list has, once each and in their order, after any lost, late or doubled answer: the interval of
\* useVisiblePolling.
WindowCatchesUp == []<>(window = "open" => screen = Newest(length))
=============================================================================
