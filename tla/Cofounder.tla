----------------------------- MODULE Cofounder -----------------------------
(***************************************************************************)
(* Co-founder matching.  A builder goes through a deck of cards, one at a  *)
(* time, and answers each with yes or no; two yes make a match, and a      *)
(* match opens a conversation.  The deck of the day is a list of ids kept  *)
(* in a cache; the browser keeps the list it was last rendered with and    *)
(* its place in it.                                                        *)
(***************************************************************************)
EXTENDS Naturals, Sequences, FiniteSets

CONSTANTS Builders,    \* everybody with a builder card
          Users,       \* those who have the page open in this model, one tab each
          DailyLimit,  \* cards in a deck
          MaxChanges,  \* somebody opts in or out, or a new day starts
          MaxLosses    \* requests, answers and parts of a page that are lost

ASSUME UsersAreBuilders == Users \subseteq Builders
ASSUME BoundsAssumption ==
  IsFiniteSet(Builders) /\ DailyLimit \in Nat /\ MaxChanges \in Nat /\ MaxLosses \in Nat

VARIABLES active,   \* the builders who are looking: BuilderProfile.is_active
          answer,   \* CofounderInterest: what each said of each
          saidYes,  \* history: the pairs of which the first has ever said yes to the second
          matches,  \* CofounderMatch, as a set of pairs
          blocks,   \* UserBlock
          cache,    \* the ids of each user's deck of the day, when it was drawn
          request,  \* the press of each user that is under way
          cards, place, opted,  \* the page: its cards, which one is shown, and whether it is a deck
          changes, losses

db == <<active, answer, saidYes, matches, blocks, cache>>
tab == <<request, cards, place, opted>>
vars == <<active, answer, saidYes, matches, blocks, cache, request, cards, place, opted, changes, losses>>

Idle == [what |-> "none", about |-> "none", step |-> "none", mutual |-> FALSE]
Ask(what, q) == [what |-> what, about |-> q, step |-> "sent", mutual |-> FALSE]

Blocked(p, q) == <<p, q>> \in blocks \/ <<q, p>> \in blocks

(* The deck of the day. *)
Least(a, b) == IF a < b THEN a ELSE b
\* Mutant: those already answered are not left out.
AnyCandidates(p) == {q \in active \ {p} : ~Blocked(p, q)}
EligibleCandidates(p) ==
  {q \in active \ {p} : answer[<<p, q>>] = "none" /\ ~Blocked(p, q)}
\* The ranking is any order of the candidates.
BuildDeck(p) ==
  IF p \notin active THEN {<<>>}
  ELSE LET n == Least(DailyLimit, Cardinality(EligibleCandidates(p)))
       IN {ids \in [1 .. n -> EligibleCandidates(p)] : \A i, j \in 1 .. n : ids[i] = ids[j] => i = j}
\* Only the ids are cached: the rows are read again every time, and those still there keep the
\* order of the ids.  There is one such list: at is the increasing function onto them.
DailyDeck(p, ids) ==
  LET kept == {i \in DOMAIN ids : ids[i] \in EligibleCandidates(p)}
      n == Cardinality(kept)
  IN {[k \in 1 .. n |-> ids[at[k]]] :
        at \in {f \in [1 .. n -> kept] : \A j, k \in 1 .. n : j < k => f[j] < f[k]}}

Drawn(p) == IF cache[p] = {} THEN BuildDeck(p) ELSE cache[p]

(* The page. *)
CardAt(list, i) == IF i \in DOMAIN list THEN {list[i]} ELSE {}
Current(p) == IF opted[p] THEN CardAt(cards[p], place[p]) ELSE {}

\* The page of a user, rendered with the deck as it is now; the deck may not load.
Render(p) ==
  \/ /\ p \in active
     /\ \E ids \in Drawn(p) :
          /\ cache' = [cache EXCEPT ![p] = {ids}]
          /\ \E list \in DailyDeck(p, ids) : cards' = [cards EXCEPT ![p] = list]
     /\ opted' = [opted EXCEPT ![p] = TRUE]
     /\ losses' = losses
  \/ /\ p \notin active \/ losses < MaxLosses
     /\ cards' = [cards EXCEPT ![p] = <<>>]
     /\ opted' = [opted EXCEPT ![p] = FALSE]
     /\ losses' = IF p \in active THEN losses + 1 ELSE losses
     /\ cache' = cache

Init ==
  /\ active = Builders
  /\ answer = [pq \in Builders \X Builders |-> "none"]
  /\ saidYes = {} /\ matches = {} /\ blocks = {}
  /\ cache = [p \in Users |-> {}]
  /\ request = [p \in Users |-> Idle]
  /\ cards = [p \in Users |-> <<>>] /\ place = [p \in Users |-> 1]
  /\ opted = [p \in Users |-> FALSE]
  /\ changes = 0 /\ losses = 0

\* The page is loaded, or loaded again.
Load(p) ==
  /\ request[p] = Idle
  /\ Render(p)
  /\ place' = [place EXCEPT ![p] = 1]
  /\ UNCHANGED <<active, answer, saidYes, matches, blocks, request, changes>>

\* Mutant: places counted from zero.
SelectTabFromZero(p) ==
  /\ request[p] = Idle /\ place[p] # 0
  /\ place' = [place EXCEPT ![p] = 0]
  /\ UNCHANGED <<db, request, cards, opted, changes, losses>>
\* Another tab of the page and back: the deck starts again with the cards it has.
SelectTab(p) ==
  /\ request[p] = Idle /\ place[p] # 1
  /\ place' = [place EXCEPT ![p] = 1]
  /\ UNCHANGED <<db, request, cards, opted, changes, losses>>

\* "Interested", "Pass": nothing is pressed while a request is under way.
Decide(p, what) ==
  /\ request[p] = Idle
  /\ \E q \in Current(p) : request' = [request EXCEPT ![p] = Ask(what, q)]
  /\ UNCHANGED <<db, cards, place, opted, changes, losses>>

\* "Block", in the safety dialog of the card shown.
SubmitBlock(p) ==
  /\ request[p] = Idle
  /\ \E q \in Current(p) : request' = [request EXCEPT ![p] = Ask("block", q)]
  /\ UNCHANGED <<db, cards, place, opted, changes, losses>>

(* The API.  record_interest is one transaction: what another transaction has *)
(* not committed yet is not read.                                            *)
Step(p, s) == request' = [request EXCEPT ![p].step = s]

\* Not opted in, gone, blocked, or too many today.
Refuse(p) ==
  /\ request[p].step = "sent" /\ request[p].what # "block"
  /\ Step(p, "refused")
  /\ UNCHANGED <<db, cards, place, opted, changes, losses>>

\* Mutant: the answer of the other side is looked for, not whether it was yes.
RecordAnyInterest(p) ==
  LET q == request[p].about
  IN /\ request[p].step = "sent" /\ request[p].what \in {"yes", "no"}
     /\ p \in active /\ q \in active /\ ~Blocked(p, q)
     /\ request' = [request EXCEPT ![p].step = "read",
                                   ![p].mutual = request[p].what = "yes" /\ answer[<<q, p>>] # "none"]
     /\ UNCHANGED <<db, cards, place, opted, changes, losses>>
RecordInterest(p) ==
  LET q == request[p].about
  IN /\ request[p].step = "sent" /\ request[p].what \in {"yes", "no"}
     /\ p \in active /\ q \in active /\ ~Blocked(p, q)
     /\ request' = [request EXCEPT ![p].step = "read",
                                   ![p].mutual = request[p].what = "yes" /\ answer[<<q, p>>] = "yes"]
     /\ UNCHANGED <<db, cards, place, opted, changes, losses>>

\* The transaction ends: the answer is there for others to read, and with it the match.
CreateMatch(p, q) ==
  /\ matches' = matches \cup {{p, q}}
  /\ cache' = IF {p, q} \in matches THEN cache ELSE [u \in Users |-> IF u \in {p, q} THEN {} ELSE cache[u]]
CommitInterest(p) ==
  LET q == request[p].about
  IN /\ request[p].step = "read"
     /\ answer' = [answer EXCEPT ![<<p, q>>] = request[p].what]
     /\ saidYes' = IF request[p].what = "yes" THEN saidYes \cup {<<p, q>>} ELSE saidYes
     /\ IF request[p].mutual THEN CreateMatch(p, q) ELSE UNCHANGED <<matches, cache>>
     /\ Step(p, "done")
     /\ UNCHANGED <<active, blocks, cards, place, opted, changes, losses>>

BlockUser(p) ==
  /\ request[p].step = "sent" /\ request[p].what = "block"
  /\ blocks' = blocks \cup {<<p, request[p].about>>}
  /\ Step(p, "done")
  /\ UNCHANGED <<active, answer, saidYes, matches, cache, cards, place, opted, changes, losses>>

Lose(p) ==
  /\ request[p].step \in {"sent", "done"} /\ losses < MaxLosses
  /\ Step(p, "refused") /\ losses' = losses + 1
  /\ UNCHANGED <<db, cards, place, opted, changes>>

(* The answers.  Both actions revalidate the page: its cards are those of now. *)
Answered(p) ==
  /\ request[p].step = "done" /\ request[p].what # "block"
  /\ Render(p)
  /\ place' = [place EXCEPT ![p] = @ + 1]
  /\ request' = [request EXCEPT ![p] = Idle]
  /\ UNCHANGED <<active, answer, saidYes, matches, blocks, changes>>

\* The card of somebody blocked is gone from the deck, and the dialog with it: its "Done", which
\* would move the deck on, is never there to press.
AnsweredBlock(p) ==
  /\ request[p].step = "done" /\ request[p].what = "block"
  /\ Render(p)
  /\ request' = [request EXCEPT ![p] = Idle]
  /\ UNCHANGED <<active, answer, saidYes, matches, blocks, place, changes>>

\* An error is shown under the card.
Failed(p) ==
  /\ request[p].step = "refused"
  /\ request' = [request EXCEPT ![p] = Idle]
  /\ UNCHANGED <<db, cards, place, opted, changes, losses>>

(* Everything else. *)
\* A builder card is saved: somebody opts out, or back in, and their deck is drawn anew.
SaveCard(q) ==
  /\ changes < MaxChanges /\ changes' = changes + 1
  /\ active' = IF q \in active THEN active \ {q} ELSE active \cup {q}
  /\ cache' = [p \in Users |-> IF p = q THEN {} ELSE cache[p]]
  /\ UNCHANGED <<answer, saidYes, matches, blocks, tab, losses>>

\* The cached deck expires at midnight in Lisbon.
NewDay ==
  /\ changes < MaxChanges /\ changes' = changes + 1
  /\ cache' = [p \in Users |-> {}]
  /\ UNCHANGED <<active, answer, saidYes, matches, blocks, tab, losses>>

Next ==
  \/ \E p \in Users :
       \/ Load(p) \/ SelectTab(p) \/ SubmitBlock(p)
       \/ \E what \in {"yes", "no"} : Decide(p, what)
       \/ Refuse(p) \/ RecordInterest(p) \/ CommitInterest(p) \/ BlockUser(p) \/ Lose(p)
       \/ Answered(p) \/ AnsweredBlock(p) \/ Failed(p)
  \/ \E q \in Builders : SaveCard(q)
  \/ NewDay

Spec == Init /\ [][Next]_vars

Requests ==
  [what : {"none", "yes", "no", "block"}, about : Builders \cup {"none"},
   step : {"none", "sent", "read", "done", "refused"}, mutual : BOOLEAN]
\* What the database and the page hold; the place in the deck is a position, or past its end.
TypeOK ==
  /\ active \subseteq Builders /\ matches \subseteq SUBSET Builders
  /\ blocks \subseteq Builders \X Builders /\ saidYes \subseteq Builders \X Builders
  /\ answer \in [Builders \X Builders -> {"none", "yes", "no"}]
  /\ cache \in [Users -> SUBSET Seq(Builders)]
  /\ request \in [Users -> Requests]
  /\ cards \in [Users -> Seq(Builders)]
  /\ place \in [Users -> Nat \ {0}] /\ opted \in [Users -> BOOLEAN]
  /\ changes \in Nat /\ losses \in Nat

\* A match is made of two yes, never of one, whatever is under way at the same moment:
\* record_interest, "a match exists only when both sides said yes".
MatchNeedsBoth == \A p, q \in Builders : {p, q} \in matches => <<p, q>> \in saidYes /\ <<q, p>> \in saidYes

\* What a user has answered is not put before them again, although the deck of the day is kept in a
\* cache and the browser keeps its place in an older list: daily_deck reads the rows again.
NoSecondLook ==
  losses = 0 => \A p \in Users : request[p] = Idle => \A q \in Current(p) : answer[<<p, q>>] = "none"

\* At the end of the deck the page says "You went through all {cards.length} of today's builders":
\* each of them has had an answer.
EndMeansSeen ==
  \A p \in Users : request[p] = Idle /\ opted[p] /\ place[p] > Len(cards[p]) =>
    \A i \in 1 .. Len(cards[p]) : answer[<<p, cards[p][i]>>] # "none"

\* Two who have both said yes are a match: "a match is mutual interest".
BothYesIsAMatch ==
  \A p, q \in Users : p # q /\ request[p] = Idle /\ request[q] = Idle
    /\ answer[<<p, q>>] = "yes" /\ answer[<<q, p>>] = "yes" => {p, q} \in matches
=============================================================================
