-------------------------- MODULE CofounderProofs --------------------------
(***************************************************************************)
(* Proofs about Cofounder, for any finite number of builders, any pages,   *)
(* decks of any length and any number of changes and losses.               *)
(***************************************************************************)
EXTENDS Cofounder, FiniteSetTheorems, TLAPS

\* A press is about a builder whose card was shown, and only an answer is recorded.
Requested ==
  \A p \in Users :
    /\ request[p].step = "none" => request[p] = Idle
    /\ request[p].step # "none" => request[p].about \in Builders
    /\ request[p].step = "read" => request[p].what \in {"yes", "no"}

\* An answer read as a yes has been one.
YesIsKept == \A p, q \in Builders : answer[<<p, q>>] = "yes" => <<p, q>> \in saidYes

\* A transaction that will make a match has read the other yes and brings its own.
ReadIsFounded ==
  \A p \in Users : request[p].step = "read" /\ request[p].mutual =>
    request[p].what = "yes" /\ <<request[p].about, p>> \in saidYes

\* Every card of a page is one its user has not answered, but for the moment between an answer
\* of the API and the page it renders; not only the card shown, for the deck may start again.
DeckIsUnanswered ==
  losses = 0 => \A p \in Users : opted[p] /\ request[p].step # "done" =>
    \A i \in DOMAIN cards[p] : answer[<<p, cards[p][i]>>] = "none"

MatchInv == YesIsKept /\ ReadIsFounded /\ MatchNeedsBoth
FInv == TypeOK /\ Requested /\ MatchInv /\ DeckIsUnanswered

-----------------------------------------------------------------------------
(* The deck *)

\* Every card of the deck is of a builder the user may still answer.
LEMMA DailyDeckIsEligible ==
  ASSUME NEW p, NEW ids, NEW list \in DailyDeck(p, ids)
  PROVE  \A i \in DOMAIN list : list[i] \in EligibleCandidates(p)
  <1> DEFINE kept == {i \in DOMAIN ids : ids[i] \in EligibleCandidates(p)}
  <1> DEFINE n == Cardinality(kept)
  <1>1. PICK at \in [1 .. n -> kept] : list = [k \in 1 .. n |-> ids[at[k]]]
    BY DEF DailyDeck
  <1>2. \A k \in kept : ids[k] \in EligibleCandidates(p)
    OBVIOUS
  <1> HIDE DEF kept, n
  <1>3. QED
    BY <1>1, <1>2

LEMMA DailyDeckType ==
  ASSUME TypeOK, NEW p \in Users, NEW ids \in Seq(Builders), NEW list \in DailyDeck(p, ids)
  PROVE  list \in Seq(Builders)
  <1> DEFINE kept == {i \in DOMAIN ids : ids[i] \in EligibleCandidates(p)}
  <1> DEFINE n == Cardinality(kept)
  <1>1. PICK at \in [1 .. n -> kept] : list = [k \in 1 .. n |-> ids[at[k]]]
    BY DEF DailyDeck
  <1>2. kept \subseteq 1 .. Len(ids) /\ Len(ids) \in Nat
    OBVIOUS
  <1>3. n \in Nat
    <2> HIDE DEF kept
    <2>1. IsFiniteSet(1 .. Len(ids))
      BY <1>2, FS_Interval
    <2>2. IsFiniteSet(kept)
      BY <1>2, <2>1, FS_Subset
    <2>3. QED
      BY <2>2, FS_CardinalityType
  <1>4. \A k \in kept : ids[k] \in Builders
    OBVIOUS
  <1> HIDE DEF kept, n
  <1>5. \A k \in 1 .. n : ids[at[k]] \in Builders
    BY <1>1, <1>4
  <1>6. QED
    BY <1>1, <1>3, <1>5

LEMMA DrawnType ==
  ASSUME TypeOK, NEW p \in Users
  PROVE  Drawn(p) \subseteq Seq(Builders)
  <1> DEFINE n == Least(DailyLimit, Cardinality(EligibleCandidates(p)))
  <1>1. EligibleCandidates(p) \subseteq Builders
    BY DEF EligibleCandidates, TypeOK
  <1>2. n \in Nat
    BY <1>1, BoundsAssumption, FS_Subset, FS_CardinalityType DEF Least
  <1>3. BuildDeck(p) \subseteq {<<>>} \cup [1 .. n -> EligibleCandidates(p)]
    BY DEF BuildDeck
  <1> HIDE DEF n
  <1>4. BuildDeck(p) \subseteq Seq(Builders)
    <2>1. [1 .. n -> EligibleCandidates(p)] \subseteq [1 .. n -> Builders]
      BY <1>1
    <2>2. [1 .. n -> Builders] \subseteq Seq(Builders)
      BY <1>2
    <2>3. <<>> \in Seq(Builders)
      OBVIOUS
    <2>4. QED
      BY <1>3, <2>1, <2>2, <2>3, Zenon
  <1>5. QED
    BY <1>4 DEF Drawn, TypeOK

\* A page rendered keeps its type, and a deck on it holds nobody already answered.
LEMMA Rendered ==
  ASSUME TypeOK, NEW p \in Users, Render(p)
  PROVE  /\ cache' \in [Users -> SUBSET Seq(Builders)]
         /\ cards' \in [Users -> Seq(Builders)]
         /\ opted' \in [Users -> BOOLEAN]
         /\ losses' \in Nat /\ (losses' = 0 => losses = 0)
         /\ \A u \in Users \ {p} : cards'[u] = cards[u] /\ opted'[u] = opted[u]
         /\ \A i \in DOMAIN cards'[p] : answer[<<p, cards'[p][i]>>] = "none"
  <1>1. CASE /\ \E ids \in Drawn(p) :
                  /\ cache' = [cache EXCEPT ![p] = {ids}]
                  /\ \E list \in DailyDeck(p, ids) : cards' = [cards EXCEPT ![p] = list]
             /\ opted' = [opted EXCEPT ![p] = TRUE]
             /\ losses' = losses
    <2>1. PICK ids \in Drawn(p) :
                  /\ cache' = [cache EXCEPT ![p] = {ids}]
                  /\ \E list \in DailyDeck(p, ids) : cards' = [cards EXCEPT ![p] = list]
      BY <1>1
    <2>2. PICK list \in DailyDeck(p, ids) : cards' = [cards EXCEPT ![p] = list]
      BY <2>1
    <2>3. ids \in Seq(Builders) /\ list \in Seq(Builders)
      BY DrawnType, DailyDeckType
    <2>4. cards'[p] = list /\ \A u \in Users \ {p} : cards'[u] = cards[u]
      BY <2>2 DEF TypeOK
    <2>5. \A i \in DOMAIN list : answer[<<p, list[i]>>] = "none"
      BY DailyDeckIsEligible DEF EligibleCandidates
    <2>6. cache' \in [Users -> SUBSET Seq(Builders)]
      BY <2>1, <2>3 DEF TypeOK
    <2>7. cards' \in [Users -> Seq(Builders)]
      BY <2>2, <2>3 DEF TypeOK
    <2>8. opted' \in [Users -> BOOLEAN] /\ \A u \in Users \ {p} : opted'[u] = opted[u]
      BY <1>1 DEF TypeOK
    <2>9. QED
      BY <1>1, <2>4, <2>5, <2>6, <2>7, <2>8 DEF TypeOK
  <1>2. CASE /\ cards' = [cards EXCEPT ![p] = <<>>]
             /\ opted' = [opted EXCEPT ![p] = FALSE]
             /\ losses' = IF p \in active THEN losses + 1 ELSE losses
             /\ cache' = cache
    <2>1. <<>> \in Seq(Builders) /\ DOMAIN <<>> = {}
      OBVIOUS
    <2>2. cards'[p] = <<>> /\ \A u \in Users \ {p} : cards'[u] = cards[u]
      BY <1>2 DEF TypeOK
    <2>3. cards' \in [Users -> Seq(Builders)]
      BY <1>2, <2>1 DEF TypeOK
    <2>4. opted' \in [Users -> BOOLEAN] /\ \A u \in Users \ {p} : opted'[u] = opted[u]
      BY <1>2 DEF TypeOK
    <2>5. losses' \in Nat /\ (losses' = 0 => losses = 0)
      BY <1>2 DEF TypeOK
    <2>6. \A i \in DOMAIN cards'[p] : answer[<<p, cards'[p][i]>>] = "none"
      BY <2>1, <2>2
    <2>7. QED
      BY <1>2, <2>2, <2>3, <2>4, <2>5, <2>6 DEF TypeOK
  <1>3. QED
    BY <1>1, <1>2 DEF Render

\* The card pressed is a builder's.
LEMMA ShownIsBuilder ==
  ASSUME TypeOK, NEW p \in Users
  PROVE  Current(p) \subseteq Builders
  BY DEF TypeOK, Current, CardAt

-----------------------------------------------------------------------------
LEMMA FInit == Init => FInv
  <1> SUFFICES ASSUME Init PROVE FInv
    OBVIOUS
  <1>1. TypeOK
    <2>1. Idle \in Requests
      BY DEF Idle, Requests
    <2>2. <<>> \in Seq(Builders)
      OBVIOUS
    <2>3. QED
      BY <2>1, <2>2 DEF Init, TypeOK
  <1>2. Requested
    BY DEF Init, Requested, Idle
  <1>3. MatchInv
    BY DEF Init, MatchInv, YesIsKept, ReadIsFounded, MatchNeedsBoth, Idle
  <1>4. DeckIsUnanswered
    BY DEF Init, DeckIsUnanswered
  <1>5. QED
    BY <1>1, <1>2, <1>3, <1>4 DEF FInv

\* A press that changes without an answer being recorded, on a page that stays as it is.
LEMMA OnePressChanges ==
  ASSUME FInv, NEW p \in Users, NEW r \in Requests, request' = [request EXCEPT ![p] = r],
         r.step = "none" => r = Idle,
         r.step # "none" => r.about \in Builders,
         r.step = "read" => r.what \in {"yes", "no"},
         r.step = "read" /\ r.mutual => r.what = "yes" /\ <<r.about, p>> \in saidYes,
         request[p].step = "done" => r.step = "done" \/ losses' # 0,
         UNCHANGED <<answer, saidYes, matches, cards, opted>>,
         losses' = losses \/ losses' # 0
  PROVE  Requested' /\ MatchInv' /\ DeckIsUnanswered' /\ request' \in [Users -> Requests]
  <1>1. request'[p] = r /\ \A u \in Users \ {p} : request'[u] = request[u]
    BY DEF FInv, TypeOK
  <1>2. Requested'
    BY <1>1 DEF FInv, Requested
  <1>3. MatchInv'
    BY <1>1 DEF FInv, MatchInv, YesIsKept, ReadIsFounded, MatchNeedsBoth
  <1>4. DeckIsUnanswered'
    BY <1>1 DEF FInv, DeckIsUnanswered
  <1>5. request' \in [Users -> Requests]
    BY DEF FInv, TypeOK
  <1>6. QED
    BY <1>2, <1>3, <1>4, <1>5

\* The same, when only the step of the press changes.
LEMMA OneStepChanges ==
  ASSUME FInv, NEW p \in Users, NEW s \in {"done", "refused"}, Step(p, s),
         request[p].step # "none", request[p].step = "done" => losses' # 0,
         UNCHANGED <<answer, saidYes, matches, cards, opted>>,
         losses' = losses \/ losses' # 0
  PROVE  Requested' /\ MatchInv' /\ DeckIsUnanswered' /\ request' \in [Users -> Requests]
  <1> DEFINE r == [request[p] EXCEPT !.step = s]
  <1>1. r \in Requests /\ r.step = s /\ r.about = request[p].about
    BY DEF FInv, TypeOK, Requests
  <1>2. request' = [request EXCEPT ![p] = r]
    BY DEF Step
  <1>3. r.about \in Builders
    BY <1>1 DEF FInv, Requested
  <1> HIDE DEF r
  <1>4. QED
    BY <1>1, <1>2, <1>3, OnePressChanges

\* "Interested", "Pass" and "Block".
LEMMA PressKeeps ==
  ASSUME FInv, NEW p \in Users, NEW what \in {"yes", "no", "block"}, NEW q \in Current(p),
         request[p] = Idle, request' = [request EXCEPT ![p] = Ask(what, q)],
         UNCHANGED <<db, cards, place, opted, changes, losses>>
  PROVE  FInv'
  <1>1. q \in Builders
    BY ShownIsBuilder DEF FInv
  <1>2. /\ Ask(what, q) \in Requests /\ Ask(what, q).step = "sent"
        /\ Ask(what, q).about = q
    BY <1>1 DEF Ask, Requests
  <1>3. request[p].step = "none"
    BY DEF Idle
  <1>4. Requested' /\ MatchInv' /\ DeckIsUnanswered' /\ request' \in [Users -> Requests]
    BY <1>1, <1>2, <1>3, OnePressChanges DEF db
  <1>5. QED
    BY <1>4 DEF FInv, TypeOK, db

\* record_interest reads: the yes it finds has been said.
LEMMA ReadKeeps ==
  ASSUME FInv, NEW p \in Users, RecordInterest(p)
  PROVE  FInv'
  <1> DEFINE q == request[p].about
  <1> DEFINE m == request[p].what = "yes" /\ answer[<<q, p>>] = "yes"
  <1> DEFINE r == [request[p] EXCEPT !.step = "read", !.mutual = m]
  <1>1. m \in BOOLEAN
    OBVIOUS
  <1>2. request' = [request EXCEPT ![p] = r]
    BY DEF RecordInterest
  <1>3. request[p].what \in {"yes", "no"} /\ q \in Builders /\ p \in Builders
    BY UsersAreBuilders DEF RecordInterest, FInv, TypeOK
  <1>4. m => request[p].what = "yes" /\ <<q, p>> \in saidYes
    BY <1>3 DEF FInv, MatchInv, YesIsKept
  <1>5. UNCHANGED <<active, answer, saidYes, matches, cards, opted, losses>>
        /\ request[p].step = "sent"
    BY DEF RecordInterest, db
  <1>6. /\ r.what = request[p].what /\ r.about = q /\ r.step = "read" /\ r.mutual = m
        /\ r \in Requests
    <2>1. request[p] \in Requests
      BY DEF FInv, TypeOK
    <2> HIDE DEF m
    <2>2. QED
      BY <2>1, <1>1 DEF Requests
  <1> HIDE DEF m, r
  <1>7. Requested' /\ MatchInv' /\ DeckIsUnanswered' /\ request' \in [Users -> Requests]
    BY <1>2, <1>3, <1>4, <1>5, <1>6, OnePressChanges
  <1>8. QED
    BY <1>7 DEF FInv, TypeOK, RecordInterest, db

\* record_interest commits: the match it makes, if it makes one, has both yes behind it.
LEMMA CommitKeeps ==
  ASSUME FInv, NEW p \in Users, CommitInterest(p)
  PROVE  FInv'
  <1> DEFINE q == request[p].about
  <1> DEFINE w == request[p].what
  <1>1. /\ p \in Builders /\ q \in Builders /\ w \in {"yes", "no"}
        /\ request[p].mutual => w = "yes" /\ <<q, p>> \in saidYes
    BY UsersAreBuilders DEF CommitInterest, FInv, Requested, MatchInv, ReadIsFounded
  <1>2. answer' = [answer EXCEPT ![<<p, q>>] = w]
    BY DEF CommitInterest
  <1>3. saidYes' = IF w = "yes" THEN saidYes \cup {<<p, q>>} ELSE saidYes
    BY DEF CommitInterest
  <1>4. /\ matches' = matches \/ (request[p].mutual /\ matches' = matches \cup {{p, q}})
        /\ \A u \in Users : cache'[u] = {} \/ cache'[u] = cache[u]
        /\ cache' = [u \in Users |-> cache'[u]]
    BY DEF CommitInterest, CreateMatch, FInv, TypeOK
  <1>5. /\ request' = [request EXCEPT ![p].step = "done"]
        /\ UNCHANGED <<active, blocks, cards, place, opted, changes, losses>>
    BY DEF CommitInterest, Step
  <1>6. /\ request' \in [Users -> Requests]
        /\ request'[p].step = "done" /\ request'[p].about = q
        /\ \A u \in Users \ {p} : request'[u] = request[u]
    BY <1>5 DEF FInv, TypeOK, Requests
  <1>7. cache' \in [Users -> SUBSET Seq(Builders)]
    BY <1>4 DEF FInv, TypeOK
  <1> HIDE DEF q, w
  <1>8. saidYes \subseteq saidYes'
    BY <1>3
  <1>9. TypeOK'
    <2>1. answer' \in [Builders \X Builders -> {"none", "yes", "no"}]
      BY <1>1, <1>2 DEF FInv, TypeOK
    <2>2. saidYes' \subseteq Builders \X Builders
      BY <1>1, <1>3 DEF FInv, TypeOK
    <2>3. matches' \subseteq SUBSET Builders
      <3>1. {p, q} \in SUBSET Builders
        BY <1>1
      <3>2. matches \subseteq SUBSET Builders
        BY DEF FInv, TypeOK
      <3>3. QED
        BY <1>4, <3>1, <3>2, Zenon
    <2>4. QED
      BY <1>5, <1>6, <1>7, <2>1, <2>2, <2>3 DEF FInv, TypeOK
  <1>10. Requested'
    BY <1>1, <1>6 DEF FInv, Requested
  <1>11. ReadIsFounded'
    BY <1>6, <1>8 DEF FInv, MatchInv, ReadIsFounded
  <1>12. YesIsKept'
    <2> SUFFICES ASSUME NEW a \in Builders, NEW b \in Builders, answer'[<<a, b>>] = "yes"
                 PROVE  <<a, b>> \in saidYes'
      BY DEF YesIsKept
    <2>1. CASE <<a, b>> = <<p, q>>
      <3>1. answer'[<<a, b>>] = w
        BY <1>1, <1>2, <2>1 DEF FInv, TypeOK
      <3>2. QED
        BY <1>3, <2>1, <3>1
    <2>2. CASE <<a, b>> # <<p, q>>
      <3>1. answer'[<<a, b>>] = answer[<<a, b>>]
        BY <1>1, <1>2, <2>2 DEF FInv, TypeOK
      <3>2. QED
        BY <1>8, <3>1 DEF FInv, MatchInv, YesIsKept
    <2>3. QED
      BY <2>1, <2>2
  <1>13. MatchNeedsBoth'
    <2> SUFFICES ASSUME NEW a \in Builders, NEW b \in Builders, {a, b} \in matches'
                 PROVE  <<a, b>> \in saidYes' /\ <<b, a>> \in saidYes'
      BY DEF MatchNeedsBoth
    <2>1. CASE {a, b} \in matches
      BY <1>8, <2>1 DEF FInv, MatchInv, MatchNeedsBoth
    <2>2. CASE {a, b} \notin matches
      <3>1. request[p].mutual /\ {a, b} = {p, q}
        BY <1>4, <2>2
      <3>2. <<q, p>> \in saidYes' /\ <<p, q>> \in saidYes'
        BY <1>1, <1>3, <3>1
      <3>3. (a = p /\ b = q) \/ (a = q /\ b = p)
        BY <3>1
      <3>4. QED
        BY <3>2, <3>3
    <2>3. QED
      BY <2>1, <2>2
  <1>14. DeckIsUnanswered'
    <2> SUFFICES ASSUME losses = 0, NEW u \in Users, opted[u], request'[u].step # "done",
                        NEW i \in DOMAIN cards[u]
                 PROVE  answer'[<<u, cards[u][i]>>] = "none"
      BY <1>5 DEF DeckIsUnanswered
    <2>1. u # p /\ request[u].step # "done"
      BY <1>6
    <2>2. answer[<<u, cards[u][i]>>] = "none"
      BY <2>1 DEF FInv, DeckIsUnanswered
    <2>3. cards[u][i] \in Builders /\ u \in Builders
      BY UsersAreBuilders DEF FInv, TypeOK
    <2>4. answer'[<<u, cards[u][i]>>] = answer[<<u, cards[u][i]>>]
      BY <1>1, <1>2, <2>1, <2>3 DEF FInv, TypeOK
    <2>5. QED
      BY <2>2, <2>4
  <1>15. QED
    BY <1>9, <1>10, <1>11, <1>12, <1>13, <1>14 DEF FInv, MatchInv

\* A page rendered shows a deck of that moment, and the press is over if there was one.
LEMMA RenderKeeps ==
  ASSUME FInv, NEW p \in Users, Render(p), place' \in [Users -> Nat \ {0}],
         request' = [request EXCEPT ![p] = Idle],
         UNCHANGED <<active, answer, saidYes, matches, blocks, changes>>
  PROVE  FInv'
  <1>1. Idle \in Requests /\ Idle.step = "none"
    BY DEF Idle, Requests
  <1>2. /\ request'[p] = Idle /\ \A u \in Users \ {p} : request'[u] = request[u]
        /\ request' \in [Users -> Requests]
    BY <1>1 DEF FInv, TypeOK
  <1>3. Requested'
    BY <1>1, <1>2 DEF FInv, Requested
  <1>4. MatchInv'
    BY <1>1, <1>2 DEF FInv, MatchInv, YesIsKept, ReadIsFounded, MatchNeedsBoth
  <1>5. TypeOK'
    BY <1>2, Rendered DEF FInv, TypeOK
  <1>6. DeckIsUnanswered'
    <2> SUFFICES ASSUME losses' = 0, NEW u \in Users, opted'[u], request'[u].step # "done",
                        NEW i \in DOMAIN cards'[u]
                 PROVE  answer[<<u, cards'[u][i]>>] = "none"
      BY DEF DeckIsUnanswered
    <2>1. CASE u = p
      BY <2>1, Rendered DEF FInv
    <2>2. CASE u # p
      <3>1. cards'[u] = cards[u] /\ opted'[u] = opted[u] /\ losses = 0
        BY <2>2, Rendered DEF FInv
      <3>2. QED
        BY <1>2, <2>2, <3>1 DEF FInv, DeckIsUnanswered
    <2>3. QED
      BY <2>1, <2>2
  <1>7. QED
    BY <1>3, <1>4, <1>5, <1>6 DEF FInv

\* Nothing is pressed, answered or rendered.
LEMMA NothingPressed ==
  ASSUME FInv, UNCHANGED <<request, answer, saidYes, matches, cards, opted, losses>>
  PROVE  Requested' /\ MatchInv' /\ DeckIsUnanswered'
  BY DEF FInv, Requested, MatchInv, YesIsKept, ReadIsFounded, MatchNeedsBoth, DeckIsUnanswered

-----------------------------------------------------------------------------
LEMMA FStep == FInv /\ [Next]_vars => FInv'
  <1> SUFFICES ASSUME FInv, [Next]_vars PROVE FInv'
    OBVIOUS
  <1>1. ASSUME NEW p \in Users, Load(p) PROVE FInv'
    <2>1. request' = [request EXCEPT ![p] = Idle] /\ place' \in [Users -> Nat \ {0}]
      BY <1>1 DEF Load, FInv, TypeOK
    <2>2. QED
      BY <1>1, <2>1, RenderKeeps DEF Load
  <1>2. ASSUME NEW p \in Users, SelectTab(p) PROVE FInv'
    <2>1. TypeOK'
      BY <1>2 DEF SelectTab, db, FInv, TypeOK
    <2>2. QED
      BY <1>2, <2>1, NothingPressed DEF SelectTab, db, FInv
  <1>3. ASSUME NEW p \in Users, SubmitBlock(p) PROVE FInv'
    BY <1>3, PressKeeps DEF SubmitBlock
  <1>4. ASSUME NEW p \in Users, NEW what \in {"yes", "no"}, Decide(p, what) PROVE FInv'
    BY <1>4, PressKeeps DEF Decide
  <1>5. ASSUME NEW p \in Users, Refuse(p) PROVE FInv'
    <2>1. Requested' /\ MatchInv' /\ DeckIsUnanswered' /\ request' \in [Users -> Requests]
      BY <1>5, OneStepChanges DEF Refuse, db
    <2>2. QED
      BY <1>5, <2>1 DEF Refuse, db, FInv, TypeOK
  <1>6. ASSUME NEW p \in Users, RecordInterest(p) PROVE FInv'
    BY <1>6, ReadKeeps
  <1>7. ASSUME NEW p \in Users, CommitInterest(p) PROVE FInv'
    BY <1>7, CommitKeeps
  <1>8. ASSUME NEW p \in Users, BlockUser(p) PROVE FInv'
    <2>1. Requested' /\ MatchInv' /\ DeckIsUnanswered' /\ request' \in [Users -> Requests]
      BY <1>8, OneStepChanges DEF BlockUser
    <2>2. p \in Builders /\ request[p].about \in Builders
      BY <1>8, UsersAreBuilders DEF BlockUser, FInv, Requested
    <2>3. QED
      BY <1>8, <2>1, <2>2 DEF BlockUser, FInv, TypeOK
  <1>9. ASSUME NEW p \in Users, Lose(p) PROVE FInv'
    <2>1. losses' = losses + 1 /\ losses' \in Nat /\ losses' # 0
      BY <1>9 DEF Lose, FInv, TypeOK
    <2>2. Requested' /\ MatchInv' /\ DeckIsUnanswered' /\ request' \in [Users -> Requests]
      BY <1>9, <2>1, OneStepChanges DEF Lose, db
    <2>3. QED
      BY <1>9, <2>1, <2>2 DEF Lose, db, FInv, TypeOK
  <1>10. ASSUME NEW p \in Users, Answered(p) PROVE FInv'
    <2>1. place' \in [Users -> Nat \ {0}]
      BY <1>10 DEF Answered, FInv, TypeOK
    <2>2. QED
      BY <1>10, <2>1, RenderKeeps DEF Answered
  <1>11. ASSUME NEW p \in Users, AnsweredBlock(p) PROVE FInv'
    <2>1. place' \in [Users -> Nat \ {0}]
      BY <1>11 DEF AnsweredBlock, FInv, TypeOK
    <2>2. QED
      BY <1>11, <2>1, RenderKeeps DEF AnsweredBlock
  <1>12. ASSUME NEW p \in Users, Failed(p) PROVE FInv'
    <2>1. Idle \in Requests /\ Idle.step = "none"
      BY DEF Idle, Requests
    <2>2. Requested' /\ MatchInv' /\ DeckIsUnanswered' /\ request' \in [Users -> Requests]
      BY <1>12, <2>1, OnePressChanges DEF Failed, db
    <2>3. QED
      BY <1>12, <2>2 DEF Failed, db, FInv, TypeOK
  <1>13. ASSUME NEW q \in Builders, SaveCard(q) PROVE FInv'
    <2>1. TypeOK'
      BY <1>13 DEF SaveCard, tab, FInv, TypeOK
    <2>2. QED
      BY <1>13, <2>1, NothingPressed DEF SaveCard, tab, FInv
  <1>14. ASSUME NewDay PROVE FInv'
    <2>1. TypeOK'
      BY <1>14 DEF NewDay, tab, FInv, TypeOK
    <2>2. QED
      BY <1>14, <2>1, NothingPressed DEF NewDay, tab, FInv
  <1>15. ASSUME UNCHANGED vars PROVE FInv'
    <2>1. TypeOK'
      BY <1>15 DEF vars, FInv, TypeOK
    <2>2. QED
      BY <1>15, <2>1, NothingPressed DEF vars, FInv
  <1>16. QED
    BY <1>1, <1>2, <1>3, <1>4, <1>5, <1>6, <1>7, <1>8, <1>9, <1>10, <1>11, <1>12, <1>13,
       <1>14, <1>15 DEF Next

LEMMA SpecFInv == Spec => []FInv
  BY FInit, FStep, PTL DEF Spec

\* Every variable keeps its type: the deck of the day and the cards of a page are lists of
\* builders, and the place in the deck is a position, or past its end.
THEOREM CofounderTypeCorrect == Spec => []TypeOK
  BY SpecFInv, PTL DEF FInv

\* No match without both yes, whatever decks are drawn and whatever is under way at once:
\* record_interest writes a match only from a yes it has read and the yes it brings.
THEOREM MatchesNeedBoth == Spec => []MatchNeedsBoth
  <1>1. FInv => MatchNeedsBoth
    BY DEF FInv, MatchInv
  <1>2. QED
    BY <1>1, SpecFInv, PTL

\* With the deck cached since the morning and a page kept in the browser, nobody is asked twice:
\* daily_deck leaves out whom the user has answered, and every answer brings the deck anew.
THEOREM NobodyIsAskedTwice == Spec => []NoSecondLook
  <1>1. ASSUME FInv
        PROVE  NoSecondLook
    <2> SUFFICES ASSUME losses = 0, NEW p \in Users, request[p] = Idle, NEW q \in Current(p)
                 PROVE  answer[<<p, q>>] = "none"
      BY DEF NoSecondLook
    <2>1. opted[p] /\ place[p] \in DOMAIN cards[p] /\ q = cards[p][place[p]]
      BY DEF Current, CardAt
    <2>2. request[p].step # "done"
      BY DEF Idle
    <2>3. QED
      BY <1>1, <2>1, <2>2 DEF FInv, DeckIsUnanswered
  <1>2. QED
    BY <1>1, SpecFInv, PTL
-----------------------------------------------------------------------------
(* Those the user has blocked *)

\* No card of a page is of somebody its user has blocked, but for the moment between the block and
\* the page rendered after it.
DeckIsUnblocked ==
  losses = 0 => \A p \in Users : opted[p] /\ request[p].step # "done" =>
    \A i \in DOMAIN cards[p] : <<p, cards[p][i]>> \notin blocks

\* Whom a user has blocked is not put before them again: neither the deck cached in the morning,
\* nor the place kept in the browser, nor another tab of the page and back, brings the card back.
BlockedIsGone ==
  losses = 0 => \A p \in Users : request[p] = Idle => \A q \in Current(p) : <<p, q>> \notin blocks

LEMMA RenderedUnblocked ==
  ASSUME TypeOK, NEW p \in Users, Render(p)
  PROVE  \A i \in DOMAIN cards'[p] : <<p, cards'[p][i]>> \notin blocks
  <1>1. ASSUME NEW ids \in Drawn(p), NEW list \in DailyDeck(p, ids), cards' = [cards EXCEPT ![p] = list]
        PROVE  \A i \in DOMAIN cards'[p] : <<p, cards'[p][i]>> \notin blocks
    <2>1. cards'[p] = list
      BY <1>1 DEF TypeOK
    <2>2. \A i \in DOMAIN list : <<p, list[i]>> \notin blocks
      BY DailyDeckIsEligible DEF EligibleCandidates, Blocked
    <2>3. QED
      BY <2>1, <2>2
  <1>2. ASSUME cards' = [cards EXCEPT ![p] = <<>>]
        PROVE  DOMAIN cards'[p] = {}
    <2>1. cards'[p] = <<>>
      BY <1>2 DEF TypeOK
    <2>2. QED
      BY <2>1
  <1>3. QED
    BY <1>1, <1>2 DEF Render

\* A page rendered shows nobody blocked, and the page of anybody else is as it was.
LEMMA RenderUnblocks ==
  ASSUME FInv, DeckIsUnblocked, NEW p \in Users, Render(p),
         request' = [request EXCEPT ![p] = Idle], UNCHANGED blocks
  PROVE  DeckIsUnblocked'
  <1> SUFFICES ASSUME losses' = 0, NEW u \in Users, opted'[u], request'[u].step # "done",
                      NEW i \in DOMAIN cards'[u]
               PROVE  <<u, cards'[u][i]>> \notin blocks
    BY DEF DeckIsUnblocked
  <1>1. CASE u = p
    BY <1>1, RenderedUnblocked DEF FInv
  <1>2. CASE u # p
    <2>1. cards'[u] = cards[u] /\ opted'[u] = opted[u] /\ losses = 0
      BY <1>2, Rendered DEF FInv
    <2>2. request'[u] = request[u]
      BY <1>2 DEF FInv, TypeOK
    <2>3. QED
      BY <2>1, <2>2 DEF DeckIsUnblocked
  <1>3. QED
    BY <1>1, <1>2

\* No page changes, and no block is the answer somebody still waits for.
LEMMA PageUnblocked ==
  ASSUME DeckIsUnblocked, UNCHANGED <<blocks, cards, opted>>, losses' = 0 => losses = 0,
         \A u \in Users : request[u].step = "done" => request'[u].step = "done" \/ losses' # 0
  PROVE  DeckIsUnblocked'
  BY DEF DeckIsUnblocked

LEMMA BlockedStep == FInv /\ DeckIsUnblocked /\ [Next]_vars => DeckIsUnblocked'
  <1> SUFFICES ASSUME FInv, DeckIsUnblocked, [Next]_vars PROVE DeckIsUnblocked'
    OBVIOUS
  <1> USE DEF FInv
  <1>1. ASSUME NEW p \in Users, Load(p) PROVE DeckIsUnblocked'
    <2>1. request' = [request EXCEPT ![p] = Idle]
      BY <1>1 DEF Load, TypeOK
    <2>2. QED
      BY <1>1, <2>1, RenderUnblocks DEF Load
  <1>2. ASSUME NEW p \in Users, Answered(p) \/ AnsweredBlock(p) PROVE DeckIsUnblocked'
    BY <1>2, RenderUnblocks DEF Answered, AnsweredBlock
  <1>3. ASSUME NEW p \in Users, BlockUser(p) PROVE DeckIsUnblocked'
    <2>1. /\ request' = [request EXCEPT ![p].step = "done"]
          /\ blocks' = blocks \cup {<<p, request[p].about>>}
          /\ UNCHANGED <<cards, opted, losses>>
      BY <1>3 DEF BlockUser, Step
    <2>2. request'[p].step = "done" /\ \A u \in Users \ {p} : request'[u] = request[u]
      BY <2>1 DEF TypeOK, Requests
    <2>3. \A u \in Users \ {p} : \A q : <<u, q>> \in blocks' => <<u, q>> \in blocks
      BY <2>1
    <2>4. QED
      BY <2>1, <2>2, <2>3 DEF DeckIsUnblocked
  <1>4. ASSUME NEW p \in Users, Lose(p) PROVE DeckIsUnblocked'
    <2>1. losses' # 0
      BY <1>4 DEF Lose, TypeOK
    <2>2. QED
      BY <2>1 DEF DeckIsUnblocked
  <1>5. ASSUME NEW p \in Users, CommitInterest(p) PROVE DeckIsUnblocked'
    <2>1. request'[p].step = "done" /\ \A u \in Users \ {p} : request'[u] = request[u]
      BY <1>5 DEF CommitInterest, Step, TypeOK, Requests
    <2>2. QED
      BY <1>5, <2>1, PageUnblocked DEF CommitInterest
  <1>6. ASSUME NEW p \in Users, request[p].step # "done", request' = [request EXCEPT ![p] = request'[p]],
               UNCHANGED <<db, cards, place, opted, changes, losses>>
        PROVE  DeckIsUnblocked'
    <2>1. \A u \in Users \ {p} : request'[u] = request[u]
      BY <1>6 DEF TypeOK
    <2>2. QED
      BY <1>6, <2>1, PageUnblocked DEF db
  <1>7. ASSUME NEW p \in Users,
               SubmitBlock(p) \/ (\E what \in {"yes", "no"} : Decide(p, what)) \/ Refuse(p)
                 \/ RecordInterest(p) \/ Failed(p)
        PROVE  DeckIsUnblocked'
    <2>1. request[p].step # "done" /\ UNCHANGED <<db, cards, place, opted, changes, losses>>
      BY <1>7 DEF SubmitBlock, Decide, Refuse, RecordInterest, Failed, Idle
    <2>2. request' = [request EXCEPT ![p] = request'[p]]
      BY <1>7 DEF SubmitBlock, Decide, Refuse, RecordInterest, Failed, Step, TypeOK
    <2>3. QED
      BY <1>6, <2>1, <2>2
  <1>8. ASSUME UNCHANGED <<blocks, tab, losses>> PROVE DeckIsUnblocked'
    BY <1>8 DEF tab, DeckIsUnblocked
  <1>9. ASSUME NEW p \in Users, SelectTab(p) PROVE DeckIsUnblocked'
    BY <1>9 DEF SelectTab, db, DeckIsUnblocked
  <1>10. QED
    <2>1. ASSUME NEW q \in Builders, SaveCard(q) PROVE DeckIsUnblocked'
      BY <2>1, <1>8 DEF SaveCard
    <2>2. ASSUME NewDay PROVE DeckIsUnblocked'
      BY <2>2, <1>8 DEF NewDay
    <2>3. ASSUME UNCHANGED vars PROVE DeckIsUnblocked'
      BY <2>3, <1>8 DEF vars, tab
    <2>4. QED
      BY <1>1, <1>2, <1>3, <1>4, <1>5, <1>7, <1>9, <2>1, <2>2, <2>3 DEF Next

\* A block is for good: while nothing is lost, the card shown is never of somebody the user has
\* blocked, whatever decks are cached, drawn or rendered, and whoever else is at work.
THEOREM BlockedStaysGone == Spec => []BlockedIsGone
  <1>1. Init => DeckIsUnblocked
    BY DEF Init, DeckIsUnblocked
  <1>2. DeckIsUnblocked => BlockedIsGone
    <2> SUFFICES ASSUME DeckIsUnblocked, losses = 0, NEW p \in Users, request[p] = Idle, NEW q \in Current(p)
                 PROVE  <<p, q>> \notin blocks
      BY DEF BlockedIsGone
    <2>1. opted[p] /\ place[p] \in DOMAIN cards[p] /\ q = cards[p][place[p]]
      BY DEF Current, CardAt
    <2>2. request[p].step # "done"
      BY DEF Idle
    <2>3. QED
      BY <2>1, <2>2 DEF DeckIsUnblocked
  <1>3. QED
    BY <1>1, <1>2, SpecFInv, BlockedStep, PTL DEF Spec
=============================================================================
