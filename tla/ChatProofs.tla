----------------------------- MODULE ChatProofs -----------------------------
(***************************************************************************)
(* Proof about Chat, for a conversation and lists of any length, and any   *)
(* number of requests for the list, shows of the window and losses.        *)
(***************************************************************************)
EXTENDS Chat, SequenceTheorems, TLAPS

Poll == [step : {"asked", "answered"}, upTo : Nat, current : BOOLEAN]
Types ==
  /\ length \in Nat /\ polls \in Seq(Poll) /\ screen \in Seq(Nat) /\ sent \subseteq Nat
  /\ sending \in [step : {"none", "asked", "sent"}, here : BOOLEAN, id : Nat]

\* What was answered for is in the conversation.
SentExist ==
  /\ \A m \in sent : m \in 1 .. length
  /\ sending.step = "sent" => sending.id \in 1 .. length /\ \A m \in sent : m < sending.id

\* A list that will still be shown in the dock has everything that was answered for.
Covers(poll) == poll.step = "answered" /\ poll.current => \A m \in sent : m \in 1 .. poll.upTo
NewestHasAll == kind = "dock" => \A i \in DOMAIN polls : Covers(polls[i])

ChatInv == Types /\ SentExist /\ NewestHasAll /\ SentStaysShown

-----------------------------------------------------------------------------
(* The list of requests *)

LEMMA WithoutOne ==
  ASSUME NEW S, NEW list \in Seq(S), NEW i \in 1 .. Len(list)
  PROVE  /\ Without(list, i) \in Seq(S)
         /\ \A j \in DOMAIN Without(list, i) : \E k \in DOMAIN list : Without(list, i)[j] = list[k]
  <1> DEFINE before == SubSeq(list, 1, i - 1)
  <1> DEFINE after == SubSeq(list, i + 1, Len(list))
  <1> DEFINE rest == before \o after
  <1>1. Len(list) \in Nat /\ DOMAIN list = 1 .. Len(list) /\ i \in Nat /\ 1 <= i /\ i <= Len(list)
    OBVIOUS
  <1>2. /\ before \in Seq(S) /\ Len(before) = i - 1
        /\ \A j \in 1 .. i - 1 : before[j] = list[j]
    BY <1>1, SubSeqProperties
  <1>3. /\ after \in Seq(S) /\ Len(after) = Len(list) - i
        /\ \A j \in 1 .. Len(list) - i : after[j] = list[i + j]
    <2>1. i + 1 \in 1 .. Len(list) + 1 /\ Len(list) \in i .. Len(list)
      BY <1>1
    <2>2. Len(after) = IF i + 1 <= Len(list) THEN Len(list) - (i + 1) + 1 ELSE 0
      BY <1>1, <2>1, SubSeqProperties
    <2>3. after \in Seq(S) /\ \A j \in 1 .. Len(list) - (i + 1) + 1 : after[j] = list[i + 1 + j - 1]
      BY <1>1, <2>1, SubSeqProperties
    <2> HIDE DEF after
    <2>4. Len(after) = Len(list) - i
      <3>1. \A l, k \in Nat : k <= l => (IF k + 1 <= l THEN l - (k + 1) + 1 ELSE 0) = l - k
        OBVIOUS
      <3>2. QED
        BY <1>1, <2>2, <3>1
    <2>5. ASSUME NEW j \in 1 .. Len(list) - i PROVE after[j] = list[i + j]
      <3>1. j \in 1 .. Len(list) - (i + 1) + 1 /\ i + 1 + j - 1 = i + j
        BY <1>1
      <3>2. QED
        BY <2>3, <3>1
    <2>6. QED
      BY <2>3, <2>4, <2>5
  <1> HIDE DEF before, after
  <1>4. /\ rest \in Seq(S) /\ Len(rest) = Len(list) - 1
        /\ \A j \in 1 .. Len(list) - 1 :
             rest[j] = IF j <= i - 1 THEN before[j] ELSE after[j - (i - 1)]
    <2>1. rest \in Seq(S) /\ Len(rest) = Len(before) + Len(after)
          /\ \A j \in 1 .. Len(before) + Len(after) :
               rest[j] = IF j <= Len(before) THEN before[j] ELSE after[j - Len(before)]
      BY <1>2, <1>3, ConcatProperties
    <2>2. Len(before) = i - 1 /\ Len(before) + Len(after) = Len(list) - 1
      BY <1>1, <1>2, <1>3
    <2> HIDE DEF rest
    <2>3. QED
      BY <2>1, <2>2
  <1> HIDE DEF rest
  <1>5. ASSUME NEW j \in 1 .. Len(list) - 1
        PROVE  \E k \in DOMAIN list : rest[j] = list[k]
    <2>1. CASE j <= i - 1
      <3>1. j \in 1 .. i - 1 /\ j \in DOMAIN list
        BY <1>1, <2>1
      <3>2. rest[j] = list[j]
        BY <1>2, <1>4, <2>1, <3>1
      <3>3. QED
        BY <3>1, <3>2
    <2>2. CASE ~(j <= i - 1)
      <3>1. j - (i - 1) \in 1 .. Len(list) - i /\ i + (j - (i - 1)) = j + 1 /\ j + 1 \in DOMAIN list
        BY <1>1, <2>2
      <3>2. rest[j] = after[j - (i - 1)]
        BY <1>4, <2>2
      <3>3. rest[j] = list[j + 1]
        BY <1>3, <3>1, <3>2
      <3>4. QED
        BY <3>1, <3>3
    <2>3. QED
      BY <2>1, <2>2
  <1>6. DOMAIN rest = 1 .. Len(list) - 1
    BY <1>4
  <1>7. QED
    BY <1>4, <1>5, <1>6 DEF Without, before, after, rest

LEMMA OutdatedList ==
  ASSUME NEW list \in Seq(Poll)
  PROVE  /\ Outdated(list) \in Seq(Poll) /\ DOMAIN Outdated(list) = DOMAIN list
         /\ \A i \in DOMAIN list : Outdated(list)[i].current = FALSE
  <1>1. Len(list) \in Nat /\ DOMAIN list = 1 .. Len(list) /\ \A i \in 1 .. Len(list) : list[i] \in Poll
    OBVIOUS
  <1>2. \A i \in 1 .. Len(list) :
          [list[i] EXCEPT !.current = FALSE] \in Poll /\ [list[i] EXCEPT !.current = FALSE].current = FALSE
    BY <1>1 DEF Poll
  <1> DEFINE out(i) == [list[i] EXCEPT !.current = FALSE]
  <1>3. Outdated(list) = [i \in 1 .. Len(list) |-> out(i)]
    BY <1>1 DEF Outdated
  <1>4. \A i \in 1 .. Len(list) : out(i) \in Poll /\ out(i).current = FALSE
    BY <1>2
  <1> HIDE DEF out
  <1>5. [i \in 1 .. Len(list) |-> out(i)] \in Seq(Poll)
    BY <1>1, <1>4
  <1>6. QED
    BY <1>1, <1>3, <1>4, <1>5

\* Asking again leaves nothing to show but the answer to come.
LEMMA Asking ==
  ASSUME Types, NewestHasAll, RefreshMessages, kind' = kind, sent' \in {sent, {}}
  PROVE  polls' \in Seq(Poll) /\ NewestHasAll'
  <1>1. Superseded \in Seq(Poll)
    BY OutdatedList DEF Superseded, Types
  <1>2. Asked \in Poll /\ Asked.step = "asked"
    BY DEF Asked, Poll
  <1>3. polls' = Append(Superseded, Asked)
    BY DEF RefreshMessages
  <1>4. kind = "dock" => \A i \in DOMAIN Superseded : Superseded[i].current = FALSE
    BY OutdatedList DEF Superseded, Types
  <1> HIDE DEF Superseded
  <1>5. polls' \in Seq(Poll)
    BY <1>1, <1>2, <1>3
  <1>6. \A i \in DOMAIN polls' : (i \in DOMAIN Superseded /\ polls'[i] = Superseded[i]) \/ polls'[i] = Asked
    BY <1>1, <1>2, <1>3
  <1>7. NewestHasAll'
    BY <1>2, <1>4, <1>6 DEF NewestHasAll, Covers
  <1>8. QED
    BY <1>5, <1>7

\* What a list answers with: each of the messages there were, or, of a list that is full,
\* only newer ones.
LEMMA NewestOnes ==
  ASSUME NEW n \in Nat
  PROVE  /\ Newest(n) \in Seq(Nat)
         /\ \A m \in 1 .. n :
              \/ \E k \in DOMAIN Newest(n) : Newest(n)[k] = m
              \/ /\ Len(Newest(n)) >= Limit
                 /\ \A k \in DOMAIN Newest(n) : Newest(n)[k] > m
  <1>1. Listed(n) \in 0 .. n /\ Limit \in Nat /\ (Listed(n) < n => Listed(n) = Limit)
    BY LimitAssumption DEF Listed
  <1> DEFINE l == Listed(n)
  <1> HIDE DEF l
  <1>2. l \in Nat /\ l <= n /\ (l < n => l = Limit)
    BY <1>1 DEF l
  <1>3. Newest(n) = [k \in 1 .. l |-> n - l + k]
    BY DEF Newest, l
  <1>4. \A k \in 1 .. l : n - l + k \in Nat
    BY <1>2
  <1>5. Newest(n) \in Seq(Nat) /\ DOMAIN Newest(n) = 1 .. l /\ Len(Newest(n)) = l
    BY <1>2, <1>3, <1>4
  <1>6. ASSUME NEW m \in 1 .. n, m > n - l
        PROVE  \E k \in DOMAIN Newest(n) : Newest(n)[k] = m
    <2>1. m - (n - l) \in 1 .. l /\ n - l + (m - (n - l)) = m
      BY <1>2, <1>6
    <2>2. QED
      BY <1>3, <1>5, <2>1
  <1>7. ASSUME NEW m \in 1 .. n, ~(m > n - l)
        PROVE  Len(Newest(n)) >= Limit /\ \A k \in DOMAIN Newest(n) : Newest(n)[k] > m
    <2>1. l = Limit
      BY <1>2, <1>7
    <2>2. \A k \in 1 .. l : n - l + k > m
      BY <1>2, <1>7
    <2>3. QED
      BY <1>1, <1>3, <1>5, <2>1, <2>2
  <1>8. QED
    BY <1>5, <1>6, <1>7

-----------------------------------------------------------------------------
LEMMA ChatInit == Init => ChatInv
  BY DEF Init, ChatInv, Types, SentExist, NewestHasAll, SentStaysShown, Shown, PushedOut, Idle

\* The steps that ask for the list and change nothing else of what the window holds.
LEMMA AskKeeps ==
  ASSUME ChatInv, RefreshMessages, window # "closed", UNCHANGED <<kind, length, screen, sending, sent>>
  PROVE  ChatInv'
  <1>1. polls' \in Seq(Poll) /\ NewestHasAll'
    BY Asking DEF ChatInv
  <1>2. Types' /\ SentExist'
    BY <1>1 DEF ChatInv, Types, SentExist
  <1>3. SentStaysShown'
    BY DEF ChatInv, SentStaysShown, Shown, PushedOut
  <1>4. QED
    BY <1>1, <1>2, <1>3 DEF ChatInv

LEMMA OpenKeeps ==
  ASSUME ChatInv, Open
  PROVE  ChatInv'
  <1>1. polls' \in Seq(Poll) /\ NewestHasAll'
    BY Asking DEF ChatInv, Open
  <1>2. Types' /\ SentExist' /\ SentStaysShown'
    BY <1>1 DEF ChatInv, Types, SentExist, SentStaysShown, Shown, PushedOut, Open
  <1>3. QED
    BY <1>1, <1>2 DEF ChatInv

LEMMA CloseKeeps ==
  ASSUME ChatInv, Close
  PROVE  ChatInv'
  <1>1. /\ polls' \in Seq(Poll) /\ DOMAIN polls' = DOMAIN polls
        /\ \A i \in DOMAIN polls : polls'[i].current = FALSE
    BY OutdatedList DEF ChatInv, Types, Close
  <1>2. sending' \in [step : {"none", "asked", "sent"}, here : BOOLEAN, id : Nat]
        /\ sending'.step = sending.step /\ sending'.id = sending.id
    BY DEF ChatInv, Types, Close
  <1>3. UNCHANGED <<kind, length, screen, sent>> /\ window' = "closed"
    BY DEF Close
  <1>4. Types' /\ SentExist'
    BY <1>1, <1>2, <1>3 DEF ChatInv, Types, SentExist
  <1>5. NewestHasAll' /\ SentStaysShown'
    BY <1>1, <1>3 DEF NewestHasAll, Covers, SentStaysShown, Shown, PushedOut
  <1>6. QED
    BY <1>4, <1>5 DEF ChatInv

LEMMA ServeKeeps ==
  ASSUME ChatInv, NEW i \in 1 .. Len(polls), ServeList(i)
  PROVE  ChatInv'
  <1>1. polls \in Seq(Poll) /\ i \in DOMAIN polls /\ length \in Nat
    BY DEF ChatInv, Types
  <1> DEFINE r == [polls[i] EXCEPT !.step = "answered", !.upTo = length]
  <1>2. r \in Poll /\ r.upTo = length
    <2>1. polls[i] \in Poll
      BY <1>1
    <2>2. QED
      BY <1>1, <2>1 DEF Poll
  <1>3. polls' = [polls EXCEPT ![i] = r]
    BY DEF ServeList
  <1> HIDE DEF r
  <1>4. /\ polls' \in Seq(Poll) /\ DOMAIN polls' = DOMAIN polls /\ polls'[i] = r
        /\ \A j \in DOMAIN polls : j # i => polls'[j] = polls[j]
    BY <1>1, <1>2, <1>3
  <1>5. UNCHANGED <<kind, length, window, screen, sending, sent>>
    BY DEF ServeList
  <1>6. Types' /\ SentExist' /\ SentStaysShown'
    BY <1>4, <1>5 DEF ChatInv, Types, SentExist, SentStaysShown, Shown, PushedOut
  <1>7. NewestHasAll'
    <2> SUFFICES ASSUME kind = "dock", NEW j \in DOMAIN polls PROVE Covers(polls[j])'
      BY <1>4, <1>5 DEF NewestHasAll
    <2>1. CASE j = i
      BY <1>2, <1>4, <1>5, <2>1 DEF Covers, ChatInv, SentExist
    <2>2. CASE j # i
      BY <1>4, <1>5, <2>2 DEF Covers, ChatInv, NewestHasAll
    <2>3. QED
      BY <2>1, <2>2
  <1>8. QED
    BY <1>6, <1>7 DEF ChatInv

\* A request less: the others cover what they covered.
LEMMA LessKeeps ==
  ASSUME ChatInv, NEW i \in 1 .. Len(polls), polls' = Without(polls, i), UNCHANGED <<kind, sent>>
  PROVE  polls' \in Seq(Poll) /\ NewestHasAll'
  <1>1. /\ polls' \in Seq(Poll)
        /\ \A j \in DOMAIN polls' : \E k \in DOMAIN polls : polls'[j] = polls[k]
    BY WithoutOne DEF ChatInv, Types
  <1>2. NewestHasAll'
    BY <1>1 DEF ChatInv, NewestHasAll, Covers
  <1>3. QED
    BY <1>1, <1>2

LEMMA ShowKeeps ==
  ASSUME ChatInv, NEW i \in 1 .. Len(polls), ShowList(i)
  PROVE  ChatInv'
  <1>1. polls[i] \in Poll /\ i \in DOMAIN polls
    BY DEF ChatInv, Types
  <1>2. UNCHANGED <<kind, length, window, sending, sent>> /\ polls[i].step = "answered"
        /\ screen' = IF polls[i].current THEN Newest(polls[i].upTo) ELSE screen
    BY DEF ShowList
  <1>3. polls' \in Seq(Poll) /\ NewestHasAll'
    BY LessKeeps DEF ShowList
  <1>4. /\ Newest(polls[i].upTo) \in Seq(Nat)
        /\ \A m \in 1 .. polls[i].upTo :
             \/ \E k \in DOMAIN Newest(polls[i].upTo) : Newest(polls[i].upTo)[k] = m
             \/ /\ Len(Newest(polls[i].upTo)) >= Limit
                /\ \A k \in DOMAIN Newest(polls[i].upTo) : Newest(polls[i].upTo)[k] > m
    BY <1>1, NewestOnes DEF Poll
  <1>5. Types' /\ SentExist'
    BY <1>2, <1>3, <1>4 DEF ChatInv, Types, SentExist
  <1>6. SentStaysShown'
    <2> SUFFICES ASSUME kind = "dock", window # "closed", NEW m \in sent
                 PROVE  (Shown(m) \/ PushedOut(m))'
      BY <1>2 DEF SentStaysShown
    <2>1. CASE polls[i].current
      <3>1. m \in 1 .. polls[i].upTo
        BY <1>1, <1>2, <2>1 DEF ChatInv, NewestHasAll, Covers
      <3>2. QED
        BY <1>2, <1>4, <2>1, <3>1 DEF Shown, PushedOut
    <2>2. CASE ~polls[i].current
      BY <1>2, <2>2 DEF ChatInv, SentStaysShown, Shown, PushedOut
    <2>3. QED
      BY <2>1, <2>2
  <1>7. QED
    BY <1>3, <1>5, <1>6 DEF ChatInv

LEMMA LoseKeeps ==
  ASSUME ChatInv, NEW i \in 1 .. Len(polls), LoseList(i)
  PROVE  ChatInv'
  <1>1. polls' \in Seq(Poll) /\ NewestHasAll'
    BY LessKeeps DEF LoseList
  <1>2. Types' /\ SentExist' /\ SentStaysShown'
    BY <1>1 DEF ChatInv, Types, SentExist, SentStaysShown, Shown, PushedOut, LoseList
  <1>3. QED
    BY <1>1, <1>2 DEF ChatInv

\* Only the press of Send changes, or the conversation grows.
LEMMA PressKeeps ==
  ASSUME ChatInv, UNCHANGED <<kind, window, screen, polls, sent>>, length' \in {length, length + 1},
         sending' \in [step : {"none", "asked", "sent"}, here : BOOLEAN, id : Nat],
         sending'.step = "sent" => sending'.id \in 1 .. length' /\ \A m \in sent : m < sending'.id
  PROVE  ChatInv'
  <1>1. Types' /\ SentExist'
    BY DEF ChatInv, Types, SentExist
  <1>2. NewestHasAll' /\ SentStaysShown'
    BY DEF ChatInv, NewestHasAll, Covers, SentStaysShown, Shown, PushedOut
  <1>3. QED
    BY <1>1, <1>2 DEF ChatInv

LEMMA PostKeeps ==
  ASSUME ChatInv, PostMessage
  PROVE  ChatInv'
  <1>1. sending \in [step : {"none", "asked", "sent"}, here : BOOLEAN, id : Nat] /\ length \in Nat
    BY DEF ChatInv, Types
  <1>2. UNCHANGED <<kind, window, screen, polls, sent>> /\ length' = length + 1
        /\ sending' = [sending EXCEPT !.step = "sent", !.id = length']
    BY DEF PostMessage
  <1>3. sending' \in [step : {"none", "asked", "sent"}, here : BOOLEAN, id : Nat]
        /\ sending'.id = length'
    <2>1. length' \in Nat
      BY <1>1, <1>2
    <2>2. QED
      BY <1>1, <1>2, <2>1
  <1>4. sending'.id \in 1 .. length' /\ \A m \in sent : m < sending'.id
    BY <1>1, <1>2, <1>3 DEF ChatInv, Types, SentExist
  <1>5. QED
    BY <1>1, <1>2, <1>3, <1>4, PressKeeps

\* An answer for a message is shown at once, and the list asked for before it never is.
LEMMA AddKeeps ==
  ASSUME ChatInv, AddSent
  PROVE  ChatInv'
  <1>1. /\ length \in Nat /\ polls \in Seq(Poll) /\ screen \in Seq(Nat) /\ sent \subseteq Nat
        /\ sending.id \in Nat /\ sending.id \in 1 .. length
    BY DEF ChatInv, Types, SentExist, AddSent
  <1>2. sending' \in [step : {"none", "asked", "sent"}, here : BOOLEAN, id : Nat]
        /\ sending'.step = "none"
    BY DEF AddSent, Idle
  <1>3. UNCHANGED <<kind, length, window>>
    BY DEF AddSent
  <1>4. CASE sending.here
    <2>1. screen' = Append(screen, sending.id) /\ sent' = sent \cup {sending.id} /\ polls' = Superseded
      BY <1>4 DEF AddSent
    <2>2. polls' \in Seq(Poll) /\ (kind = "dock" => \A i \in DOMAIN polls' : polls'[i].current = FALSE)
      BY <1>1, <2>1, OutdatedList DEF Superseded
    <2>3. NewestHasAll'
      BY <1>3, <2>2 DEF NewestHasAll, Covers
    <2>4. Types' /\ SentExist'
      <3>1. screen' \in Seq(Nat) /\ sent' \subseteq Nat
        <4>1. Append(screen, sending.id) \in Seq(Nat)
          BY <1>1
        <4>2. sent \cup {sending.id} \subseteq Nat
          BY <1>1, Zenon
        <4>3. QED
          BY <2>1, <4>1, <4>2
      <3>2. \A m \in sent' : m \in 1 .. length'
        BY <1>1, <1>3, <2>1 DEF ChatInv, SentExist
      <3>3. QED
        BY <1>1, <1>2, <1>3, <2>2, <3>1, <3>2 DEF Types, SentExist
    <2>5. screen'[Len(screen) + 1] = sending.id /\ Len(screen) + 1 \in DOMAIN screen'
          /\ \A k \in DOMAIN screen : k \in DOMAIN screen' /\ screen'[k] = screen[k]
      BY <1>1, <2>1
    <2>6. SentStaysShown'
      <3> SUFFICES ASSUME kind = "dock", window # "closed", NEW m \in sent'
                   PROVE  (Shown(m) \/ PushedOut(m))'
        BY <1>3 DEF SentStaysShown
      <3>1. CASE m = sending.id
        BY <2>5, <3>1 DEF Shown
      <3>2. CASE m # sending.id
        <4>1. m \in sent /\ m < sending.id /\ (Shown(m) \/ PushedOut(m))
          BY <2>1, <3>2 DEF ChatInv, SentExist, SentStaysShown, AddSent
        <4>2. CASE Shown(m)
          BY <2>5, <4>2 DEF Shown
        <4>3. CASE PushedOut(m)
          <5>1. Len(screen') = Len(screen) + 1 /\ Len(screen) \in Nat /\ DOMAIN screen' = 1 .. Len(screen) + 1
            BY <1>1, <2>1
          <5>2. \A k \in DOMAIN screen' : k \in DOMAIN screen \/ k = Len(screen) + 1
            BY <1>1, <5>1
          <5>3. \A k \in DOMAIN screen' : screen'[k] > m
            BY <1>1, <2>5, <4>1, <4>3, <5>2 DEF PushedOut
          <5>4. Len(screen') >= Limit
            BY <4>3, <5>1, LimitAssumption DEF PushedOut
          <5>5. QED
            BY <5>3, <5>4 DEF PushedOut
        <4>4. QED
          BY <4>1, <4>2, <4>3
      <3>3. QED
        BY <3>1, <3>2
    <2>7. QED
      BY <2>3, <2>4, <2>6 DEF ChatInv
  <1>5. CASE ~sending.here
    <2>1. UNCHANGED <<screen, sent, polls>>
      BY <1>5 DEF AddSent
    <2>2. QED
      BY <1>1, <1>2, <1>3, <2>1, PressKeeps
  <1>6. QED
    BY <1>4, <1>5

LEMMA ChatStep == ChatInv /\ [Next]_vars => ChatInv'
  <1> SUFFICES ASSUME ChatInv, [Next]_vars PROVE ChatInv'
    OBVIOUS
  <1>0. sending \in [step : {"none", "asked", "sent"}, here : BOOLEAN, id : Nat]
        /\ Idle \in [step : {"none", "asked", "sent"}, here : BOOLEAN, id : Nat]
        /\ Idle.step = "none" /\ length \in Nat
    BY DEF ChatInv, Types, Idle
  <1>1. CASE Tick
    BY <1>1, AskKeeps DEF Tick
  <1>2. CASE ShowTab
    BY <1>2, AskKeeps DEF ShowTab
  <1>3. CASE Restore
    BY <1>3, AskKeeps DEF Restore
  <1>4. CASE Minimize
    BY <1>4 DEF Minimize, ChatInv, Types, SentExist, NewestHasAll, Covers, SentStaysShown, Shown, PushedOut
  <1>5. CASE Send
    BY <1>0, <1>5, PressKeeps DEF Send
  <1>6. CASE RefuseMessage
    BY <1>0, <1>6, PressKeeps DEF RefuseMessage
  <1>7. CASE LoseMessage
    BY <1>0, <1>7, PressKeeps DEF LoseMessage
  <1>8. CASE OtherSide
    BY <1>0, <1>8, PressKeeps DEF OtherSide, ChatInv, SentExist
  <1>9. CASE UNCHANGED vars
    BY <1>0, <1>9, PressKeeps DEF vars, ChatInv, SentExist
  <1>10. ASSUME NEW i \in 1 .. Len(polls), ServeList(i) \/ ShowList(i) \/ LoseList(i) PROVE ChatInv'
    BY <1>10, ServeKeeps, ShowKeeps, LoseKeeps
  <1>11. QED
    BY <1>1, <1>2, <1>3, <1>4, <1>5, <1>6, <1>7, <1>8, <1>9, <1>10, OpenKeeps, CloseKeeps,
       PostKeeps, AddKeeps DEF Next

\* However late a list arrives in a chat of the dock, a message sent from it and answered for leaves
\* its screen only for a whole list of newer ones, whatever the length of a list: the request counter
\* of ChatWindow.
THEOREM SentStays == Spec => []SentStaysShown
  <1>1. ChatInv => SentStaysShown
    BY DEF ChatInv
  <1>2. QED
    BY <1>1, ChatInit, ChatStep, PTL DEF Spec
=============================================================================
