--------------------------- MODULE WebPagesProofs ---------------------------
(***************************************************************************)
(* What the tab shows and says is right, for any set of pages and any      *)
(* number of waiting presses, of changes by others and of losses.  Of the  *)
(* pages' tables the proofs use only what TablesAssumption says of them.   *)
(***************************************************************************)
EXTENDS WebPages, TLAPS

(* The tables. *)
LEMMA WorldsAreViews == \A p : Worlds(p) \subseteq Views(p)
  BY DEF Worlds, Views

LEMMA OffersAreControls ==
  ASSUME NEW p \in AllPages, NEW v \in Views(p), NEW c \in Offers(p, v)
  PROVE  c \in ControlsOf[p]
  BY DEF ControlsOf

LEMMA FallbacksAreViews ==
  ASSUME NEW p \in AllPages, NEW v \in Views(p), NEW w \in Fallbacks(p, v)
  PROVE  w \in Views(p)
  BY DEF Fallbacks, Views, If

LEMMA ChangedIsView ==
  ASSUME NEW p \in AllPages, NEW v \in Views(p), NEW c \in ControlsOf[p]
  PROVE  Changed(v, c.act.call) \in Views(p)
<1>1. v.row \in RowsOf[p]
  BY DEF Views
<1>2. CASE v.row \in DOMAIN c.act.call.does
  <2>1. c.act.call.does[v.row] \in RowsOf[p]
    BY <1>1, <1>2, TablesAssumption DEF CallsStayOnThePage
  <2>. QED  BY <2>1, <1>2 DEF Changed, Views
<1>3. CASE v.row \notin DOMAIN c.act.call.does
  BY <1>3 DEF Changed
<1>. QED  BY <1>2, <1>3

LEMMA TakenBackIsView ==
  ASSUME NEW p \in AllPages, seen \in Views(p), NEW c, NEW r \in RowsOf[p]
  PROVE  TakenBack(c, r) \in Views(p)
  BY DEF TakenBack, Views

LEMMA ServedIsWorld ==
  ASSUME NEW p \in AllPages, NEW w \in Worlds(p), NEW c \in ControlsOf[p], ~Refuses(c.act.call, w)
  PROVE  /\ w.row \in RowsOf[p] \cap DOMAIN c.act.call.does
         /\ [w EXCEPT !.row = c.act.call.does[@]] \in Worlds(p)
<1>1. w.row \in RowsOf[p] \cap DOMAIN c.act.call.does
  BY DEF Worlds, Refuses, Conflicts
<1>2. c.act.call.does[w.row] \in RowsOf[p]
  BY <1>1, TablesAssumption DEF CallsStayOnThePage
<1>. QED  BY <1>1, <1>2 DEF Worlds

(* The queue. *)
LEMMA HeadOfQueue ==
  ASSUME NEW S, NEW q \in Seq(S), q # <<>>
  PROVE  Len(q) \in Nat \ {0} /\ Head(q) = q[1] /\ q[1] \in S
  OBVIOUS

LEMMA TailOfQueue ==
  ASSUME NEW S, NEW q \in Seq(S), q # <<>>
  PROVE  /\ Tail(q) \in Seq(S) /\ Len(Tail(q)) = Len(q) - 1
         /\ \A i \in 1 .. Len(Tail(q)) : i + 1 \in 2 .. Len(q) /\ Tail(q)[i] = q[i + 1]
  OBVIOUS

\* The head of the queue gets its answer; the presses behind it are left alone.
LEMMA HeadIsAnswered ==
  ASSUME NEW p, NEW q \in Seq(Presses(p)), q # <<>>, NEW h \in Presses(p)
  PROVE  /\ [q EXCEPT ![1] = h] \in Seq(Presses(p)) /\ Len([q EXCEPT ![1] = h]) = Len(q)
         /\ [q EXCEPT ![1] = h][1] = h
         /\ \A i \in 2 .. Len(q) : [q EXCEPT ![1] = h][i] = q[i]
         /\ [q EXCEPT ![1] = h] # <<>>
<1>. Len(q) \in Nat \ {0} /\ 1 \in 1 .. Len(q)
  BY HeadOfQueue
<1>. QED  OBVIOUS

LEMMA HeadIsPress ==
  ASSUME TypeOK, queue # <<>>
  PROVE  queue \in Seq(Presses(page)) /\ Len(queue) \in Nat \ {0} /\ Head(queue) = queue[1] /\ queue[1] \in Presses(page)
<1>1. queue \in Seq(Presses(page))
  BY DEF TypeOK
<1>. QED  BY <1>1, HeadOfQueue

LEMMA ServeAnswers ==
  ASSUME TypeOK, Serve
  PROVE  /\ queue # <<>> /\ queue[1] \in Presses(page) /\ queue[1].got = "waiting"
         /\ \/ /\ world.role = "suspended"
               /\ queue' = [queue EXCEPT ![1] = [queue[1] EXCEPT !.got = "suspended"]]
               /\ UNCHANGED <<world, unseen>>
            \/ /\ world.role # "suspended" /\ (Refuses(queue[1].control.act.call, world) \/ queue[1].control.typed)
               /\ queue' = [queue EXCEPT ![1] = [queue[1] EXCEPT !.got = "refused"]]
               /\ UNCHANGED <<world, unseen>>
            \/ /\ world.role # "suspended" /\ ~Refuses(queue[1].control.act.call, world)
               /\ queue' = [queue EXCEPT ![1] = [queue[1] EXCEPT !.got = "ok", !.did = TRUE]]
               /\ world' = [world EXCEPT !.row = queue[1].control.act.call.does[@]]
               /\ unseen' = IF world' = world THEN unseen ELSE unseen \cup {queue[1].control.guard}
<1>1. queue # <<>>
  BY DEF Serve
<1>2. queue \in Seq(Presses(page)) /\ Head(queue) = queue[1] /\ queue[1] \in Presses(page) /\ Len(queue) \in Nat \ {0}
  BY <1>1, HeadIsPress
<1>3. [queue EXCEPT ![1].got = "ok", ![1].did = TRUE]
        = [queue EXCEPT ![1] = [queue[1] EXCEPT !.got = "ok", !.did = TRUE]]
  BY <1>1, <1>2 DEF Presses
<1>. QED  BY <1>1, <1>2, <1>3 DEF Serve

(* Types. *)
LEMMA RerenderTyped ==
  ASSUME TypeOK, NEW w \in Worlds(page), Rerender(w)
  PROVE  /\ seen' \in Views(page) /\ losses' \in 0 .. MaxLosses
         /\ shown' \in {"page", "error", "not found", "suspended"}
         /\ unseen' \subseteq FlagsOf(ControlsOf[page])
<1>1. page \in AllPages /\ w \in Views(page) /\ seen \in Views(page) /\ losses \in 0 .. MaxLosses
  BY WorldsAreViews, BoundsAssumption DEF TypeOK
<1>2. \A v \in Fallbacks(page, w) : v \in Views(page)
  BY <1>1, FallbacksAreViews
<1>3. losses' = losses \/ (losses < MaxLosses /\ losses' = losses + 1)
  BY DEF Rerender
<1>4. losses' \in 0 .. MaxLosses
  BY <1>1, <1>3, BoundsAssumption
<1>. QED  BY <1>1, <1>2, <1>4 DEF Rerender, TypeOK

LEMMA AnsweredTyped ==
  ASSUME TypeOK, NEW c \in ControlsOf[page], Answered(c)
  PROVE  /\ seen' \in Views(page) /\ losses' \in 0 .. MaxLosses
         /\ shown' \in {"page", "error", "left", "not found", "suspended"}
         /\ unseen' \subseteq FlagsOf(ControlsOf[page])
<1>1. /\ page \in AllPages /\ world \in Views(page) /\ seen \in Views(page) /\ losses \in 0 .. MaxLosses
      /\ unseen \subseteq FlagsOf(ControlsOf[page]) /\ world \in Worlds(page)
      /\ shown \in {"page", "error", "left", "not found", "suspended"}
  BY WorldsAreViews, BoundsAssumption DEF TypeOK
<1>2. Changed(seen, c.act.call) \in Views(page)
  BY <1>1, ChangedIsView
<1>3. CASE Rerender(world)
  BY <1>1, <1>3, RerenderTyped
<1>4. CASE ~Rerender(world)
  BY <1>1, <1>2, <1>4 DEF Answered
<1>. QED  BY <1>3, <1>4

LEMMA FailedTyped ==
  ASSUME TypeOK, queue # <<>>, IF Caught(Head(queue)) THEN FailureTold ELSE Thrown
  PROVE  /\ seen' \in Views(page) /\ shown' \in {"page", "error", "left", "not found", "suspended"}
         /\ told' \in [what : {"nothing", "done", "failed"}, catches : Catches, got : Answers, did : BOOLEAN]
<1>1. /\ page \in AllPages /\ seen \in Views(page)
      /\ shown \in {"page", "error", "left", "not found", "suspended"}
      /\ told \in [what : {"nothing", "done", "failed"}, catches : Catches, got : Answers, did : BOOLEAN]
  BY BoundsAssumption DEF TypeOK
<1>2. Head(queue) \in Presses(page)
  BY HeadIsPress
<1>3. /\ Head(queue).control \in ControlsOf[page] /\ Head(queue).did \in BOOLEAN
      /\ Head(queue).was \in RowsOf[page] /\ Head(queue).got \in Answers
  BY <1>2 DEF Presses
<1>4. TakenBack(Head(queue).control, Head(queue).was) \in Views(page)
  BY <1>1, <1>3, TakenBackIsView
<1>5. Head(queue).control.act.catches \in Catches /\ "all" \in Catches
  BY <1>1, <1>3, TablesAssumption DEF Catches
<1>6. seen' \in Views(page) /\ shown' \in {"page", "error", "left", "not found", "suspended"}
  BY <1>1, <1>3, <1>4 DEF FailureTold, Thrown
<1>7. Tells("failed", Head(queue))
        \in [what : {"nothing", "done", "failed"}, catches : Catches, got : Answers, did : BOOLEAN]
  BY <1>3, <1>5 DEF Tells
<1>8. [Tells("failed", Head(queue)) EXCEPT !.catches = "all"]
        \in [what : {"nothing", "done", "failed"}, catches : Catches, got : Answers, did : BOOLEAN]
  BY <1>5, <1>7
<1>. QED  BY <1>1, <1>6, <1>7, <1>8 DEF FailureTold, Thrown

\* An answer that has been taken out of the queue leaves the rest as it was.
LEMMA TailTyped ==
  ASSUME TypeOK, queue # <<>>, queue' = Tail(queue), page' = page
  PROVE  queue' \in Seq(Presses(page)) /\ Len(queue') <= MaxQueue
<1>1. queue \in Seq(Presses(page)) /\ Len(queue) <= MaxQueue /\ MaxQueue \in Nat
  BY BoundsAssumption DEF TypeOK
<1>2. queue' \in Seq(Presses(page)) /\ Len(queue') = Len(queue) - 1 /\ Len(queue) \in Nat
  BY <1>1, TailOfQueue, HeadOfQueue
<1>. QED  BY <1>1, <1>2

LEMMA PressTyped ==
  ASSUME TypeOK, NEW c \in Offers(page, seen), Press(c)
  PROVE  /\ c \in ControlsOf[page] /\ seen' \in Views(page)
         /\ [control |-> c, got |-> "waiting", did |-> FALSE, was |-> seen.row, blind |-> c.guard \in unseen]
              \in Presses(page)
         /\ queue' \in Seq(Presses(page)) /\ Len(queue') <= MaxQueue
<1>1. page \in AllPages /\ seen \in Views(page) /\ queue \in Seq(Presses(page)) /\ MaxQueue \in Nat
  BY BoundsAssumption DEF TypeOK
<1>2. c \in ControlsOf[page]
  BY <1>1, OffersAreControls
<1>3. Changed(seen, c.act.call) \in Views(page)
  BY <1>1, <1>2, ChangedIsView
<1>4. seen' \in Views(page)
  BY <1>1, <1>3 DEF Press
<1>5. seen.row \in RowsOf[page]
  BY <1>1 DEF Views
<1>. DEFINE new == [control |-> c, got |-> "waiting", did |-> FALSE, was |-> seen.row,
                    blind |-> c.guard \in unseen]
<1>6. new \in Presses(page)
  BY <1>2, <1>5 DEF Presses, Answers
<1>7. queue' = Append(queue, new) /\ Len(queue) < MaxQueue
  BY DEF Press
<1>. HIDE DEF new
<1>8. queue' \in Seq(Presses(page)) /\ Len(queue') <= MaxQueue
  BY <1>1, <1>6, <1>7
<1>. QED  BY <1>2, <1>4, <1>6, <1>8 DEF new

LEMMA ServeTyped ==
  ASSUME TypeOK, Serve
  PROVE  /\ world' \in Worlds(page) /\ unseen' \subseteq FlagsOf(ControlsOf[page])
         /\ queue' \in Seq(Presses(page)) /\ Len(queue') <= MaxQueue
<1>1. /\ page \in AllPages /\ world \in Worlds(page) /\ queue \in Seq(Presses(page)) /\ Len(queue) <= MaxQueue
      /\ unseen \subseteq FlagsOf(ControlsOf[page])
  BY BoundsAssumption DEF TypeOK
<1>. DEFINE c == queue[1].control
<1>2. queue # <<>> /\ queue[1] \in Presses(page) /\ c \in ControlsOf[page]
  BY ServeAnswers DEF Presses
<1>3. \E h \in Presses(page) : queue' = [queue EXCEPT ![1] = h]
  <2>1. /\ [queue[1] EXCEPT !.got = "suspended"] \in Presses(page)
        /\ [queue[1] EXCEPT !.got = "refused"] \in Presses(page)
        /\ [queue[1] EXCEPT !.got = "ok", !.did = TRUE] \in Presses(page)
    BY <1>2 DEF Presses, Answers
  <2>. QED  BY <2>1, ServeAnswers
<1>4. queue' \in Seq(Presses(page)) /\ Len(queue') <= MaxQueue
  BY <1>1, <1>2, <1>3, HeadIsAnswered
<1>5. ~Refuses(c.act.call, world) => [world EXCEPT !.row = c.act.call.does[@]] \in Worlds(page)
  BY <1>1, <1>2, ServedIsWorld
<1>6. world' \in Worlds(page)
  BY <1>1, <1>5, ServeAnswers
<1>7. c.guard \in FlagsOf(ControlsOf[page])
  BY <1>2 DEF FlagsOf
<1>8. unseen' \subseteq FlagsOf(ControlsOf[page])
  BY <1>1, <1>7, ServeAnswers
<1>. QED  BY <1>4, <1>6, <1>8

\* The press whose answer is lost or broken.
LostPress(fate) == [queue[1] EXCEPT !.got = fate]

LEMMA LosePress ==
  ASSUME TypeOK, queue # <<>>, NEW fate \in {"lost", "broken"}
  PROVE  /\ LostPress(fate) \in Presses(page) /\ LostPress(fate).got = fate
         /\ LostPress(fate).control = queue[1].control /\ LostPress(fate).blind = queue[1].blind
<1>1. queue[1] \in Presses(page)
  BY HeadIsPress
<1>. QED  BY <1>1 DEF LostPress, Presses, Answers

LEMMA LoseTyped ==
  ASSUME TypeOK, Lose
  PROVE  /\ queue # <<>> /\ queue[1] \in Presses(page)
         /\ \E fate \in {"lost", "broken"} : queue' = [queue EXCEPT ![1] = LostPress(fate)]
         /\ queue' \in Seq(Presses(page)) /\ Len(queue') <= MaxQueue /\ losses' \in 0 .. MaxLosses /\ losses' > 0
<1>1. /\ queue \in Seq(Presses(page)) /\ Len(queue) <= MaxQueue /\ queue # <<>>
      /\ losses \in 0 .. MaxLosses /\ MaxLosses \in Nat
  BY BoundsAssumption DEF TypeOK, Lose
<1>2. queue[1] \in Presses(page)
  BY <1>1, HeadOfQueue
<1>3. PICK fate \in {"lost", "broken"} : queue' = [queue EXCEPT ![1].got = fate]
  BY DEF Lose
<1>4. queue' = [queue EXCEPT ![1] = LostPress(fate)]
  BY <1>1, <1>3 DEF LostPress
<1>5. queue' \in Seq(Presses(page)) /\ Len(queue') <= MaxQueue
  BY <1>1, <1>4, LosePress, HeadIsAnswered
<1>6. losses' \in 0 .. MaxLosses /\ losses' > 0
  BY <1>1 DEF Lose
<1>. QED  BY <1>1, <1>2, <1>4, <1>5, <1>6

LEMMA SearchTyped ==
  ASSUME TypeOK, Search
  PROVE  world' \in Worlds(page)
<1>1. page \in AllPages /\ world \in Worlds(page) /\ page \in Boards
  BY BoundsAssumption DEF TypeOK, Search
<1>2. {"one", "many"} \subseteq RowsOf[page]
  BY <1>1, TablesAssumption DEF BoardsAreLists
<1>. QED  BY <1>1, <1>2 DEF Search, Worlds

LEMMA InitTyped == Init => TypeOK
<1>. SUFFICES ASSUME Init PROVE TypeOK
  OBVIOUS
<1>1. page \in Pages /\ page \in AllPages /\ world \in Worlds(page) /\ world \in Views(page)
  BY WorldsAreViews, BoundsAssumption DEF Init
<1>2. seen \in Views(page)
  BY <1>1, FallbacksAreViews DEF Init
<1>3. /\ queue \in Seq(Presses(page)) /\ Len(queue) <= MaxQueue
      /\ others \in 0 .. MaxOthers /\ losses \in 0 .. MaxLosses
  BY BoundsAssumption DEF Init
<1>4. told \in [what : {"nothing", "done", "failed"}, catches : Catches, got : Answers, did : BOOLEAN]
  BY DEF Init, NothingTold, Catches, Answers
<1>5. shown = "page" /\ unseen = {}
  BY DEF Init
<1>. QED  BY <1>1, <1>2, <1>3, <1>4, <1>5 DEF TypeOK

LEMMA NextTyped == TypeOK /\ [Next]_vars => TypeOK'
<1>. SUFFICES ASSUME TypeOK, [Next]_vars PROVE TypeOK'
  OBVIOUS
<1>0. /\ page \in Pages /\ page \in AllPages /\ world \in Worlds(page) /\ seen \in Views(page)
      /\ queue \in Seq(Presses(page)) /\ Len(queue) <= MaxQueue
      /\ shown \in {"page", "error", "left", "not found", "suspended"}
      /\ told \in [what : {"nothing", "done", "failed"}, catches : Catches, got : Answers, did : BOOLEAN]
      /\ unseen \subseteq FlagsOf(ControlsOf[page])
      /\ others \in 0 .. MaxOthers /\ losses \in 0 .. MaxLosses
  BY BoundsAssumption DEF TypeOK
<1>1. ASSUME NEW c \in Offers(page, seen), Press(c) PROVE TypeOK'
  BY <1>0, <1>1, PressTyped DEF Press, TypeOK
<1>2. ASSUME Serve PROVE TypeOK'
  BY <1>0, <1>2, ServeTyped DEF Serve, TypeOK
<1>3. ASSUME Lose PROVE TypeOK'
  BY <1>0, <1>3, LoseTyped DEF Lose, TypeOK
<1>4. ASSUME Succeed PROVE TypeOK'
  <2>. DEFINE h == Head(queue)
  <2>1. queue # <<>> /\ Answered(h.control) /\ told' = Tells("done", h)
        /\ queue' = Tail(queue) /\ UNCHANGED <<page, world, others>>
    BY <1>4 DEF Succeed
  <2>2. h \in Presses(page)
    BY <2>1, HeadIsPress
  <2>. HIDE DEF h
  <2>3. h.control \in ControlsOf[page] /\ h.did \in BOOLEAN /\ h.got \in Answers
    BY <2>2 DEF Presses
  <2>4. h.control.act.catches \in Catches
    BY <1>0, <2>3, TablesAssumption
  <2>5. told' \in [what : {"nothing", "done", "failed"}, catches : Catches, got : Answers, did : BOOLEAN]
    BY <2>1, <2>3, <2>4 DEF Tells
  <2>6. queue' \in Seq(Presses(page)) /\ Len(queue') <= MaxQueue
    BY <2>1, TailTyped
  <2>7. /\ seen' \in Views(page) /\ losses' \in 0 .. MaxLosses
        /\ shown' \in {"page", "error", "left", "not found", "suspended"}
        /\ unseen' \subseteq FlagsOf(ControlsOf[page])
    BY <2>1, <2>3, AnsweredTyped
  <2>. QED  BY <1>0, <2>1, <2>5, <2>6, <2>7 DEF TypeOK
<1>5. ASSUME Fail PROVE TypeOK'
  <2>1. /\ queue # <<>> /\ IF Caught(Head(queue)) THEN FailureTold ELSE Thrown
        /\ queue' = Tail(queue) /\ UNCHANGED <<page, world, unseen, others, losses>>
    BY <1>5 DEF Fail
  <2>2. queue' \in Seq(Presses(page)) /\ Len(queue') <= MaxQueue
    BY <2>1, TailTyped
  <2>3. /\ seen' \in Views(page) /\ shown' \in {"page", "error", "left", "not found", "suspended"}
        /\ told' \in [what : {"nothing", "done", "failed"}, catches : Catches, got : Answers, did : BOOLEAN]
    BY <2>1, FailedTyped
  <2>. QED  BY <1>0, <2>1, <2>2, <2>3 DEF TypeOK
<1>6. ASSUME Suspend PROVE TypeOK'
  <2>1. queue # <<>> /\ queue' = Tail(queue) /\ UNCHANGED <<page, world, unseen, others, losses>>
    BY <1>6 DEF Suspend
  <2>2. queue' \in Seq(Presses(page)) /\ Len(queue') <= MaxQueue
    BY <2>1, TailTyped
  <2>3. /\ seen' \in Views(page) /\ shown' \in {"page", "error", "left", "not found", "suspended"}
        /\ told' \in [what : {"nothing", "done", "failed"}, catches : Catches, got : Answers, did : BOOLEAN]
    <3>1. CASE Caught(Head(queue))
      BY <1>6, <2>1, <3>1, FailedTyped DEF Suspend
    <3>2. CASE ~Caught(Head(queue))
      BY <1>0, <1>6, <3>2 DEF Suspend
    <3>. QED  BY <3>1, <3>2
  <2>. QED  BY <1>0, <2>1, <2>2, <2>3 DEF TypeOK
<1>7. ASSUME TryAgain PROVE TypeOK'
  BY <1>0, <1>7 DEF TryAgain, TypeOK
<1>8. ASSUME Reload PROVE TypeOK'
  <2>1. /\ Rerender(world) /\ UNCHANGED <<page, world, queue, told, others>>
    BY <1>8 DEF Reload
  <2>. QED  BY <1>0, <2>1, RerenderTyped DEF TypeOK
<1>9. ASSUME Search PROVE TypeOK'
  <2>1. world' \in Worlds(page) /\ UNCHANGED <<page, queue, told, others>>
    BY <1>9, SearchTyped DEF Search
  <2>2. CASE Rerender(world')
    BY <1>0, <2>1, <2>2, RerenderTyped DEF TypeOK
  <2>3. CASE UNCHANGED <<seen, unseen, shown, losses>>
    BY <1>0, <2>1, <2>3 DEF TypeOK
  <2>. QED  BY <1>9, <2>2, <2>3 DEF Search
<1>10. ASSUME Other PROVE TypeOK'
  <2>1. world' \in Worlds(page) /\ others' \in 0 .. MaxOthers
    <3>1. world' \in Worlds(page) /\ others < MaxOthers /\ others' = others + 1
      BY <1>10 DEF Other
    <3>2. others \in 0 .. MaxOthers /\ MaxOthers \in Nat
      BY <1>0, BoundsAssumption
    <3>. QED  BY <3>1, <3>2
  <2>. QED  BY <1>0, <1>10, <2>1 DEF Other, TypeOK
<1>11. ASSUME UNCHANGED vars PROVE TypeOK'
  BY <1>0, <1>11 DEF vars, TypeOK
<1>. QED
  BY <1>1, <1>2, <1>3, <1>4, <1>5, <1>6, <1>7, <1>8, <1>9, <1>10, <1>11 DEF Next, Done

\* Whatever is pressed, answered, lost or changed by others, the tab and the API keep to what the
\* page is about, and no queue outgrows the tab.
THEOREM PagesTypeCorrect == Spec => []TypeOK
<1>. QED  BY InitTyped, NextTyped, PTL DEF Spec

(* What an answer says is so. *)
Refusable(p, c) == c.typed \/ \E w \in Worlds(p) : w.role # "suspended" /\ Refuses(c.act.call, w)
Fate(p, h, lost) ==
  /\ h.got = "ok" => h.did
  /\ h.got \in {"waiting", "refused", "suspended"} => ~h.did
  /\ h.got \in {"lost", "broken"} => lost > 0
  /\ h.got = "refused" => Refusable(p, h.control)
AnswersAreTrue ==
  \A i \in 1 .. Len(queue) : Fate(page, queue[i], losses) /\ (i > 1 => queue[i].got = "waiting")

LEMMA NothingIsFound ==
  ASSUME TypeOK, [Next]_vars
  PROVE  /\ page' = page /\ others \in Nat /\ losses \in Nat /\ others' \in Nat /\ losses' \in Nat
         /\ others' >= others /\ losses' >= losses
<1>1. others \in 0 .. MaxOthers /\ losses \in 0 .. MaxLosses /\ MaxOthers \in Nat /\ MaxLosses \in Nat
  BY BoundsAssumption DEF TypeOK
<1>2. page' = page
  BY DEF Next, vars, Press, Serve, Lose, Succeed, Fail, Suspend, TryAgain, Reload, Search, Other, Done
<1>3. others' = others \/ others' = others + 1
  BY DEF Next, vars, Press, Serve, Lose, Succeed, Fail, Suspend, TryAgain, Reload, Search, Other, Done
<1>4. ASSUME NEW w, Rerender(w) PROVE losses' = losses \/ losses' = losses + 1
  BY <1>4 DEF Rerender
<1>5. ASSUME NEW c, Answered(c) PROVE losses' = losses \/ losses' = losses + 1
  BY <1>4, <1>5 DEF Answered
<1>6. losses' = losses \/ losses' = losses + 1
  BY <1>4, <1>5 DEF Next, vars, Press, Serve, Lose, Succeed, Fail, Suspend, TryAgain, Reload, Search, Other, Done
<1>. QED  BY <1>1, <1>2, <1>3, <1>6

\* What a step does to the queue.
LEMMA QueueSteps ==
  ASSUME TypeOK, [Next]_vars
  PROVE  \/ queue' = queue
         \/ \E c \in Offers(page, seen) : Press(c)
         \/ Serve
         \/ Lose
         \/ queue # <<>> /\ queue' = Tail(queue)
  BY DEF Next, vars, Succeed, Fail, Suspend, TryAgain, Reload, Search, Other, Done

LEMMA FateKept ==
  ASSUME NEW p, NEW h, NEW lost \in Nat, NEW lostp \in Nat, lostp >= lost, Fate(p, h, lost)
  PROVE  Fate(p, h, lostp)
  BY DEF Fate

\* The invariant over the queue, from what happens to its head.
LEMMA AnswersFollow ==
  ASSUME TypeOK, AnswersAreTrue, [Next]_vars, queue # <<>>,
         NEW h \in Presses(page), queue' = [queue EXCEPT ![1] = h], Fate(page, h, losses')
  PROVE  AnswersAreTrue'
<1>1. /\ page' = page /\ losses \in Nat /\ losses' \in Nat /\ losses' >= losses
  BY NothingIsFound
<1>2. /\ queue \in Seq(Presses(page)) /\ Len(queue') = Len(queue) /\ Len(queue) \in Nat
      /\ queue'[1] = h /\ \A i \in 2 .. Len(queue) : queue'[i] = queue[i]
  BY HeadIsPress, HeadIsAnswered
<1>. SUFFICES ASSUME NEW i \in 1 .. Len(queue)
              PROVE  Fate(page, queue'[i], losses') /\ (i > 1 => queue'[i].got = "waiting")
  BY <1>1, <1>2 DEF AnswersAreTrue
<1>3. CASE i = 1
  BY <1>2, <1>3
<1>4. CASE i # 1
  <2>1. queue'[i] = queue[i]
    BY <1>2, <1>4
  <2>2. Fate(page, queue[i], losses) /\ (i > 1 => queue[i].got = "waiting")
    BY DEF AnswersAreTrue
  <2>. QED  BY <1>1, <2>1, <2>2, FateKept
<1>. QED  BY <1>3, <1>4

LEMMA AnswersNext == TypeOK /\ AnswersAreTrue /\ [Next]_vars => AnswersAreTrue'
<1>. SUFFICES ASSUME TypeOK, AnswersAreTrue, [Next]_vars PROVE AnswersAreTrue'
  OBVIOUS
<1>1. /\ page' = page /\ losses \in Nat /\ losses' \in Nat /\ losses' >= losses
  BY NothingIsFound
<1>2. \A i \in 1 .. Len(queue) : Fate(page, queue[i], losses') /\ (i > 1 => queue[i].got = "waiting")
  BY <1>1, FateKept DEF AnswersAreTrue
<1>3. CASE queue' = queue
  BY <1>1, <1>2, <1>3 DEF AnswersAreTrue
<1>4. ASSUME NEW c \in Offers(page, seen), Press(c) PROVE AnswersAreTrue'
  <2>. DEFINE new == [control |-> c, got |-> "waiting", did |-> FALSE, was |-> seen.row,
                      blind |-> c.guard \in unseen]
  <2>1. Fate(page, new, losses') /\ new.got = "waiting"
    BY DEF Fate
  <2>2. queue' = Append(queue, new)
    BY <1>4 DEF Press
  <2>3. queue \in Seq(Presses(page)) /\ new \in Presses(page)
    BY <1>4, PressTyped DEF TypeOK
  <2>. HIDE DEF new
  <2>4. Len(queue') = Len(queue) + 1 /\ queue'[Len(queue) + 1] = new /\ Len(queue) \in Nat
    BY <2>2, <2>3
  <2>5. \A i \in 1 .. Len(queue) : queue'[i] = queue[i]
    BY <2>2, <2>3
  <2>6. ASSUME NEW i \in 1 .. Len(queue')
        PROVE  Fate(page, queue'[i], losses') /\ (i > 1 => queue'[i].got = "waiting")
    <3>1. i = Len(queue) + 1 \/ i \in 1 .. Len(queue)
      BY <2>4
    <3>. QED  BY <1>2, <2>1, <2>4, <2>5, <3>1
  <2>. QED  BY <1>1, <2>6 DEF AnswersAreTrue
<1>5. ASSUME Serve PROVE AnswersAreTrue'
  <2>1. queue # <<>> /\ queue[1] \in Presses(page) /\ queue[1].got = "waiting" /\ world \in Worlds(page)
    BY <1>5, ServeAnswers DEF TypeOK
  <2>2. ~queue[1].did
    <3>1. 1 \in 1 .. Len(queue)
      BY <2>1, HeadIsPress
    <3>. QED  BY <2>1, <3>1 DEF AnswersAreTrue, Fate
  <2>. DEFINE h(got) == [queue[1] EXCEPT !.got = got]
  <2>3. CASE queue' = [queue EXCEPT ![1] = h("suspended")]
    <3>1. h("suspended") \in Presses(page) /\ Fate(page, h("suspended"), losses')
      BY <2>1, <2>2 DEF Presses, Answers, Fate
    <3>. QED  BY <2>1, <2>3, <3>1, AnswersFollow
  <2>4. CASE /\ queue' = [queue EXCEPT ![1] = h("refused")] /\ world.role # "suspended"
             /\ Refuses(queue[1].control.act.call, world) \/ queue[1].control.typed
    <3>1. Refusable(page, queue[1].control)
      BY <2>1, <2>4 DEF Refusable
    <3>2. h("refused") \in Presses(page) /\ Fate(page, h("refused"), losses')
      BY <2>1, <2>2, <3>1 DEF Presses, Answers, Fate
    <3>. QED  BY <2>1, <2>4, <3>2, AnswersFollow
  <2>5. CASE queue' = [queue EXCEPT ![1] = [queue[1] EXCEPT !.got = "ok", !.did = TRUE]]
    <3>1. /\ [queue[1] EXCEPT !.got = "ok", !.did = TRUE] \in Presses(page)
          /\ Fate(page, [queue[1] EXCEPT !.got = "ok", !.did = TRUE], losses')
      BY <2>1 DEF Presses, Answers, Fate
    <3>. QED  BY <2>1, <2>5, <3>1, AnswersFollow
  <2>. QED  BY <1>5, <2>3, <2>4, <2>5, ServeAnswers
<1>6. ASSUME Lose PROVE AnswersAreTrue'
  <2>1. queue # <<>> /\ losses' > 0
    BY <1>6, LoseTyped
  <2>2. PICK fate \in {"lost", "broken"} : queue' = [queue EXCEPT ![1] = LostPress(fate)]
    BY <1>6, LoseTyped
  <2>3. LostPress(fate) \in Presses(page) /\ LostPress(fate).got \in {"lost", "broken"}
    BY <2>1, LosePress
  <2>4. Fate(page, LostPress(fate), losses')
    BY <2>1, <2>3 DEF Fate
  <2>. QED  BY <2>1, <2>2, <2>3, <2>4, AnswersFollow
<1>7. CASE queue # <<>> /\ queue' = Tail(queue)
  <2>1. /\ Len(queue') = Len(queue) - 1 /\ Len(queue) \in Nat
        /\ \A i \in 1 .. Len(queue') : i + 1 \in 2 .. Len(queue) /\ queue'[i] = queue[i + 1]
    BY <1>7, HeadIsPress, TailOfQueue
  <2>2. ASSUME NEW i \in 1 .. Len(queue')
        PROVE  Fate(page, queue'[i], losses') /\ queue'[i].got = "waiting"
    <3>1. i + 1 \in 1 .. Len(queue) /\ i + 1 > 1 /\ queue'[i] = queue[i + 1]
      BY <2>1
    <3>. QED  BY <1>2, <3>1
  <2>. QED  BY <1>1, <2>2 DEF AnswersAreTrue
<1>. QED  BY <1>3, <1>4, <1>5, <1>6, <1>7, QueueSteps

LEMMA HeadIsTrue ==
  ASSUME TypeOK, AnswersAreTrue, queue # <<>>
  PROVE  Head(queue) \in Presses(page) /\ Fate(page, Head(queue), losses)
<1>1. 1 \in 1 .. Len(queue) /\ Head(queue) = queue[1] /\ queue[1] \in Presses(page)
  BY HeadIsPress
<1>. QED  BY <1>1 DEF AnswersAreTrue

LEMMA ToldNext == TypeOK /\ AnswersAreTrue /\ ToldTruly /\ [Next]_vars => ToldTruly'
<1>. SUFFICES ASSUME TypeOK, AnswersAreTrue, ToldTruly, [Next]_vars PROVE ToldTruly'
  OBVIOUS
<1>1. CASE told' = told
  BY <1>1 DEF ToldTruly
<1>2. CASE Succeed
  <2>1. queue # <<>> /\ Head(queue).got = "ok" /\ told' = Tells("done", Head(queue))
    BY <1>2 DEF Succeed
  <2>2. Head(queue).did
    BY <2>1, HeadIsTrue DEF Fate
  <2>. QED  BY <2>1, <2>2 DEF Tells, ToldTruly
<1>3. ASSUME queue # <<>>, Caught(Head(queue)), FailureTold, Head(queue).got \in {"refused", "lost", "broken", "suspended"}
      PROVE  ToldTruly'
  <2>1. CASE told' = told
    BY <1>1, <2>1
  <2>2. CASE told' = Tells("failed", Head(queue))
    <3>1. Head(queue).control.act.catches # "all" => Head(queue).got \in {"refused", "broken"}
      BY <1>3 DEF Caught
    <3>2. Head(queue).got = "refused" => ~Head(queue).did
      BY <1>3, HeadIsTrue DEF Fate
    <3>. QED  BY <2>2, <3>1, <3>2 DEF Tells, ToldTruly
  <2>. QED  BY <1>3, <2>1, <2>2 DEF FailureTold
<1>4. CASE Fail
  <2>1. queue # <<>> /\ Head(queue).got \in {"refused", "lost", "broken"} /\ IF Caught(Head(queue)) THEN FailureTold ELSE Thrown
    BY <1>4 DEF Fail
  <2>2. CASE Caught(Head(queue))
    BY <1>3, <2>1, <2>2
  <2>3. CASE ~Caught(Head(queue))
    BY <1>1, <2>1, <2>3 DEF Thrown, Tells, ToldTruly
  <2>. QED  BY <2>2, <2>3
<1>5. CASE Suspend
  <2>1. queue # <<>> /\ Head(queue).got = "suspended"
    BY <1>5 DEF Suspend
  <2>2. CASE Caught(Head(queue))
    BY <1>3, <1>5, <2>1, <2>2 DEF Suspend
  <2>3. CASE ~Caught(Head(queue))
    BY <1>1, <1>5, <2>3 DEF Suspend
  <2>. QED  BY <2>2, <2>3
<1>. QED
  BY <1>1, <1>2, <1>4, <1>5 DEF Next, vars, Press, Serve, Lose, TryAgain, Reload, Search, Other, Done

\* What the user is told of a press is what the API did with it, however many presses wait and
\* whatever is lost: only where the API broke after it had done its work, or by an action that makes
\* any exception an answer, is something said to have failed which was done.
THEOREM UserIsToldTruly == Spec => []ToldTruly
<1>. DEFINE I == TypeOK /\ AnswersAreTrue /\ ToldTruly
<1>1. Init => I
  BY InitTyped DEF Init, AnswersAreTrue, ToldTruly, NothingTold
<1>2. I /\ [Next]_vars => I'
  BY NextTyped, AnswersNext, ToldNext
<1>3. I => ToldTruly
  OBVIOUS
<1>. QED  BY <1>1, <1>2, <1>3, PTL DEF Spec

(* A page is replaced by the error page only by a loss, or by a refusal nothing catches. *)
ErrorsAreRefusals == losses = 0 /\ shown = "error" => \E c \in ControlsOf[page] : MayBreak(page, c)

LEMMA ErrorsNext == TypeOK /\ AnswersAreTrue /\ ErrorsAreRefusals /\ [Next]_vars => ErrorsAreRefusals'
<1>. SUFFICES ASSUME TypeOK, AnswersAreTrue, ErrorsAreRefusals, [Next]_vars, losses' = 0, shown' = "error"
              PROVE  \E c \in ControlsOf[page] : MayBreak(page, c)
  BY NothingIsFound DEF ErrorsAreRefusals
<1>1. losses = 0
  BY NothingIsFound
<1>2. CASE shown = "error"
  BY <1>1, <1>2 DEF ErrorsAreRefusals
<1>3. CASE shown # "error"
  <2>1. ASSUME NEW w, Rerender(w) PROVE FALSE
    BY <1>1, <2>1 DEF Rerender
  <2>2. ASSUME NEW c, Answered(c) PROVE FALSE
    BY <1>3, <2>1, <2>2 DEF Answered
  <2>3. /\ Fail /\ queue # <<>> /\ Head(queue).got \in {"refused", "lost", "broken"}
        /\ ~Caught(Head(queue)) /\ Head(queue).control.thrown = "boundary"
    BY <1>3, <2>1, <2>2 DEF Next, vars, Press, Serve, Lose, Succeed, Fail, Suspend, TryAgain, Reload, Search,
                            Other, Done, FailureTold, Thrown
  <2>4. /\ Head(queue) \in Presses(page) /\ Fate(page, Head(queue), losses)
    BY <2>3, HeadIsTrue
  <2>5. Head(queue).got = "refused" /\ Refusable(page, Head(queue).control)
    BY <1>1, <2>3, <2>4 DEF Fate
  <2>6. Head(queue).control \in ControlsOf[page]
    BY <2>4 DEF Presses
  <2>7. page \in AllPages
    BY BoundsAssumption DEF TypeOK
  <2>8. Head(queue).control.act.catches \in Catches
    BY <2>6, <2>7, TablesAssumption
  <2>9. Head(queue).control.act.catches = "none"
    BY <2>3, <2>5, <2>8 DEF Caught, Catches
  <2>. QED  BY <2>3, <2>5, <2>6, <2>9 DEF MayBreak, Refusable
<1>. QED  BY <1>2, <1>3

(* What took effect is on the page before the next press.  Calm: nothing was lost, and the tab is  *)
(* still on the page or behind its error.                                                          *)
Calm == losses = 0 /\ page \notin NotRefreshed /\ shown \in {"page", "error"}
\* What is not on the page yet is the answered press at the head of the queue.
UnseenArePending ==
  Calm => \A n \in unseen : /\ queue # <<>> /\ Head(queue).got = "ok"
                             /\ Head(queue).control.guard = n /\ Head(queue).control \in Changing(page)

LEMMA RerenderLeavesNothing ==
  ASSUME TypeOK, losses = 0, losses' = 0, shown' \in {"page", "error"}, NEW w, Rerender(w)
  PROVE  shown' = "page" /\ seen' = w /\ unseen' = {} /\ CanOpen(page, w)
<1>1. losses' # losses + 1
  OBVIOUS
<1>2. CASE ~CanOpen(page, w)
  BY <1>1, <1>2 DEF Rerender
<1>3. CASE CanOpen(page, w)
  BY <1>1, <1>3 DEF Rerender
<1>. QED  BY <1>2, <1>3

LEMMA CalmBefore ==
  ASSUME TypeOK, [Next]_vars, Calm'
  PROVE  Calm
<1>1. losses' = 0 /\ losses = 0 /\ page' = page /\ page \notin NotRefreshed /\ shown' \in {"page", "error"}
  BY NothingIsFound DEF Calm
<1>2. ASSUME NEW c, Answered(c) PROVE shown \in {"page", "error"}
  BY <1>1, <1>2 DEF Answered
<1>3. shown \in {"page", "error"}
  BY <1>1, <1>2 DEF Next, vars, Press, Serve, Lose, Succeed, Fail, Suspend, TryAgain, Reload, Search,
                    Other, Done, FailureTold, Thrown
<1>. QED  BY <1>1, <1>3 DEF Calm

\* The change that was answered is on the page, or the page is gone.
LEMMA AnswerShowsChanges ==
  ASSUME TypeOK, ErrorsAreRefusals, UnseenArePending, Calm,
         queue # <<>>, NEW c \in ControlsOf[page], c = Head(queue).control,
         Answered(c), losses' = 0, shown' \in {"page", "error"}
  PROVE  unseen' = {}
<1>1. page \in AllPages /\ page \notin NotRefreshed /\ losses = 0
  BY BoundsAssumption DEF TypeOK, Calm
<1>2. ChangesAreShown(page) /\ BreakablePagesRenew(page)
  BY <1>1, TablesAssumption
<1>3. \A n \in unseen : n = c.guard /\ c \in Changing(page)
  BY DEF UnseenArePending
<1>4. CASE shown # "page"
  <2>1. shown = "error"
    BY <1>4 DEF Calm
  <2>2. \A d \in Changing(page) : Revalidates(d)
    BY <1>1, <1>2, <2>1 DEF ErrorsAreRefusals, BreakablePagesRenew, Revalidates
  <2>3. CASE Revalidates(c)
    BY <1>4, <2>1, <2>3 DEF Answered
  <2>4. CASE ~Revalidates(c)
    <3>1. unseen = {}
      BY <1>3, <2>2, <2>4
    <3>2. unseen' = unseen
      BY <1>4, <2>4 DEF Answered
    <3>. QED  BY <3>1, <3>2
  <2>. QED  BY <2>3, <2>4
<1>5. CASE Rerender(world)
  BY <1>1, <1>5, RerenderLeavesNothing
<1>6. CASE /\ shown = "page" /\ c.after # "leave" /\ (Revalidates(c) => KeepsOwnState(page))
           /\ unseen' = IF c.own = "none" THEN unseen ELSE unseen \ {c.guard}
  <2>1. CASE unseen = {}
    BY <1>6, <2>1
  <2>2. CASE unseen # {}
    <3>1. c \in Changing(page)
      BY <1>3, <2>2
    <3>2. IF KeepsOwnState(page) THEN c.own # "none" ELSE Revalidates(c)
      BY <1>2, <1>6, <3>1 DEF ChangesAreShown, Revalidates
    <3>3. c.own # "none"
      BY <1>6, <3>2
    <3>. QED  BY <1>3, <1>6, <3>3
  <2>. QED  BY <2>1, <2>2
<1>. QED  BY <1>4, <1>5, <1>6 DEF Answered

LEMMA UnseenNext ==
  TypeOK /\ ErrorsAreRefusals /\ AnswersAreTrue /\ UnseenArePending /\ [Next]_vars => UnseenArePending'
<1>. SUFFICES ASSUME TypeOK, ErrorsAreRefusals, AnswersAreTrue, UnseenArePending, [Next]_vars, Calm'
              PROVE  \A n \in unseen' : /\ queue' # <<>> /\ Head(queue').got = "ok"
                                         /\ Head(queue').control.guard = n
                                         /\ Head(queue').control \in Changing(page)
  BY NothingIsFound DEF UnseenArePending
<1>0. /\ page' = page /\ losses = 0 /\ losses' = 0 /\ shown' \in {"page", "error"} /\ Calm
      /\ queue \in Seq(Presses(page)) /\ page \in AllPages
  BY NothingIsFound, CalmBefore, BoundsAssumption DEF Calm, TypeOK
<1>1. \A n \in unseen : /\ queue # <<>> /\ Head(queue).got = "ok"
                        /\ Head(queue).control.guard = n /\ Head(queue).control \in Changing(page)
  BY <1>0 DEF UnseenArePending
<1>2. CASE unseen' = {}
  BY <1>2
<1>3. CASE unseen' = unseen /\ queue' = queue
  BY <1>1, <1>3
<1>4. ASSUME NEW c \in Offers(page, seen), Press(c)
      PROVE  unseen' = {} \/ (unseen' = unseen /\ Head(queue') = Head(queue) /\ queue' # <<>>)
  <2>. DEFINE new == [control |-> c, got |-> "waiting", did |-> FALSE, was |-> seen.row,
                      blind |-> c.guard \in unseen]
  <2>1. queue' = Append(queue, new) /\ unseen' = unseen
    BY <1>4 DEF Press
  <2>2. new \in Presses(page)
    BY <1>4, PressTyped
  <2>. HIDE DEF new
  <2>3. queue # <<>> => Head(queue') = Head(queue) /\ queue' # <<>>
    BY <1>0, <2>1, <2>2
  <2>4. queue = <<>> => unseen' = {}
    BY <1>1, <2>1
  <2>. QED  BY <2>1, <2>3, <2>4
<1>5. CASE Serve
  <2>1. queue # <<>> /\ queue[1] \in Presses(page) /\ queue[1].got = "waiting" /\ Head(queue) = queue[1]
    BY <1>5, ServeAnswers, HeadIsPress
  <2>2. unseen = {}
    BY <1>1, <2>1
  <2>3. CASE unseen' = unseen
    BY <1>2, <2>2, <2>3
  <2>4. CASE /\ unseen' = {queue[1].control.guard} /\ world' # world /\ ~Refuses(queue[1].control.act.call, world)
             /\ queue' = [queue EXCEPT ![1] = [queue[1] EXCEPT !.got = "ok", !.did = TRUE]]
             /\ world' = [world EXCEPT !.row = queue[1].control.act.call.does[@]]
    <3>. DEFINE h == [queue[1] EXCEPT !.got = "ok", !.did = TRUE]
    <3>1. h \in Presses(page) /\ h.got = "ok" /\ h.control = queue[1].control /\ h.control \in ControlsOf[page]
      BY <2>1 DEF Presses, Answers
    <3>2. queue' = [queue EXCEPT ![1] = h]
      BY <2>4
    <3>. HIDE DEF h
    <3>3. queue' # <<>> /\ queue' \in Seq(Presses(page)) /\ queue'[1] = h
      BY <1>0, <2>1, <3>1, <3>2, HeadIsAnswered
    <3>4. Head(queue') = h
      BY <3>3, HeadOfQueue
    <3>5. h.control \in Changing(page)
      <4>1. world \in Worlds(page)
        BY DEF TypeOK
      <4>2. world.row \in RowsOf[page] \cap DOMAIN h.control.act.call.does
        BY <1>0, <2>4, <3>1, <4>1, ServedIsWorld
      <4>3. h.control.act.call.does[world.row] # world.row
        BY <2>4, <3>1, <4>1 DEF Worlds
      <4>. QED  BY <3>1, <4>2, <4>3 DEF Changing
    <3>. QED  BY <2>4, <3>1, <3>3, <3>4, <3>5
  <2>. QED  BY <1>5, <2>2, <2>3, <2>4, ServeAnswers
<1>6. CASE Lose
  BY <1>0, <1>6, LoseTyped
<1>7. CASE Succeed
  <2>1. queue # <<>> /\ Answered(Head(queue).control)
    BY <1>7 DEF Succeed
  <2>2. Head(queue) \in Presses(page)
    BY <2>1, HeadIsPress
  <2>3. Head(queue).control \in ControlsOf[page]
    BY <2>2 DEF Presses
  <2>4. unseen' = {}
    BY <1>0, <2>1, <2>3, AnswerShowsChanges
  <2>. QED  BY <2>4
<1>8. CASE Fail \/ Suspend
  <2>1. queue # <<>> /\ Head(queue).got # "ok" /\ unseen' = unseen
    BY <1>8 DEF Fail, Suspend
  <2>2. unseen' = {}
    BY <1>1, <2>1
  <2>. QED  BY <2>2
<1>9. ASSUME NEW w, Rerender(w) PROVE unseen' = {}
  BY <1>0, <1>9, RerenderLeavesNothing
<1>10. CASE Reload
  BY <1>9, <1>10 DEF Reload
<1>11. CASE Search
  <2>1. queue' = queue
    BY <1>11 DEF Search
  <2>2. Rerender(world') \/ unseen' = unseen
    BY <1>11 DEF Search
  <2>. QED  BY <1>3, <1>9, <2>1, <2>2
<1>. QED
  BY <1>1, <1>3, <1>4, <1>5, <1>6, <1>7, <1>8, <1>10, <1>11 DEF Next, vars, TryAgain, Other, Done

\* Every press in the queue was there before with the same control, or has just been made.
LEMMA PressesAreKept ==
  ASSUME TypeOK, [Next]_vars, NEW i \in 1 .. Len(queue')
  PROVE  \/ \E j \in 1 .. Len(queue) : queue'[i].control = queue[j].control /\ queue'[i].blind = queue[j].blind
         \/ \E c \in Offers(page, seen) :
              Press(c) /\ queue'[i].control = c /\ queue'[i].blind = (c.guard \in unseen)
<1>0. queue \in Seq(Presses(page))
  BY DEF TypeOK
<1>1. CASE queue' = queue
  BY <1>1
<1>2. ASSUME NEW c \in Offers(page, seen), Press(c)
      PROVE  \/ \E j \in 1 .. Len(queue) : queue'[i].control = queue[j].control /\ queue'[i].blind = queue[j].blind
             \/ queue'[i].control = c /\ queue'[i].blind = (c.guard \in unseen)
  <2>. DEFINE new == [control |-> c, got |-> "waiting", did |-> FALSE, was |-> seen.row,
                      blind |-> c.guard \in unseen]
  <2>1. queue' = Append(queue, new) /\ new \in Presses(page)
    BY <1>2, PressTyped DEF Press
  <2>2. new.control = c /\ new.blind = (c.guard \in unseen)
    OBVIOUS
  <2>. HIDE DEF new
  <2>3. queue'[i] = new \/ (i \in 1 .. Len(queue) /\ queue'[i] = queue[i])
    BY <1>0, <2>1
  <2>. QED  BY <2>2, <2>3
<1>3. ASSUME queue # <<>>, NEW h \in Presses(page), queue' = [queue EXCEPT ![1] = h],
             h.control = queue[1].control, h.blind = queue[1].blind
      PROVE  \E j \in 1 .. Len(queue) : queue'[i].control = queue[j].control /\ queue'[i].blind = queue[j].blind
  <2>1. /\ Len(queue') = Len(queue) /\ queue'[1] = h
        /\ \A j \in 2 .. Len(queue) : queue'[j] = queue[j]
    BY <1>0, <1>3, HeadIsAnswered
  <2>2. i \in 1 .. Len(queue) /\ (i = 1 \/ queue'[i] = queue[i])
    BY <2>1
  <2>. QED  BY <1>3, <2>1, <2>2
<1>4. CASE Serve
  <2>1. queue # <<>> /\ queue[1] \in Presses(page)
    BY <1>4, ServeAnswers
  <2>2. \E h \in Presses(page) : /\ queue' = [queue EXCEPT ![1] = h]
                                 /\ h.control = queue[1].control /\ h.blind = queue[1].blind
    <3>1. /\ [queue[1] EXCEPT !.got = "suspended"] \in Presses(page)
          /\ [queue[1] EXCEPT !.got = "refused"] \in Presses(page)
          /\ [queue[1] EXCEPT !.got = "ok", !.did = TRUE] \in Presses(page)
      BY <2>1 DEF Presses, Answers
    <3>. DEFINE Same(h) == h.control = queue[1].control /\ h.blind = queue[1].blind
    <3>2. /\ Same([queue[1] EXCEPT !.got = "suspended"]) /\ Same([queue[1] EXCEPT !.got = "refused"])
          /\ Same([queue[1] EXCEPT !.got = "ok", !.did = TRUE])
      BY <2>1 DEF Presses
    <3>. HIDE DEF Same
    <3>3. \E h \in Presses(page) : queue' = [queue EXCEPT ![1] = h] /\ Same(h)
      BY <1>4, <3>1, <3>2, ServeAnswers
    <3>. QED  BY <3>3 DEF Same
  <2>. QED  BY <1>3, <2>1, <2>2
<1>5. CASE Lose
  <2>1. queue # <<>>
    BY <1>5, LoseTyped
  <2>2. PICK fate \in {"lost", "broken"} : queue' = [queue EXCEPT ![1] = LostPress(fate)]
    BY <1>5, LoseTyped
  <2>. QED  BY <1>3, <2>1, <2>2, LosePress
<1>6. CASE queue # <<>> /\ queue' = Tail(queue)
  <2>1. i + 1 \in 1 .. Len(queue) /\ queue'[i] = queue[i + 1]
    BY <1>0, <1>6, TailOfQueue
  <2>. QED  BY <2>1
<1>. QED  BY <1>1, <1>2, <1>4, <1>5, <1>6, QueueSteps

LEMMA RepeatsNext ==
  TypeOK /\ UnseenArePending /\ NoBlindRepeat /\ [Next]_vars => NoBlindRepeat'
<1>. SUFFICES ASSUME TypeOK, UnseenArePending, NoBlindRepeat, [Next]_vars, page \notin NotRefreshed,
                     NEW i \in 1 .. Len(queue'), queue'[i].control.busy, queue'[i].blind
              PROVE  losses' > 0
  BY NothingIsFound DEF NoBlindRepeat
<1>0. losses \in Nat /\ losses' \in Nat /\ losses' >= losses /\ page \in AllPages
  BY NothingIsFound, BoundsAssumption DEF TypeOK
<1>1. CASE \E j \in 1 .. Len(queue) : queue'[i].control = queue[j].control /\ queue'[i].blind = queue[j].blind
  BY <1>0, <1>1 DEF NoBlindRepeat
<1>2. ASSUME NEW c \in Offers(page, seen), Press(c), c.busy, c.guard \in unseen PROVE losses' > 0
  <2>. SUFFICES ASSUME losses = 0 PROVE FALSE
    BY <1>0
  <2>1. queue # <<>> /\ Head(queue).control.guard = c.guard
    BY <1>2 DEF Press, Calm, UnseenArePending
  <2>2. Head(queue) = queue[1] /\ 1 \in 1 .. Len(queue)
    BY <2>1, HeadIsPress
  <2>3. Guarded(c)
    BY <2>1, <2>2 DEF Guarded
  <2>. QED  BY <1>2, <2>3 DEF Press
<1>. QED  BY <1>1, <1>2, PressesAreKept

\* Until something is lost, no button of a component is pressed again before the component's last
\* effect is on the page, on any page that takes up its changes and however many presses may wait:
\* the flag is down only when the answer has been rendered or written into the component's state.
THEOREM RepeatsAreSighted == Spec => []NoBlindRepeat
<1>. DEFINE I == TypeOK /\ AnswersAreTrue /\ ErrorsAreRefusals /\ UnseenArePending /\ NoBlindRepeat
<1>1. Init => I
  BY InitTyped DEF Init, AnswersAreTrue, ErrorsAreRefusals, UnseenArePending, NoBlindRepeat
<1>2. I /\ [Next]_vars => I'
  BY NextTyped, AnswersNext, ErrorsNext, UnseenNext, RepeatsNext
<1>3. I => NoBlindRepeat
  OBVIOUS
<1>. QED  BY <1>1, <1>2, <1>3, PTL DEF Spec

(* A tab in which everything is answered shows what the API holds. *)
Guesses(p) == \E c \in ControlsOf[p] : c.own = "guess"
OneGuessAtATime == page \notin NotRefreshed /\ Guesses(page) => Len(queue) <= 1

LEMMA GuessWaitsForQueue ==
  ASSUME TypeOK, page \notin NotRefreshed, Guesses(page), NEW c \in Offers(page, seen), Press(c)
  PROVE  queue = <<>>
<1>. SUFFICES ASSUME queue # <<>> PROVE FALSE
  OBVIOUS
<1>1. queue[1] \in Presses(page) /\ 1 \in 1 .. Len(queue)
  BY HeadIsPress
<1>2. queue[1].control \in ControlsOf[page] /\ c \in ControlsOf[page]
  BY <1>1, PressTyped DEF Presses
<1>3. GuessesAreAlone(page)
  BY BoundsAssumption, TablesAssumption DEF TypeOK
<1>4. PICK g \in ControlsOf[page] : g.own = "guess"
  BY DEF Guesses
<1>5. c.busy /\ c.guard = g.guard /\ queue[1].control.guard = g.guard
  BY <1>2, <1>3, <1>4 DEF GuessesAreAlone
<1>6. Guarded(c)
  BY <1>1, <1>5 DEF Guarded
<1>. QED  BY <1>5, <1>6 DEF Press

LEMMA GuessNext == TypeOK /\ OneGuessAtATime /\ [Next]_vars => OneGuessAtATime'
<1>. SUFFICES ASSUME TypeOK, OneGuessAtATime, [Next]_vars, page \notin NotRefreshed, Guesses(page)
              PROVE  Len(queue') <= 1
  BY NothingIsFound DEF OneGuessAtATime
<1>0. queue \in Seq(Presses(page)) /\ Len(queue) <= 1 /\ Len(queue) \in Nat
  <2>1. queue \in Seq(Presses(page))
    BY DEF TypeOK
  <2>2. Len(queue) <= 1
    BY DEF OneGuessAtATime
  <2>. QED  BY <2>1, <2>2
<1>1. CASE queue' = queue
  BY <1>0, <1>1
<1>2. ASSUME NEW c \in Offers(page, seen), Press(c) PROVE Len(queue') <= 1
  <2>1. queue = <<>>
    BY <1>2, GuessWaitsForQueue
  <2>. QED  BY <1>2, <2>1 DEF Press
<1>3. CASE Serve
  <2>1. queue # <<>> /\ queue[1] \in Presses(page)
    BY <1>3, ServeAnswers
  <2>2. \E h : queue' = [queue EXCEPT ![1] = h]
    BY <1>3, ServeAnswers
  <2>. QED  BY <1>0, <2>1, <2>2
<1>4. CASE Lose
  BY <1>0, <1>4 DEF Lose
<1>5. CASE queue # <<>> /\ queue' = Tail(queue)
  BY <1>0, <1>5, TailOfQueue
<1>. QED  BY <1>1, <1>2, <1>3, <1>4, <1>5, QueueSteps

\* What the page shows, against the API, while the press h waits or is answered.
InStep(h, v, w) ==
  /\ h.got # "suspended"
  /\ h.control.own = "guess" =>
       /\ h.got # "ok" => w = [v EXCEPT !.row = h.was]
       /\ h.got = "ok" => v = w
       /\ h.got = "waiting" => v = Changed(w, h.control.act.call)
  /\ h.control.own # "guess" =>
       /\ h.got # "ok" => v = w
       /\ h.got = "ok" => v.row \in DOMAIN h.control.act.call.does /\ w = [v EXCEPT !.row = h.control.act.call.does[@]]
PageIsCurrent ==
  Calm /\ others = 0 =>
    /\ world.role # "suspended"
    /\ queue = <<>> => seen = world
    /\ queue # <<>> => InStep(Head(queue), seen, world)

LEMMA PressInStep ==
  ASSUME TypeOK, OneGuessAtATime, PageIsCurrent, Calm, others = 0, NEW c \in Offers(page, seen), Press(c)
  PROVE  queue' # <<>> /\ InStep(Head(queue'), seen', world')
<1>. DEFINE new == [control |-> c, got |-> "waiting", did |-> FALSE, was |-> seen.row,
                    blind |-> c.guard \in unseen]
<1>0. /\ queue \in Seq(Presses(page)) /\ page \notin NotRefreshed /\ world' = world /\ seen \in Views(page)
  BY DEF TypeOK, Calm, Press
<1>1. queue' = Append(queue, new) /\ new \in Presses(page) /\ c \in ControlsOf[page]
  BY PressTyped DEF Press
<1>2. new.control = c /\ new.got = "waiting" /\ new.was = seen.row
  OBVIOUS
<1>. HIDE DEF new
<1>3. CASE queue = <<>>
  <2>1. seen = world /\ queue' # <<>> /\ Head(queue') = new
    BY <1>0, <1>1, <1>3 DEF PageIsCurrent
  <2>2. CASE c.own = "guess"
    <3>1. seen' = Changed(seen, c.act.call)
      BY <2>2 DEF Press
    <3>2. [Changed(seen, c.act.call) EXCEPT !.row = seen.row] = seen
      <4>1. CASE seen.row \in DOMAIN c.act.call.does
        BY <1>0, <4>1 DEF Changed, Views
      <4>2. CASE seen.row \notin DOMAIN c.act.call.does
        BY <1>0, <4>2 DEF Changed, Views
      <4>. QED  BY <4>1, <4>2
    <3>. QED  BY <1>0, <1>2, <2>1, <2>2, <3>1, <3>2 DEF InStep
  <2>3. CASE c.own # "guess"
    BY <1>0, <1>2, <2>1, <2>3 DEF InStep, Press
  <2>. QED  BY <2>2, <2>3
<1>4. CASE queue # <<>>
  <2>1. ~Guesses(page)
    BY <1>0, <1>4, GuessWaitsForQueue
  <2>2. seen' = seen
    BY <1>1, <2>1 DEF Guesses, Press
  <2>3. queue' # <<>> /\ Head(queue') = Head(queue)
    BY <1>0, <1>1, <1>4
  <2>. QED  BY <1>0, <1>4, <2>2, <2>3 DEF PageIsCurrent
<1>. QED  BY <1>3, <1>4

LEMMA ServeInStep ==
  ASSUME TypeOK, PageIsCurrent, Calm, others = 0, Serve
  PROVE  queue' # <<>> /\ InStep(Head(queue'), seen', world') /\ world'.role = world.role
<1>. DEFINE c == queue[1].control
<1>0. /\ queue \in Seq(Presses(page)) /\ page \in AllPages /\ world \in Worlds(page) /\ seen' = seen
      /\ seen \in Views(page)
  BY BoundsAssumption DEF TypeOK, Serve
<1>1. /\ queue # <<>> /\ queue[1] \in Presses(page) /\ queue[1].got = "waiting" /\ Head(queue) = queue[1]
  BY ServeAnswers, HeadIsPress
<1>2. InStep(queue[1], seen, world) /\ world.role # "suspended"
  BY <1>1 DEF PageIsCurrent
<1>3. CASE queue' = [queue EXCEPT ![1] = [queue[1] EXCEPT !.got = "refused"]] /\ world' = world
  <2>. DEFINE h == [queue[1] EXCEPT !.got = "refused"]
  <2>1. h \in Presses(page) /\ h.got = "refused" /\ h.control = c /\ h.was = queue[1].was
    BY <1>1 DEF Presses, Answers
  <2>2. queue' = [queue EXCEPT ![1] = h]
    BY <1>3
  <2>. HIDE DEF h
  <2>3. queue' # <<>> /\ queue' \in Seq(Presses(page)) /\ queue'[1] = h
    BY <1>0, <1>1, <2>1, <2>2, HeadIsAnswered
  <2>4. Head(queue') = h
    BY <2>3, HeadOfQueue
  <2>5. InStep(h, seen, world)
    BY <1>1, <1>2, <2>1 DEF InStep
  <2>. QED  BY <1>0, <1>3, <2>3, <2>4, <2>5
<1>4. CASE /\ queue' = [queue EXCEPT ![1] = [queue[1] EXCEPT !.got = "ok", !.did = TRUE]]
           /\ ~Refuses(c.act.call, world) /\ world' = [world EXCEPT !.row = c.act.call.does[@]]
  <2>. DEFINE h == [queue[1] EXCEPT !.got = "ok", !.did = TRUE]
  <2>1. h \in Presses(page) /\ h.got = "ok" /\ h.control = c /\ h.was = queue[1].was
    BY <1>1 DEF Presses, Answers
  <2>2. queue' = [queue EXCEPT ![1] = h]
    BY <1>4
  <2>. HIDE DEF h
  <2>3. queue' # <<>> /\ queue' \in Seq(Presses(page)) /\ queue'[1] = h
    BY <1>0, <1>1, <2>1, <2>2, HeadIsAnswered
  <2>4. Head(queue') = h
    BY <2>3, HeadOfQueue
  <2>5. world.row \in DOMAIN c.act.call.does
    BY <1>4 DEF Refuses, Conflicts
  <2>6. InStep(h, seen, world')
    <3>1. CASE c.own = "guess"
      <4>1. seen = Changed(world, c.act.call)
        BY <1>1, <1>2, <3>1 DEF InStep
      <4>2. seen = world'
        BY <1>4, <2>5, <4>1 DEF Changed
      <4>. QED  BY <2>1, <3>1, <4>2 DEF InStep
    <3>2. CASE c.own # "guess"
      <4>1. seen = world
        BY <1>1, <1>2, <3>2 DEF InStep
      <4>. QED  BY <1>4, <2>1, <2>5, <3>2, <4>1 DEF InStep
    <3>. QED  BY <3>1, <3>2
  <2>7. world'.role = world.role
    BY <1>0, <1>4 DEF Worlds
  <2>. QED  BY <1>0, <2>3, <2>4, <2>6, <2>7
<1>. QED  BY <1>2, <1>3, <1>4, ServeAnswers

LEMMA SucceedShows ==
  ASSUME TypeOK, ErrorsAreRefusals, PageIsCurrent, Calm, others = 0, Succeed, losses' = 0, shown' \in {"page", "error"}
  PROVE  seen' = world
<1>. DEFINE c == Head(queue).control
<1>0. /\ queue # <<>> /\ Head(queue).got = "ok" /\ Answered(c)
  BY DEF Succeed
<1>1. /\ page \in AllPages /\ page \notin NotRefreshed /\ world \in Worlds(page) /\ seen \in Views(page) /\ losses = 0
      /\ shown \in {"page", "error"}
  BY BoundsAssumption DEF TypeOK, Calm
<1>2. c \in ControlsOf[page]
  BY <1>0, HeadIsPress DEF Presses
<1>3. InStep(Head(queue), seen, world)
  BY <1>0 DEF PageIsCurrent
<1>4. /\ ChangesAreShown(page) /\ BreakablePagesRenew(page) /\ GuessesAreAlone(page)
      /\ c.own \in {"none", "answer", "guess"}
  BY <1>1, <1>2, TablesAssumption
<1>5. c.own = "guess" => seen = world /\ KeepsOwnState(page)
  BY <1>0, <1>2, <1>3, <1>4 DEF InStep, GuessesAreAlone
<1>6. c.own # "guess" => Changed(seen, c.act.call) = world
  BY <1>0, <1>3 DEF InStep, Changed
\* A control that changes nothing leaves the page as current as it was.
<1>7. c \notin Changing(page) => seen = world
  <2>. SUFFICES ASSUME c \notin Changing(page), c.own # "guess" PROVE seen = world
    BY <1>5
  <2>1. seen.row \in DOMAIN c.act.call.does /\ world = [seen EXCEPT !.row = c.act.call.does[@]]
    BY <1>0, <1>3 DEF InStep
  <2>2. seen.row \in RowsOf[page]
    BY <1>1 DEF Views
  <2>3. c.act.call.does[seen.row] = seen.row
    BY <1>2, <2>1, <2>2 DEF Changing
  <2>. QED  BY <1>1, <2>1, <2>3 DEF Views
<1>8. CASE shown # "page"
  <2>1. shown = "error"
    BY <1>1, <1>8
  <2>2. CASE Revalidates(c)
    BY <1>0, <1>8, <2>1, <2>2 DEF Answered
  <2>3. CASE ~Revalidates(c)
    <3>1. c \notin Changing(page)
      BY <1>1, <1>4, <2>1, <2>3 DEF ErrorsAreRefusals, BreakablePagesRenew, Revalidates
    <3>2. seen' = seen
      BY <1>0, <1>8, <2>3 DEF Answered
    <3>. QED  BY <1>7, <3>1, <3>2
  <2>. QED  BY <2>2, <2>3
<1>9. CASE Rerender(world)
  BY <1>1, <1>9, RerenderLeavesNothing
<1>10. CASE /\ shown = "page" /\ c.after # "leave" /\ (Revalidates(c) => KeepsOwnState(page))
            /\ seen' = IF c.own = "answer" THEN Changed(seen, c.act.call) ELSE seen
  <2>1. CASE c.own = "guess"
    BY <1>5, <1>10, <2>1
  <2>2. CASE c.own = "answer"
    BY <1>6, <1>10, <2>2
  <2>3. CASE c.own = "none"
    <3>1. c \notin Changing(page)
      BY <1>4, <1>10, <2>3 DEF ChangesAreShown, Revalidates
    <3>. QED  BY <1>7, <1>10, <2>3, <3>1
  <2>. QED  BY <1>4, <2>1, <2>2, <2>3
<1>. QED  BY <1>0, <1>8, <1>9, <1>10 DEF Answered

LEMMA FailureShows ==
  ASSUME TypeOK, AnswersAreTrue, PageIsCurrent, Calm, others = 0, Fail, losses' = 0
  PROVE  seen' = world
<1>. DEFINE h == Head(queue)
<1>0. /\ queue # <<>> /\ h.got \in {"refused", "lost", "broken"} /\ losses = 0
      /\ IF Caught(h) THEN FailureTold ELSE Thrown
  BY DEF Fail, Calm
<1>1. /\ page \in AllPages /\ page \notin NotRefreshed /\ seen \in Views(page)
  BY BoundsAssumption DEF TypeOK, Calm
<1>2. h \in Presses(page) /\ InStep(h, seen, world) /\ h.got = "refused"
  BY <1>0, HeadIsTrue DEF PageIsCurrent, Fate
<1>3. h.control \in ControlsOf[page]
  BY <1>2 DEF Presses
<1>4. TakenBack(h.control, h.was) = world
  BY <1>2 DEF InStep, TakenBack
<1>5. CASE Caught(h)
  BY <1>0, <1>4, <1>5 DEF FailureTold
<1>6. CASE ~Caught(h)
  <2>1. h.control.own # "guess"
    <3>1. GuessesAreAlone(page)
      BY <1>1, TablesAssumption
    <3>. QED  BY <1>3, <1>6, <3>1 DEF GuessesAreAlone, Caught
  <2>2. seen = world
    BY <1>2, <2>1 DEF InStep
  <2>. QED  BY <1>0, <1>4, <1>6, <2>2 DEF Thrown
<1>. QED  BY <1>5, <1>6

\* When an answer is taken out of the queue and the page is current, the next press is in step.
LEMMA NextPressInStep ==
  ASSUME TypeOK, AnswersAreTrue, OneGuessAtATime, page \notin NotRefreshed,
         queue # <<>>, queue' = Tail(queue), seen' = world, world' = world, queue' # <<>>
  PROVE  InStep(Head(queue'), seen', world')
<1>1. queue \in Seq(Presses(page)) /\ Len(queue) \in Nat
  BY HeadIsPress
<1>2. Len(queue) >= 2 /\ Head(queue') = queue[2] /\ queue[2] \in Presses(page)
  BY <1>1
<1>3. queue[2].got = "waiting"
  BY <1>1, <1>2 DEF AnswersAreTrue
<1>4. queue[2].control.own # "guess"
  <2>1. ~Guesses(page)
    BY <1>1, <1>2 DEF OneGuessAtATime
  <2>2. queue[2].control \in ControlsOf[page]
    BY <1>2 DEF Presses
  <2>. QED  BY <2>1, <2>2 DEF Guesses
<1>. QED  BY <1>2, <1>3, <1>4 DEF InStep

LEMMA CurrentInit == Init => PageIsCurrent
<1>. SUFFICES ASSUME Init, losses = 0 PROVE world.role # "suspended" /\ seen = world /\ queue = <<>>
  BY DEF PageIsCurrent, Calm
<1>1. world.role # "suspended"
  BY DEF Init, CanOpen
<1>2. seen = world /\ queue = <<>>
  BY DEF Init
<1>. QED  BY <1>1, <1>2

LEMMA CurrentNext ==
  /\ TypeOK /\ AnswersAreTrue /\ ErrorsAreRefusals /\ OneGuessAtATime /\ PageIsCurrent
  /\ [Next]_vars
  => PageIsCurrent'
<1>. SUFFICES ASSUME TypeOK, AnswersAreTrue, ErrorsAreRefusals, OneGuessAtATime, PageIsCurrent,
                     [Next]_vars, Calm', others' = 0
              PROVE  /\ world'.role # "suspended"
                     /\ queue' = <<>> => seen' = world'
                     /\ queue' # <<>> => InStep(Head(queue'), seen', world')
  BY DEF PageIsCurrent
<1>0. /\ Calm /\ others = 0 /\ losses = 0 /\ losses' = 0 /\ shown' \in {"page", "error"}
      /\ page \notin NotRefreshed /\ page' = page
  BY CalmBefore, NothingIsFound DEF Calm
<1>1. /\ world.role # "suspended"
      /\ queue = <<>> => seen = world
      /\ queue # <<>> => InStep(Head(queue), seen, world)
  BY <1>0 DEF PageIsCurrent
<1>2. CASE UNCHANGED <<world, seen, queue>>
  BY <1>1, <1>2
<1>3. ASSUME NEW c \in Offers(page, seen), Press(c)
      PROVE  world' = world /\ queue' # <<>> /\ InStep(Head(queue'), seen', world')
  BY <1>0, <1>3, PressInStep DEF Press
<1>4. CASE Serve
  BY <1>0, <1>1, <1>4, ServeInStep
<1>5. CASE queue # <<>> /\ queue' = Tail(queue) /\ world' = world /\ seen' = world
  BY <1>0, <1>1, <1>5, NextPressInStep
<1>6. CASE Succeed
  <2>1. queue # <<>> /\ queue' = Tail(queue) /\ world' = world
    BY <1>6 DEF Succeed
  <2>2. seen' = world
    BY <1>0, <1>6, SucceedShows
  <2>. QED  BY <1>5, <2>1, <2>2
<1>7. CASE Fail
  <2>1. queue # <<>> /\ queue' = Tail(queue) /\ world' = world
    BY <1>7 DEF Fail
  <2>2. seen' = world
    BY <1>0, <1>7, FailureShows
  <2>. QED  BY <1>5, <2>1, <2>2
<1>8. CASE Suspend
  BY <1>1, <1>8 DEF Suspend, InStep
<1>9. CASE Reload
  <2>1. Rerender(world) /\ UNCHANGED <<world, queue>> /\ queue = <<>>
    BY <1>9 DEF Reload
  <2>2. seen' = world
    BY <1>0, <2>1, RerenderLeavesNothing
  <2>. QED  BY <1>1, <2>1, <2>2
<1>10. CASE Search
  <2>1. page \in KeyedByQuery
    BY <1>0, <1>10 DEF Search, Boards, KeyedByQuery, NotRefreshed
  <2>2. Rerender(world') /\ queue' = queue /\ queue = <<>>
    BY <1>10, <2>1 DEF Search
  <2>3. seen' = world'
    BY <1>0, <2>2, RerenderLeavesNothing
  <2>4. world'.role = world.role
    BY <1>10 DEF Search, TypeOK, Worlds
  <2>. QED  BY <1>1, <2>2, <2>3, <2>4
<1>11. CASE Lose \/ Other
  BY <1>0, <1>11 DEF Lose, Other
<1>. QED
  BY <1>2, <1>3, <1>4, <1>6, <1>7, <1>8, <1>9, <1>10, <1>11, <1>1 DEF Next, vars, TryAgain, Done

\* When all a tab's presses are answered, nothing was lost and nobody else changed anything, the
\* page shows what the API holds: through refusals and error pages, optimistic changes, answers
\* written into a component's own state and renderings, on every page that takes up its changes.
THEOREM AnsweredPageIsCurrent == Spec => []SettledPageIsCurrent
<1>. DEFINE I == TypeOK /\ AnswersAreTrue /\ ErrorsAreRefusals /\ OneGuessAtATime /\ PageIsCurrent
<1>1. Init => I
  BY InitTyped, CurrentInit DEF Init, AnswersAreTrue, ErrorsAreRefusals, OneGuessAtATime
<1>2. I /\ [Next]_vars => I'
  BY NextTyped, AnswersNext, ErrorsNext, GuessNext, CurrentNext
<1>3. I => SettledPageIsCurrent
  BY DEF SettledPageIsCurrent, PageIsCurrent, Calm
<1>. QED  BY <1>1, <1>2, <1>3, PTL DEF Spec

(* Every press is answered, if what can run runs.  What is left to trust is when the four actions of
   the tab and of the API can take a step: no prover here reasons about ENABLED, so that stands as the
   hypothesis CanRun, which TLC finds true. *)
Empty == queue = <<>>
Waiting == queue # <<>> /\ queue[1].got = "waiting"
Ready == queue # <<>> /\ queue[1].got = "ok"
Failed == queue # <<>> /\ queue[1].got \in {"refused", "lost", "broken"}
Halted == queue # <<>> /\ queue[1].got = "suspended"
Shorter == <<Len(queue') < Len(queue)>>_vars

\* The oldest press waits, has its answer, has failed or is of a suspended account, and each is
\* enough for the action that comes next.
CanRun ==
  /\ Waiting => ENABLED <<Serve>>_vars
  /\ Ready => ENABLED <<Succeed>>_vars
  /\ Failed => ENABLED <<Fail>>_vars
  /\ Halted => ENABLED <<Suspend>>_vars

LEMMA TakingShortens ==
  ASSUME TypeOK, queue # <<>>, queue' = Tail(queue)
  PROVE  Shorter
<1>1. queue \in Seq(Presses(page)) /\ Len(queue) \in Nat
  BY HeadIsPress
<1>2. Len(queue') = Len(queue) - 1
  BY <1>1, TailOfQueue
<1>3. Len(queue') < Len(queue) /\ queue' # queue
  <2>1. Len(queue') < Len(queue)
    BY <1>1, <1>2
  <2>2. ASSUME queue' = queue PROVE FALSE
    BY <1>1, <1>2, <2>2
  <2>. QED  BY <2>1, <2>2
<1>4. vars' # vars
  BY <1>3 DEF vars
<1>. QED  BY <1>3, <1>4 DEF Shorter

LEMMA HeadGoesOn ==
  ASSUME TypeOK, [Next]_vars, queue # <<>>, ~Shorter
  PROVE  /\ queue' # <<>>
         /\ \/ queue'[1] = queue[1]
            \/ Waiting /\ Serve /\ queue'[1].got \in {"suspended", "refused", "ok"}
            \/ (Waiting \/ Ready) /\ queue'[1].got \in {"lost", "broken"}
<1>1. queue \in Seq(Presses(page)) /\ Len(queue) \in Nat \ {0} /\ Head(queue) = queue[1] /\ queue[1] \in Presses(page)
  BY HeadIsPress
<1>2. CASE queue' = queue
  BY <1>2
<1>3. ASSUME NEW c \in Offers(page, seen), Press(c)
      PROVE  queue' # <<>> /\ queue'[1] = queue[1]
  <2>1. PICK new : queue' = Append(queue, new)
    BY <1>3 DEF Press
  <2>. QED  BY <1>1, <2>1
<1>4. CASE Serve
  <2>1. queue[1].got = "waiting"
    BY <1>4, ServeAnswers
  <2>2. PICK h \in Presses(page) :
          h.got \in {"suspended", "refused", "ok"} /\ queue' = [queue EXCEPT ![1] = h]
    <3>1. /\ [queue[1] EXCEPT !.got = "suspended"] \in Presses(page)
          /\ [queue[1] EXCEPT !.got = "refused"] \in Presses(page)
          /\ [queue[1] EXCEPT !.got = "ok", !.did = TRUE] \in Presses(page)
          /\ [queue[1] EXCEPT !.got = "suspended"].got = "suspended"
          /\ [queue[1] EXCEPT !.got = "refused"].got = "refused"
          /\ [queue[1] EXCEPT !.got = "ok", !.did = TRUE].got = "ok"
      BY <1>1 DEF Presses, Answers
    <3>. QED  BY <1>4, <3>1, ServeAnswers
  <2>3. queue' # <<>> /\ queue'[1] = h
    BY <1>1, <2>2, HeadIsAnswered
  <2>. QED  BY <1>4, <2>1, <2>2, <2>3 DEF Waiting
<1>5. CASE Lose
  <2>1. PICK fate \in {"lost", "broken"} : queue' = [queue EXCEPT ![1] = LostPress(fate)]
    BY <1>5, LoseTyped
  <2>2. queue' # <<>> /\ queue'[1].got \in {"lost", "broken"}
    BY <1>1, <2>1, LosePress, HeadIsAnswered
  <2>3. Waiting \/ Ready
    BY <1>1, <1>5 DEF Lose, Waiting, Ready
  <2>. QED  BY <2>2, <2>3
<1>. QED  BY <1>2, <1>3, <1>4, <1>5, QueueSteps, TakingShortens

\* A press whose oldest companion has its answer moves up, whatever is pressed, lost or refused
\* meanwhile: a fair tab whose actions can run when their press is at the head of the queue answers
\* everything, or goes on answering.
THEOREM FairTabAnswers == Spec /\ []CanRun => AllAnswered
<1>1. TypeOK /\ [Next]_vars /\ Waiting => Shorter \/ Waiting' \/ Ready' \/ Failed' \/ Halted'
  BY HeadGoesOn DEF Waiting, Ready, Failed, Halted
<1>2. TypeOK /\ [Next]_vars /\ Ready => Shorter \/ Ready' \/ Failed'
  BY HeadGoesOn DEF Waiting, Ready, Failed
<1>3. TypeOK /\ [Next]_vars /\ Failed => Shorter \/ Failed'
  BY HeadGoesOn DEF Waiting, Ready, Failed
<1>4. TypeOK /\ [Next]_vars /\ Halted => Shorter \/ Halted'
  BY HeadGoesOn DEF Waiting, Ready, Halted
<1>5. TypeOK /\ ~Empty => Waiting \/ Ready \/ Failed \/ Halted
  BY HeadIsPress DEF Empty, Waiting, Ready, Failed, Halted, Presses, Answers
<1>6. TypeOK /\ [Next]_vars /\ <<Serve>>_vars => ~Waiting'
  <2>. SUFFICES ASSUME TypeOK, Serve PROVE queue' # <<>> => queue'[1].got # "waiting"
    BY DEF Waiting
  <2>1. PICK h \in Presses(page) : h.got # "waiting" /\ queue' = [queue EXCEPT ![1] = h]
    <3>1. queue[1] \in Presses(page)
      BY ServeAnswers
    <3>2. /\ [queue[1] EXCEPT !.got = "suspended"] \in Presses(page)
          /\ [queue[1] EXCEPT !.got = "refused"] \in Presses(page)
          /\ [queue[1] EXCEPT !.got = "ok", !.did = TRUE] \in Presses(page)
          /\ [queue[1] EXCEPT !.got = "suspended"].got = "suspended"
          /\ [queue[1] EXCEPT !.got = "refused"].got = "refused"
          /\ [queue[1] EXCEPT !.got = "ok", !.did = TRUE].got = "ok"
      BY <3>1 DEF Presses, Answers
    <3>. QED  BY <3>2, ServeAnswers
  <2>2. queue # <<>>
    BY ServeAnswers
  <2>. QED  BY <2>1, <2>2, HeadIsPress, HeadIsAnswered
<1>7. TypeOK /\ <<Succeed>>_vars => Shorter
  BY TakingShortens DEF Succeed
<1>8. TypeOK /\ <<Fail>>_vars => Shorter
  BY TakingShortens DEF Fail
<1>9. TypeOK /\ <<Suspend>>_vars => Shorter
  BY TakingShortens DEF Suspend
<1>10. Empty <=> queue = <<>>
  BY DEF Empty
<1>. QED
  BY <1>1, <1>2, <1>3, <1>4, <1>5, <1>6, <1>7, <1>8, <1>9, <1>10, PagesTypeCorrect, PTL
     DEF Spec, CanRun, AllAnswered, Shorter
=============================================================================
