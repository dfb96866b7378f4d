-------------------------- MODULE PromoCodesProofs --------------------------
(***************************************************************************)
(* Proofs about PromoCodes, for any finite number of organisations and of  *)
(* requests in flight, any codes and any caps.                             *)
(***************************************************************************)
EXTENDS PromoCodes, FiniteSetTheorems, TLAPS

\* One row at most, none of an organisation that is gone, and only a free
\* period that exists can be over.
RowsAreSingle ==
    /\ \A o \in Orgs : rows[o] = <<>> \/ \E k \in Kinds : rows[o] = <<k>>
    /\ \A o \in Orgs : o \notin orgs => rows[o] = <<>>
    /\ \A o \in closed : rows[o] # <<>>

\* A code with no redemptions to give is in nobody's hands.
NothingPendingAtZero ==
    \A c \in Codes : Cap[c] = 0 => Pending(c) = {} /\ Holders(c) = {}

WithinReach ==
    \A c \in Codes : Cap[c] # 0 =>
        Redemptions(c) + Cardinality(Pending(c)) < Cap[c] + Cardinality(Requests)

PInv == TypeOK /\ RowsAreSingle /\ NothingPendingAtZero /\ WithinReach

-----------------------------------------------------------------------------
(* Counting *)

LEMMA Counted ==
    ASSUME NEW c \in Codes
    PROVE  /\ IsFiniteSet(Holders(c)) /\ IsFiniteSet(Pending(c))
           /\ Redemptions(c) \in Nat /\ Cardinality(Pending(c)) \in Nat
           /\ Cardinality(Requests) \in Nat /\ Cap[c] \in Nat
           /\ Cardinality(Pending(c)) <= Cardinality(Requests)
  <1>1. Holders(c) \subseteq Orgs /\ Pending(c) \subseteq Requests
    BY DEF Holders, Pending
  <1>2. QED
    BY <1>1, FS_Subset, FS_CardinalityType, CapAssumption, RequestsAssumption,
       OrgsAssumption DEF Redemptions

\* A step that adds no holder and no pending request leaves the count in reach.
LEMMA NoMoreCounted ==
    ASSUME NEW c \in Codes, Holders(c)' \subseteq Holders(c),
           Pending(c)' \subseteq Pending(c)
    PROVE  /\ Redemptions(c)' <= Redemptions(c) /\ Redemptions(c)' \in Nat
           /\ Cardinality(Pending(c))' <= Cardinality(Pending(c))
           /\ Cardinality(Pending(c))' \in Nat
  BY Counted, FS_Subset, FS_CardinalityType DEF Redemptions

LEMMA FewerIsWithinReach ==
    ASSUME PInv,
           \A c \in Codes : Holders(c)' \subseteq Holders(c) /\ Pending(c)' \subseteq Pending(c)
    PROVE  NothingPendingAtZero' /\ WithinReach'
  <1>1. NothingPendingAtZero'
    BY DEF PInv, NothingPendingAtZero
  <1>2. ASSUME NEW c \in Codes, Cap[c] # 0
        PROVE  Redemptions(c)' + Cardinality(Pending(c))' < Cap[c] + Cardinality(Requests)
    <2>1. Redemptions(c) + Cardinality(Pending(c)) < Cap[c] + Cardinality(Requests)
      BY <1>2 DEF PInv, WithinReach
    <2>2. QED BY <2>1, Counted, NoMoreCounted
  <1>3. QED BY <1>1, <1>2 DEF WithinReach

-----------------------------------------------------------------------------
LEMMA InitPInv == Init => PInv
  <1> SUFFICES ASSUME Init PROVE PInv
    OBVIOUS
  <1>1. TypeOK
    BY DEF Init, TypeOK, RequestStates
  <1>2. RowsAreSingle
    BY DEF Init, RowsAreSingle
  <1>3. ASSUME NEW c \in Codes
        PROVE  Pending(c) = {} /\ Holders(c) = {}
    <2>1. DOMAIN <<>> = {}
      OBVIOUS
    <2>2. QED BY <2>1 DEF Init, Pending, Holders
  <1>4. WithinReach
    BY <1>3, Counted, FS_EmptySet DEF WithinReach, Redemptions
  <1>5. QED BY <1>1, <1>2, <1>3, <1>4 DEF PInv, NothingPendingAtZero

LEMMA FindCodeStep ==
    ASSUME PInv, NEW r \in Requests, NEW o \in Orgs, NEW c \in Codes, FindCode(r, o, c)
    PROVE  PInv'
  <1>1. TypeOK'
    BY DEF PInv, FindCode, Become, TypeOK, RequestStates, Kinds
  <1>2. RowsAreSingle'
    BY DEF PInv, FindCode, RowsAreSingle
  <1>3. Redemptions(c) < Cap[c] /\ rows' = rows
    BY DEF FindCode, HasRedemptionsLeft
  <1>4. ASSUME NEW d \in Codes
        PROVE  Holders(d)' = Holders(d) /\ (d # c => Pending(d)' \subseteq Pending(d))
    BY DEF PInv, TypeOK, FindCode, Become, Holders, Pending
  <1>5. Cap[c] # 0
    BY <1>3, Counted
  <1>6. NothingPendingAtZero'
    BY <1>4, <1>5 DEF PInv, NothingPendingAtZero
  <1>7. ASSUME NEW d \in Codes, Cap[d] # 0
        PROVE  Redemptions(d)' + Cardinality(Pending(d))' < Cap[d] + Cardinality(Requests)
    <2>1. CASE d = c
      <3>1. Redemptions(c)' = Redemptions(c)
        BY <1>4 DEF Redemptions
      <3>2. Cardinality(Pending(c))' <= Cardinality(Requests) /\ Cardinality(Pending(c))' \in Nat
        <4>1. Pending(c)' \subseteq Requests
          BY DEF Pending
        <4>2. QED BY <4>1, FS_Subset, FS_CardinalityType, RequestsAssumption
      <3>3. QED BY <1>3, <2>1, <3>1, <3>2, Counted
    <2>2. CASE d # c
      <3>1. Redemptions(d) + Cardinality(Pending(d)) < Cap[d] + Cardinality(Requests)
        BY <1>7 DEF PInv, WithinReach
      <3>2. QED BY <1>4, <2>2, <3>1, Counted, NoMoreCounted
    <2>3. QED BY <2>1, <2>2
  <1>8. QED BY <1>1, <1>2, <1>6, <1>7 DEF PInv, WithinReach

\* The insert turns a pending request into a redemption: the sum stays.
LEMMA CreatePeriodStep ==
    ASSUME PInv, NEW r \in Requests, CreatePeriod(r)
    PROVE  PInv'
  <1> DEFINE o == request[r].org
             k == request[r].code
  <1>1. o \in Orgs /\ k \in Kinds /\ request[r].pc = "unused"
    BY DEF PInv, TypeOK, CreatePeriod, RequestStates
  <1>2. /\ request' = [request EXCEPT ![r] = [pc |-> "idle"]]
        /\ UNCHANGED <<orgs, active, closed>>
    BY DEF CreatePeriod, Done, Become
  <1>3. \A c \in Codes : Pending(c)' = Pending(c) \ {r}
    BY <1>2 DEF Pending, PInv, TypeOK
  <1>4. CASE ~MayInsert(o)
    <2>1. rows' = rows
      BY <1>4 DEF CreatePeriod
    <2>2. TypeOK' /\ RowsAreSingle'
      BY <1>2, <2>1 DEF PInv, TypeOK, RequestStates, RowsAreSingle
    <2>3. \A c \in Codes : Holders(c)' \subseteq Holders(c) /\ Pending(c)' \subseteq Pending(c)
      BY <1>3, <2>1 DEF Holders
    <2>4. QED BY <2>2, <2>3, FewerIsWithinReach DEF PInv
  <1>5. CASE MayInsert(o)
    <2>1. rows' = [rows EXCEPT ![o] = <<k>>] /\ o \in orgs
      <3>1. rows[o] = <<>> /\ o \in orgs
        BY <1>5 DEF MayInsert
      <3>2. rows' = [rows EXCEPT ![o] = Append(@, k)]
        BY <1>5 DEF CreatePeriod
      <3>3. Append(<<>>, k) = <<k>>
        OBVIOUS
      <3>4. QED BY <3>1, <3>2, <3>3
    <2> HIDE DEF o, k
    <2>2. /\ rows'[o] = <<k>> /\ \A p \in Orgs \ {o} : rows'[p] = rows[p]
      BY <1>1, <2>1 DEF PInv, TypeOK
    <2>3. TypeOK'
      <3>1. <<k>> \in Seq(Kinds)
        BY <1>1
      <3>2. QED BY <1>2, <2>1, <3>1 DEF PInv, TypeOK, RequestStates
    <2>4. RowsAreSingle'
      BY <1>1, <1>2, <2>1, <2>2 DEF PInv, TypeOK, RowsAreSingle
    <2>5. ASSUME NEW c \in Codes
          PROVE  /\ c # k => Holders(c)' \subseteq Holders(c)
                 /\ Holders(c)' \subseteq Holders(c) \cup {o}
      <3>1. DOMAIN <<k>> = {1} /\ <<k>>[1] = k
        OBVIOUS
      <3>2. QED BY <2>2, <3>1 DEF Holders
    <2>6. k \in Codes => r \in Pending(k)
      BY <1>1 DEF Pending, k
    <2>7. NothingPendingAtZero'
      <3>1. SUFFICES ASSUME NEW c \in Codes, Cap[c] = 0
                     PROVE  Pending(c)' = {} /\ Holders(c)' = {}
        BY DEF NothingPendingAtZero
      <3>2. Pending(c) = {} /\ Holders(c) = {}
        BY <3>1 DEF PInv, NothingPendingAtZero
      <3>3. c # k
        BY <2>6, <3>2
      <3>4. QED BY <1>3, <2>5, <3>2, <3>3
    <2>8. ASSUME NEW c \in Codes, Cap[c] # 0
          PROVE  Redemptions(c)' + Cardinality(Pending(c))' < Cap[c] + Cardinality(Requests)
      <3>1. Redemptions(c) + Cardinality(Pending(c)) < Cap[c] + Cardinality(Requests)
        BY <2>8 DEF PInv, WithinReach
      <3>2. CASE c # k
        <4>1. Holders(c)' \subseteq Holders(c) /\ Pending(c)' \subseteq Pending(c)
          BY <1>3, <2>5, <3>2
        <4>2. QED BY <3>1, <4>1, Counted, NoMoreCounted
      <3>3. CASE c = k
        <4>1. Cardinality(Pending(c))' = Cardinality(Pending(c)) - 1
          BY <1>3, <2>6, <3>3, Counted, FS_RemoveElement
        <4>2. Redemptions(c)' <= Redemptions(c) + 1 /\ Redemptions(c)' \in Nat
          <5>1. /\ IsFiniteSet(Holders(c) \cup {o})
                /\ Cardinality(Holders(c) \cup {o}) <= Redemptions(c) + 1
            <6>1. IsFiniteSet(Holders(c)) /\ Cardinality(Holders(c)) \in Nat
              BY Counted, FS_CardinalityType
            <6>2. /\ IsFiniteSet(Holders(c) \cup {o})
                  /\ Cardinality(Holders(c) \cup {o})
                        \in {Cardinality(Holders(c)), Cardinality(Holders(c)) + 1}
              BY <6>1, FS_AddElement
            <6>3. QED BY <6>1, <6>2 DEF Redemptions
          <5>2. /\ IsFiniteSet(Holders(c)')
                /\ Cardinality(Holders(c)') <= Cardinality(Holders(c) \cup {o})
            BY <2>5, <5>1, FS_Subset
          <5>3. QED BY <5>1, <5>2, Counted, FS_CardinalityType DEF Redemptions
        <4>3. QED BY <3>1, <4>1, <4>2, Counted
      <3>4. QED BY <3>2, <3>3
    <2>9. QED BY <2>3, <2>4, <2>7, <2>8 DEF PInv, WithinReach
  <1>6. QED BY <1>4, <1>5

LEMMA PInvStep == PInv /\ [Next]_vars => PInv'
  <1> SUFFICES ASSUME PInv, [Next]_vars PROVE PInv'
    OBVIOUS
  <1>1. ASSUME NEW r \in Requests, NEW o \in Orgs, BeginLaunchYear(r, o)
        PROVE  PInv'
    <2>1. TypeOK' /\ RowsAreSingle'
      BY <1>1 DEF PInv, BeginLaunchYear, LaunchSource, Become, TypeOK, RequestStates, Kinds,
                  RowsAreSingle
    <2>2. \A c \in Codes : Holders(c)' \subseteq Holders(c) /\ Pending(c)' \subseteq Pending(c)
      BY <1>1, LaunchAssumption
      DEF PInv, TypeOK, BeginLaunchYear, LaunchSource, Become, Holders, Pending
    <2>3. QED BY <2>1, <2>2, FewerIsWithinReach DEF PInv
  <1>2. ASSUME NEW r \in Requests, CheckUnused(r)
        PROVE  PInv'
    <2>1. /\ request[r] \in [pc : {"found", "unused"}, org : Orgs, code : Kinds]
          /\ UNCHANGED <<orgs, active, rows, closed>>
      BY <1>2 DEF PInv, TypeOK, CheckUnused, RequestStates
    <2>2. PICK state \in {[pc |-> "idle"], [request[r] EXCEPT !.pc = "unused"]} :
              request' = [request EXCEPT ![r] = state]
      BY <1>2 DEF CheckUnused, Become, Done
    <2>3. /\ state \in RequestStates
          /\ state.pc # "idle" => state.code = request[r].code
      BY <2>1, <2>2 DEF RequestStates
    <2>4. TypeOK' /\ RowsAreSingle'
      BY <2>1, <2>2, <2>3 DEF PInv, TypeOK, RowsAreSingle
    <2>5. \A c \in Codes : Holders(c)' \subseteq Holders(c) /\ Pending(c)' \subseteq Pending(c)
      BY <2>1, <2>2, <2>3 DEF PInv, TypeOK, Holders, Pending
    <2>6. QED BY <2>4, <2>5, FewerIsWithinReach DEF PInv
  <1>3. ASSUME NEW o \in Orgs, ClosePeriod(o)
        PROVE  PInv'
    <2>1. TypeOK' /\ RowsAreSingle'
      BY <1>3 DEF PInv, ClosePeriod, TypeOK, RowsAreSingle
    <2>2. \A c \in Codes : Holders(c)' \subseteq Holders(c) /\ Pending(c)' \subseteq Pending(c)
      BY <1>3 DEF ClosePeriod, Holders, Pending
    <2>3. QED BY <2>1, <2>2, FewerIsWithinReach DEF PInv
  <1>4. ASSUME NEW o \in Orgs, DeleteOrg(o)
        PROVE  PInv'
    <2>1. rows'[o] = <<>> /\ \A p \in Orgs \ {o} : rows'[p] = rows[p]
      BY <1>4 DEF PInv, TypeOK, DeleteOrg
    <2>2. TypeOK' /\ RowsAreSingle'
      <3>1. <<>> \in Seq(Kinds)
        OBVIOUS
      <3>2. QED BY <1>4, <2>1, <3>1 DEF PInv, DeleteOrg, TypeOK, RowsAreSingle
    <2>3. DOMAIN <<>> = {}
      OBVIOUS
    <2>4. \A c \in Codes : Holders(c)' \subseteq Holders(c) /\ Pending(c)' \subseteq Pending(c)
      BY <1>4, <2>1, <2>3 DEF DeleteOrg, Holders, Pending
    <2>5. QED BY <2>2, <2>4, FewerIsWithinReach DEF PInv
  <1>5. ASSUME NEW c \in Codes, ToggleCode(c)
        PROVE  PInv'
    <2>1. TypeOK' /\ RowsAreSingle'
      BY <1>5 DEF PInv, ToggleCode, TypeOK, RowsAreSingle
    <2>2. \A d \in Codes : Holders(d)' \subseteq Holders(d) /\ Pending(d)' \subseteq Pending(d)
      BY <1>5 DEF ToggleCode, Holders, Pending
    <2>3. QED BY <2>1, <2>2, FewerIsWithinReach DEF PInv
  <1>6. CASE UNCHANGED vars
    <2>1. TypeOK' /\ RowsAreSingle'
      BY <1>6 DEF vars, PInv, TypeOK, RowsAreSingle
    <2>2. \A c \in Codes : Holders(c)' \subseteq Holders(c) /\ Pending(c)' \subseteq Pending(c)
      BY <1>6 DEF vars, Holders, Pending
    <2>3. QED BY <2>1, <2>2, FewerIsWithinReach DEF PInv
  <1>7. QED
    BY <1>1, <1>2, <1>3, <1>4, <1>5, <1>6, FindCodeStep, CreatePeriodStep DEF Next

LEMMA SpecPInv == Spec => []PInv
  <1>1. PInv /\ UNCHANGED vars => PInv'
    BY PInvStep
  <1>2. QED BY InitPInv, PInvStep, PTL DEF Spec

\* Every variable keeps its type: a request holds a code and an organisation
\* that exist in the model, whichever step it was interrupted at.
THEOREM CodesTypeCorrect == Spec => []TypeOK
  BY SpecPInv, PTL DEF PInv

\* The check that the free period is unused and the insert are two steps, but
\* the insert answers to the constraint on the rows: two tabs, two codes or a
\* code against the launch year never leave an organisation two free periods.
THEOREM OneFreePeriod == Spec => []OneFreePeriodPerOrg
  <1>1. \A k : Len(<<>>) <= 1 /\ Len(<<k>>) <= 1
    OBVIOUS
  <1>2. PInv => OneFreePeriodPerOrg
    BY <1>1 DEF PInv, RowsAreSingle, OneFreePeriodPerOrg
  <1>3. QED BY <1>2, SpecPInv, PTL

\* redeem_free_period counts the redemptions before it inserts, so requests in
\* flight together may exceed a code's max_redemptions: by at most one for each
\* other request, and never at all for a code with none to give.
THEOREM OvershootBound == Spec => []OvershootIsBounded
  <1>1. PInv => OvershootIsBounded
    BY FS_EmptySet DEF PInv, NothingPendingAtZero, WithinReach, OvershootIsBounded,
                       Redemptions
  <1>2. QED BY <1>1, SpecPInv, PTL

\* Whatever the codes and the launch year do at once, an organisation gets one
\* free period, which stays over once it is over: PromoCodes implements FreePeriod.
THEOREM CodesKeepThePromise == Spec => FreePeriodPromise
  <1>1. ASSUME Init
        PROVE  FP!Init
    BY <1>1 DEF Init, FP!Init, PeriodOf
  <1>2. ASSUME PInv, [Next]_vars
        PROVE  [FP!Next]_PeriodOf
    <2> USE <1>2 DEF PInv
    <2>1. CASE UNCHANGED <<orgs, rows, closed>>
      BY <2>1 DEF PeriodOf
    <2>2. ASSUME NEW r \in Requests, CreatePeriod(r), rows' # rows
          PROVE  FP!Next
      <3> DEFINE o == request[r].org
      <3>1. o \in Orgs /\ UNCHANGED <<orgs, closed>>
        BY <2>2 DEF TypeOK, CreatePeriod, RequestStates
      <3>2. /\ MayInsert(o)
            /\ rows' = [rows EXCEPT ![o] = Append(@, request[r].code)]
        BY <2>2 DEF CreatePeriod
      <3> HIDE DEF o
      <3>3. rows'[o] # <<>> /\ \A p \in Orgs \ {o} : rows'[p] = rows[p]
        BY <3>1, <3>2 DEF TypeOK, MayInsert
      <3>4. o \in orgs /\ rows[o] = <<>> /\ o \notin closed
        BY <3>2 DEF MayInsert, RowsAreSingle
      <3>5. PeriodOf[o] = "none" /\ PeriodOf' = [PeriodOf EXCEPT ![o] = "open"]
        BY <3>1, <3>3, <3>4 DEF PeriodOf
      <3>6. QED BY <3>1, <3>5 DEF FP!Next, FP!Grant
    <2>3. ASSUME NEW o \in Orgs, ClosePeriod(o)
          PROVE  [FP!Next]_PeriodOf
      <3>1. o \in orgs /\ rows[o] # <<>> /\ closed' = closed \cup {o}
               /\ UNCHANGED <<orgs, rows>>
        BY <2>3 DEF ClosePeriod, RowsAreSingle
      <3>2. CASE o \in closed
        BY <2>1, <3>1, <3>2
      <3>3. CASE o \notin closed
        <4>1. /\ PeriodOf[o] = "open"
              /\ PeriodOf' = [p \in Orgs |-> IF p \in {o} THEN "closed" ELSE PeriodOf[p]]
          BY <3>1, <3>3 DEF PeriodOf
        <4>2. FP!Close({o})
          BY <4>1 DEF FP!Close
        <4>3. QED BY <4>2 DEF FP!Next
      <3>4. QED BY <3>2, <3>3
    <2>4. ASSUME NEW o \in Orgs, DeleteOrg(o)
          PROVE  FP!Next
      <3>1. PeriodOf[o] # "gone" /\ PeriodOf' = [PeriodOf EXCEPT ![o] = "gone"]
        BY <2>4 DEF DeleteOrg, PeriodOf, TypeOK
      <3>2. FP!Leave(o)
        BY <3>1 DEF FP!Leave
      <3>3. QED BY <3>2 DEF FP!Next
    <2>5. \/ UNCHANGED <<orgs, rows, closed>>
          \/ \E r \in Requests : CreatePeriod(r) /\ rows' # rows
          \/ \E o \in Orgs : ClosePeriod(o) \/ DeleteOrg(o)
      BY DEF Next, vars, FindCode, BeginLaunchYear, CheckUnused, CreatePeriod,
             ToggleCode
    <2>6. QED BY <2>1, <2>2, <2>3, <2>4, <2>5
  <1>3. QED
    BY <1>1, <1>2, SpecPInv, PTL DEF Spec, FreePeriodPromise, FP!Spec

=============================================================================
