----------------------------- MODULE Invitation -----------------------------
(***************************************************************************)
(* What an organisation's invites promise the people they are sent to, and *)
(* nothing of how.  An address has one invite to answer at most; an invite *)
(* is answered once, by its person, or is given up with others past their  *)
(* date, and then the address is forgotten; only accepting makes somebody  *)
(* a verified member, once; and only an address that was invited is ever   *)
(* blocked (affiliations/team_invites.py, models.py).                      *)
(*                                                                         *)
(* TeamInvites implements it, under the refinement mapping Promised: its   *)
(* locks, links, reports and overlapping runs of the job are not here.     *)
(***************************************************************************)
EXTENDS Naturals, Sequences

CONSTANT Emails
VARIABLES invites,   \* what each invite says: to whom, where, and its answer
          verified,  \* the verified affiliations each address has from an invite
          optOuts    \* the addresses that asked not to be invited again

Init == invites = <<>> /\ verified = [e \in Emails |-> 0] /\ optOuts = {}

Open(i) == i \in DOMAIN invites /\ invites[i].answer = "open"

\* The answer comes, and the address goes with it.
Close(S, answer) ==
    /\ \A i \in S : Open(i)
    /\ invites' = [i \in DOMAIN invites |->
           IF i \in S THEN [to |-> invites[i].to, email |-> "", answer |-> answer]
                      ELSE invites[i]]

Offer(e) ==
    /\ \A i \in DOMAIN invites : Open(i) => invites[i].to # e
    /\ invites' = Append(invites, [to |-> e, email |-> e, answer |-> "open"])
    /\ UNCHANGED <<verified, optOuts>>

Accept(i) ==
    /\ Close({i}, "accepted")
    /\ verified' = [verified EXCEPT ![invites[i].to] = @ + 1]
    /\ UNCHANGED optOuts

\* Whoever declines may ask for no other invite.
Decline(i) ==
    /\ Close({i}, "declined")
    /\ optOuts' \in {optOuts, optOuts \cup {invites[i].to}}
    /\ UNCHANGED verified

\* The daily job closes in one commit every invite it found past its date.
Expire(S) == Close(S, "expired") /\ UNCHANGED <<verified, optOuts>>

\* An old link still takes a block.
Block(i) ==
    /\ i \in DOMAIN invites
    /\ optOuts' = optOuts \cup {invites[i].to}
    /\ UNCHANGED <<invites, verified>>

Next ==
    \/ \E e \in Emails : Offer(e)
    \/ \E i \in DOMAIN invites : Accept(i) \/ Decline(i) \/ Block(i)
    \/ \E S \in SUBSET DOMAIN invites : Expire(S)

Spec == Init /\ [][Next]_<<invites, verified, optOuts>>
=============================================================================
