----------------------------- MODULE Membership -----------------------------
(***************************************************************************)
(* What the party service promises, without members lists, captains and    *)
(* invitations: a user is in one party at a time and changes party in one  *)
(* step, a party exists while somebody is in it, and one that ended does   *)
(* not come back.                                                          *)
(***************************************************************************)
CONSTANTS Users, PartyIds, None

VARIABLES
  partyOf,  \* the party of each user, or None
  used      \* the ids of the parties that were ever founded

mvars == <<partyOf, used>>

MInit == partyOf = [u \in Users |-> None] /\ used = {}

Found(u, p) ==
  /\ p \notin used
  /\ used' = used \union {p}
  /\ partyOf' = [partyOf EXCEPT ![u] = p]

Enter(u, p) ==
  /\ \E v \in Users \ {u} : partyOf[v] = p
  /\ partyOf' = [partyOf EXCEPT ![u] = p]
  /\ UNCHANGED used

Leave(u) ==
  /\ partyOf' = [partyOf EXCEPT ![u] = None]
  /\ UNCHANGED used

\* Parties live in memory: a restart ends them all at once.
EndAll ==
  /\ partyOf' = [u \in Users |-> None]
  /\ UNCHANGED used

MNext ==
  \/ EndAll
  \/ \E u \in Users : Leave(u) \/ \E p \in PartyIds : Found(u, p) \/ Enter(u, p)

MSpec == MInit /\ [][MNext]_mvars
=============================================================================
