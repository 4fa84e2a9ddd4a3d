------------------------------- MODULE Party --------------------------------
(***************************************************************************)
(* The parties of the backend (router/party/party.go): the map parties and *)
(* the list pings, in memory, under one RWMutex.  Every handler is one     *)
(* critical section, so it is one action.  Some of them still read the     *)
(* Meta maps of the party after the unlock, to encode a response or in the *)
(* goroutine that notifies the members: a handler that writes the map      *)
(* meanwhile is a concurrent map read and map write, which the Go runtime  *)
(* may answer by ending the process.                                       *)
(*                                                                         *)
(* What the Meta maps, revisions and configurations say is left out, and   *)
(* so are Intentions, which are only ever appended.                        *)
(*                                                                         *)
(* A request names the account it acts for, and the connection id in its   *)
(* body is that account's: the game client builds it from its account id.  *)
(***************************************************************************)
EXTENDS Naturals, FiniteSets

CONSTANTS
  Users,     \* the accounts
  PartyIds,  \* the ids newID() may return
  None,      \* no party
  Yields,    \* the values of yield_leadership that clients send
  Contacts   \* bound: the pairs <<by, to>> that ping or invite

ASSUME NoneAssumption == None \notin PartyIds
ASSUME YieldsAssumption == Yields \subseteq BOOLEAN
ASSUME ContactsAssumption == Contacts \subseteq Users \X Users

VARIABLES
  parties,   \* the keys of the map parties
  members,   \* the accounts of Members
  elder,     \* the order of Members: <<u, v>> when u stands before v
  captains,  \* the members whose Role is CAPTAIN
  invites,   \* how many invites of each pair a party holds
  pings,     \* how many pings of each pair there are
  created,   \* the ids newID() has returned
  encoding   \* the parties whose maps are read after the unlock

vars == <<parties, members, elder, captains, invites, pings, created, encoding>>

NoneSent == [c \in Contacts |-> 0]

TypeOK ==
  /\ created \in SUBSET PartyIds
  /\ parties \in SUBSET created
  /\ encoding \in SUBSET created
  /\ members \in [PartyIds -> SUBSET Users]
  /\ elder \in [PartyIds -> SUBSET (Users \X Users)]
  /\ captains \in [PartyIds -> SUBSET Users]
  /\ invites \in [PartyIds -> [Contacts -> Nat]]
  /\ pings \in [Contacts -> Nat]
  /\ \A p \in PartyIds : elder[p] \subseteq members[p] \X members[p]
  /\ \A p \in PartyIds \ parties :
       members[p] = {} /\ captains[p] = {} /\ invites[p] = NoneSent

Init ==
  /\ parties = {}
  /\ members = [p \in PartyIds |-> {}]
  /\ elder = [p \in PartyIds |-> {}]
  /\ captains = [p \in PartyIds |-> {}]
  /\ invites = [p \in PartyIds |-> NoneSent]
  /\ pings = NoneSent
  /\ created = {}
  /\ encoding = {}

-----------------------------------------------------------------------------
(* Members and parties.                                                    *)

PartiesOf(u) == {p \in parties : u \in members[p]}

\* Mutant of PartyForUser: the party the user is in already is not looked up.
PartyForUserNone(u) == {None}

\* What partyForUser may return: the map is searched in any order.
PartyForUser(u) == IF PartiesOf(u) = {} THEN {None} ELSE PartiesOf(u)

\* Mutant of Emptied: an empty party stays in the map.
EmptiedKept(u, old) == {}

\* removeFromParty(old, u) leaves nobody: delete(parties, old.ID).
Emptied(u, old) == {p \in {old} \ {None} : members[p] \subseteq {u}}

\* A party that is deleted is forgotten, with the invites it holds.
Forget(gone) ==
  invites' = [p \in PartyIds |-> IF p \in gone THEN NoneSent ELSE invites[p]]

\* u is taken out of old and appended to the members of p.
Enter(u, old, p, captain) ==
  /\ parties' = (parties \ Emptied(u, old)) \union {p}
  /\ members' = [q \in PartyIds |->
       IF q = p THEN members[q] \union {u}
       ELSE IF q = old THEN members[q] \ {u} ELSE members[q]]
  /\ elder' = [q \in PartyIds |->
       IF q = p THEN elder[q] \union (members[q] \X {u})
       ELSE IF q = old THEN {e \in elder[q] : u \notin {e[1], e[2]}} ELSE elder[q]]
  /\ captains' = [q \in PartyIds |->
       IF q = p THEN captains[q] \union (IF captain THEN {u} ELSE {})
       ELSE IF q = old THEN captains[q] \ {u} ELSE captains[q]]
  /\ Forget(Emptied(u, old))

POSTCreateParty(u, p) ==
  /\ p \notin created
  /\ created' = created \union {p}
  /\ \E old \in PartyForUser(u) : Enter(u, old, p, TRUE)
  /\ encoding' = encoding \union {p}
  /\ UNCHANGED pings

\* A member who joins again gets the same answer and nothing changes.
POSTJoinParty(u, p) ==
  /\ p \in parties
  /\ u \notin members[p]
  /\ \E old \in PartyForUser(u), yield \in Yields : Enter(u, old, p, yield)
  /\ encoding' = encoding \union {p}
  /\ UNCHANGED <<pings, created>>

\* u joins the party the pinger v is in now; the ping is used up.
POSTJoinViaPing(u, v) ==
  /\ \E p \in PartiesOf(v) :
       /\ u \notin members[p]
       /\ \E old \in PartyForUser(u), yield \in Yields : Enter(u, old, p, yield)
       /\ encoding' = encoding \union {p}
  /\ pings' = [c \in Contacts |-> IF c = <<v, u>> THEN 0 ELSE pings[c]]
  /\ UNCHANGED created

\* The first of those who are left.
IsFirst(v, p, left) ==
  /\ v \in left
  /\ \A w \in left \ {v} : <<v, w>> \in elder[p]

\* Mutant of Elected: nobody takes the place of a captain who left.
ElectedNobody(p, left, c) == c = captains[p] \intersect left

\* The captains c of those who are left: the first, when there is none.
Elected(p, left, c) ==
  IF captains[p] \intersect left # {}
  THEN c = captains[p] \intersect left
  ELSE \E v \in left : IsFirst(v, p, left) /\ c = {v}

DELETEPartyMember(u, p) ==
  /\ p \in parties
  /\ LET left == members[p] \ {u}
     IN  /\ members' = [members EXCEPT ![p] = left]
         /\ elder' = [elder EXCEPT ![p] = {e \in @ : u \notin {e[1], e[2]}}]
         /\ IF left = {}
            THEN /\ parties' = parties \ {p}
                 /\ captains' = [captains EXCEPT ![p] = {}]
                 /\ Forget({p})
            ELSE /\ \E c \in SUBSET left :
                      /\ Elected(p, left, c)
                      /\ captains' = [captains EXCEPT ![p] = c]
                 /\ UNCHANGED <<parties, invites>>
  /\ UNCHANGED <<pings, created, encoding>>

\* The search for the captain does not stop at the first one.
IsLastCaptain(c, p) ==
  /\ c \in captains[p]
  /\ \A d \in captains[p] \ {c} : <<d, c>> \in elder[p]

\* The captain who hands the role over, if there is one.
Demoted(p) == {c \in captains[p] : IsLastCaptain(c, p)}

\* by asks; u becomes the captain, provided that u is a member.
POSTPromoteMember(by, u, p) ==
  /\ p \in parties
  /\ \A c \in captains[p] : IsLastCaptain(c, p) => c = by
  /\ captains' = [captains EXCEPT
       ![p] = (@ \ Demoted(p)) \union (members[p] \intersect {u})]
  /\ UNCHANGED <<parties, members, elder, invites, pings, created, encoding>>

-----------------------------------------------------------------------------
(* Pings and invites.                                                      *)

\* Mutant of Resent: the earlier one stays in the list.
ResentTwice(list, c) == [list EXCEPT ![c] = @ + 1]

\* The earlier ones of the same pair are filtered out, and one is appended.
Resent(list, c) == [list EXCEPT ![c] = 1]

POSTSendPing(c) ==
  /\ pings' = Resent(pings, c)
  /\ UNCHANGED <<parties, members, elder, captains, invites, created, encoding>>

DELETEPing(c) ==
  /\ pings' = [pings EXCEPT ![c] = 0]
  /\ UNCHANGED <<parties, members, elder, captains, invites, created, encoding>>

POSTPartyInviteToAccount(c, p) ==
  /\ p \in parties
  /\ invites' = [invites EXCEPT ![p] = Resent(@, c)]
  /\ pings' = Resent(pings, c) \/ UNCHANGED pings
  /\ encoding' = IF c[1] \in members[p] THEN encoding \union {p} ELSE encoding
  /\ UNCHANGED <<parties, members, elder, captains, created>>

-----------------------------------------------------------------------------
(* Maps that are read after the unlock.                                    *)

\* GETUserParty and GETUserPingerParties do the same for the user's party.
GETParty(p) ==
  /\ p \in parties \ encoding
  /\ encoding' = encoding \union {p}
  /\ UNCHANGED <<parties, members, elder, captains, invites, pings, created>>

\* The responses and notifications about the party have been encoded.
Encoded(p) ==
  /\ p \in encoding
  /\ encoding' = encoding \ {p}
  /\ UNCHANGED <<parties, members, elder, captains, invites, pings, created>>

\* The process ends; the next one starts with nothing.
Fatal ==
  /\ parties' = {} /\ encoding' = {} /\ pings' = NoneSent
  /\ members' = [p \in PartyIds |-> {}]
  /\ elder' = [p \in PartyIds |-> {}]
  /\ captains' = [p \in PartyIds |-> {}]
  /\ invites' = [p \in PartyIds |-> NoneSent]
  /\ UNCHANGED created

\* by is refused as a member who is no captain.  What is written is left out,
\* so the step is visible only when the map is being read.
PATCHParty(by, p) ==
  /\ p \in parties \intersect encoding
  /\ by \in members[p] => by \in captains[p]
  /\ Fatal

PATCHMemberMeta(u, p) ==
  /\ p \in parties \intersect encoding
  /\ u \in members[p]
  /\ Fatal

\* Who joins a party, or leaves others behind in it, has the assignments in its
\* Meta rewritten, which may be what is being read.
RewriteAssignments(u, p) ==
  /\ p \in parties \intersect encoding
  /\ u \notin members[p] \/ members[p] \ {u} # {}
  /\ Fatal

UserStep(u) ==
  \/ \E p \in PartyIds : \/ POSTCreateParty(u, p)
                         \/ POSTJoinParty(u, p)
                         \/ DELETEPartyMember(u, p)
                         \/ PATCHParty(u, p)
                         \/ PATCHMemberMeta(u, p)
                         \/ RewriteAssignments(u, p)
                         \/ \E by \in Users : POSTPromoteMember(by, u, p)
  \/ \E v \in Users : POSTJoinViaPing(u, v)

ContactStep(c) ==
  \/ POSTSendPing(c)
  \/ DELETEPing(c)
  \/ \E p \in PartyIds : POSTPartyInviteToAccount(c, p)

Next ==
  \/ \E u \in Users : UserStep(u)
  \/ \E c \in Contacts : ContactStep(c)
  \/ \E p \in PartyIds : GETParty(p) \/ Encoded(p)

Spec == Init /\ [][Next]_vars

-----------------------------------------------------------------------------
(* Properties.                                                             *)

(* A user is in one party at most, whichever mix of creating, joining,     *)
(* joining by a ping and leaving brought them there.                       *)
OneParty ==
  \A p, q \in parties : members[p] \intersect members[q] # {} => p = q

(* A party in the map has a member: the last one out deletes it, also when *)
(* that is somebody who joins or creates another party.                    *)
NoEmptyParty == \A p \in parties : members[p] # {}

(* Captains are members, and as long as no client yields leadership on     *)
(* joining there are never two of them.                                    *)
OneCaptain ==
  \A p \in parties :
    /\ captains[p] \subseteq members[p]
    /\ TRUE \notin Yields => \A c, d \in captains[p] : c = d

(* A party that has a captain is left without one only by the captain's    *)
(* own doing: by going to another party, or by promoting somebody who is   *)
(* not a member.  Whoever leaves or is removed is replaced.                *)
CaptainKept ==
  [][\A p \in parties \intersect parties' :
       captains[p] # {} /\ captains'[p] = {} =>
         \A c \in captains[p] :
           c \in members'[p] \/ \E q \in parties' \ {p} : c \in members'[q]]_vars

(* Handlers that send, invite and join in any order leave at most one ping *)
(* of a pair, and at most one invite of a pair in a party: the counts of   *)
(* GETNotificationsCount are counts of people.                             *)
NotifiedOnce ==
  \A c \in Contacts :
    /\ pings[c] <= 1
    /\ \A p \in parties : invites[p][c] <= 1

(* The members of every party, kept up to date one handler at a time, are  *)
(* one function from users to parties.                                     *)
PartyOf(u) == IF PartiesOf(u) = {} THEN None ELSE CHOOSE p \in PartiesOf(u) : TRUE

Promise == INSTANCE Membership WITH
  partyOf <- [u \in Users |-> PartyOf(u)],
  used    <- created

MembershipImplemented == Promise!MSpec
=============================================================================
