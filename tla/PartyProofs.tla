---------------------------- MODULE PartyProofs -----------------------------
(***************************************************************************)
(* Theorems about the parties of the backend, for any users, ids, contacts *)
(* and habits of yielding leadership.  The only assumption is that None is *)
(* not an id.                                                              *)
(***************************************************************************)
EXTENDS Party, TLAPS

(* What the handlers rely on together: joining takes the user out of the   *)
(* one party partyForUser finds, which is all of them by OneParty; a party *)
(* that is emptied is deleted, so that its record can be forgotten.        *)
IInv == TypeOK /\ OneParty /\ NoEmptyParty /\ OneCaptain

-----------------------------------------------------------------------------
(* What partyForUser and Enter do.                                         *)

(* The party that partyForUser returns is the only one the user is in.     *)
LEMMA FoundParty ==
  ASSUME TypeOK, OneParty, NEW u \in Users, NEW old \in PartyForUser(u)
  PROVE  /\ old \in PartyIds \union {None}
         /\ old # None => old \in parties /\ u \in members[old]
         /\ \A q \in parties : u \in members[q] => q = old
PROOF
<1>1. CASE PartiesOf(u) = {}
  <2>1. old = None
    BY <1>1 DEF PartyForUser
  <2>2. \A q \in parties : u \notin members[q]
    BY <1>1 DEF PartiesOf
  <2>. QED  BY <2>1, <2>2
<1>2. CASE PartiesOf(u) # {}
  <2>1. old \in parties /\ u \in members[old]
    BY <1>2 DEF PartyForUser, PartiesOf
  <2>2. old \in PartyIds
    BY <2>1 DEF TypeOK
  <2>3. old # None
    BY <2>2, NoneAssumption
  <2>4. \A q \in parties : u \in members[q] => q = old
    BY <2>1 DEF OneParty
  <2>. QED  BY <2>1, <2>2, <2>3, <2>4
<1>. QED  BY <1>1, <1>2

(* Moving a user between two parties keeps the records in shape, provided  *)
(* the party entered is in the map or about to be.                         *)
LEMMA EnterKeeps ==
  ASSUME IInv, NEW u \in Users, NEW p \in PartyIds, NEW old \in PartyForUser(u),
         NEW captain \in BOOLEAN, u \notin members[p],
         p \in parties \/ p \notin created,
         p \in parties /\ captain => TRUE \in Yields,
         created' = created \/ created' = created \union {p},
         p \in created',
         pings' \in [Contacts -> Nat], encoding' \in SUBSET created',
         Enter(u, old, p, captain)
  PROVE  IInv'
PROOF
<1>. USE DEF IInv
<1>1. /\ old \in PartyIds \union {None}
      /\ old # None => old \in parties /\ u \in members[old]
      /\ \A q \in parties : u \in members[q] => q = old
  BY FoundParty
<1>2. old # p
  BY <1>1, NoneAssumption
<1>3. \A q \in PartyIds :
        /\ members'[q] = IF q = p THEN members[q] \union {u}
                         ELSE IF q = old THEN members[q] \ {u} ELSE members[q]
        /\ elder'[q] = IF q = p THEN elder[q] \union (members[q] \X {u})
                       ELSE IF q = old THEN {e \in elder[q] : u \notin {e[1], e[2]}}
                       ELSE elder[q]
        /\ captains'[q] = IF q = p THEN captains[q] \union (IF captain THEN {u} ELSE {})
                          ELSE IF q = old THEN captains[q] \ {u} ELSE captains[q]
        /\ invites'[q] = IF q \in Emptied(u, old) THEN NoneSent ELSE invites[q]
  BY DEF Enter, Forget
<1>4. parties' = (parties \ Emptied(u, old)) \union {p}
  BY DEF Enter
<1>5. Emptied(u, old) = {} \/ Emptied(u, old) = {old}
  BY DEF Emptied
<1>6. \A q \in PartyIds : q \in Emptied(u, old) <=> q = old /\ members[q] \subseteq {u}
  BY NoneAssumption DEF Emptied
<1>7. \A q \in PartyIds : q \notin parties =>
        members[q] = {} /\ captains[q] = {} /\ invites[q] = NoneSent
  BY DEF TypeOK
<1>8. NoneSent \in [Contacts -> Nat]
  BY DEF NoneSent
<1>9. \A q \in PartyIds : members[q] \subseteq Users /\ captains[q] \subseteq Users
                          /\ elder[q] \subseteq Users \X Users
                          /\ elder[q] \subseteq members[q] \X members[q]
                          /\ invites[q] \in [Contacts -> Nat]
  BY DEF TypeOK
<1>m. \A q \in PartyIds :
        members'[q] = IF q = p THEN members[q] \union {u}
                      ELSE IF q = old THEN members[q] \ {u} ELSE members[q]
  BY <1>3
<1>10. TypeOK'
  <2>1. created' \in SUBSET PartyIds /\ parties' \in SUBSET created'
    BY <1>4 DEF TypeOK
  <2>2. members' \in [PartyIds -> SUBSET Users]
    <3>1. \A q \in PartyIds : members[q] \subseteq Users
      BY <1>9
    <3>2. \A q \in PartyIds : members'[q] \subseteq members[q] \union {u}
      BY <1>m
    <3>3. \A q \in PartyIds : members'[q] \subseteq Users
      BY <3>1, <3>2
    <3>. QED  BY <3>3 DEF Enter
  <2>3. captains' \in [PartyIds -> SUBSET Users]
    <3>1. \A q \in PartyIds : captains'[q] \subseteq Users
      BY <1>3, <1>9
    <3>. QED  BY <3>1 DEF Enter
  <2>4. \A q \in PartyIds : elder'[q] \subseteq members'[q] \X members'[q]
    <3>. SUFFICES ASSUME NEW q \in PartyIds
                  PROVE  elder'[q] \subseteq members'[q] \X members'[q]
      OBVIOUS
    <3>1. CASE q = p
      <4>1. elder'[q] = elder[q] \union (members[q] \X {u}) /\ members'[q] = members[q] \union {u}
        BY <1>3, <3>1
      <4>. QED  BY <4>1, <1>9
    <3>2. CASE q = old
      <4>1. /\ elder'[q] = {e \in elder[q] : u \notin {e[1], e[2]}}
            /\ members'[q] = members[q] \ {u}
        BY <1>2, <1>3, <3>2
      <4>. QED  BY <4>1, <1>9
    <3>3. CASE q # p /\ q # old
      <4>1. elder'[q] = elder[q] /\ members'[q] = members[q]
        BY <1>3, <3>3
      <4>. QED  BY <4>1, <1>9
    <3>. QED  BY <3>1, <3>2, <3>3
  <2>5. elder' \in [PartyIds -> SUBSET (Users \X Users)]
    <3>1. \A q \in PartyIds : elder'[q] \subseteq Users \X Users
      BY <2>2, <2>4
    <3>. QED  BY <3>1 DEF Enter
  <2>6. invites' \in [PartyIds -> [Contacts -> Nat]]
    <3>1. \A q \in PartyIds : invites'[q] \in [Contacts -> Nat]
      BY <1>3, <1>8, <1>9
    <3>. QED  BY <3>1 DEF Enter, Forget
  <2>7. \A q \in PartyIds \ parties' :
          members'[q] = {} /\ captains'[q] = {} /\ invites'[q] = NoneSent
    <3>. SUFFICES ASSUME NEW q \in PartyIds, q \notin parties'
                  PROVE  members'[q] = {} /\ captains'[q] = {} /\ invites'[q] = NoneSent
      OBVIOUS
    <3>1. q # p
      BY <1>4
    <3>2. CASE q \in Emptied(u, old)
      <4>1. q = old /\ members[q] \subseteq {u} /\ q \in parties
        BY <3>2, <1>1, <1>6, NoneAssumption
      <4>2. captains[q] \subseteq members[q]
        BY <4>1 DEF OneCaptain
      <4>3. members'[q] = members[q] \ {u} /\ captains'[q] = captains[q] \ {u}
        BY <3>1, <4>1, <1>3
      <4>4. invites'[q] = NoneSent
        BY <1>3, <3>2
      <4>. QED  BY <4>1, <4>2, <4>3, <4>4
    <3>3. CASE q \notin Emptied(u, old)
      <4>1. q \notin parties
        BY <1>4, <3>3
      <4>2. q # old
        BY <4>1, <1>1, NoneAssumption
      <4>. QED  BY <4>1, <4>2, <3>1, <3>3, <1>3, <1>7
    <3>. QED  BY <3>2, <3>3
  <2>. QED  BY <2>1, <2>2, <2>3, <2>4, <2>5, <2>6, <2>7 DEF TypeOK, NoneSent
<1>11. OneParty'
  <2>. SUFFICES ASSUME NEW q \in parties', NEW r \in parties', NEW v,
                       v \in members'[q], v \in members'[r]
                PROVE  q = r
    BY DEF OneParty
  <2>1. q \in PartyIds /\ r \in PartyIds
    BY <1>10 DEF TypeOK
  <2>2. \A s \in PartyIds : s \notin parties => members[s] = {}
    BY <1>7
  <2>3. CASE v = u
    <3>1. \A s \in PartyIds : u \in members'[s] => s = p
      BY <1>1, <1>3, <2>2
    <3>. QED  BY <2>1, <2>3, <3>1
  <2>4. CASE v # u
    <3>1. v \in members[q] /\ v \in members[r]
      BY <2>1, <2>4, <1>m
    <3>2. q \in parties /\ r \in parties
      BY <2>1, <2>2, <3>1
    <3>. QED  BY <3>1, <3>2 DEF OneParty
  <2>. QED  BY <2>3, <2>4
<1>12. NoEmptyParty'
  <2>. SUFFICES ASSUME NEW q \in parties'
                PROVE  members'[q] # {}
    BY DEF NoEmptyParty
  <2>1. q \in PartyIds
    BY <1>10 DEF TypeOK
  <2>2. CASE q = p
    BY <2>1, <2>2, <1>3
  <2>3. CASE q # p
    <3>1. q \in parties /\ q \notin Emptied(u, old)
      BY <2>3, <1>4
    <3>2. members[q] # {}
      BY <3>1 DEF NoEmptyParty
    <3>3. CASE q = old
      BY <3>1, <3>3, <2>1, <2>3, <1>3, <1>6
    <3>4. CASE q # old
      BY <3>2, <3>4, <2>1, <2>3, <1>3
    <3>. QED  BY <3>3, <3>4
  <2>. QED  BY <2>2, <2>3
<1>13. OneCaptain'
  <2>. SUFFICES ASSUME NEW q \in parties'
                PROVE  /\ captains'[q] \subseteq members'[q]
                       /\ TRUE \notin Yields => \A c, d \in captains'[q] : c = d
    BY DEF OneCaptain
  <2>1. q \in PartyIds
    BY <1>10 DEF TypeOK
  <2>2. CASE q = p /\ p \in parties
    <3>1. /\ captains[q] \subseteq members[q]
          /\ TRUE \notin Yields => \A c, d \in captains[q] : c = d
      BY <2>2 DEF OneCaptain
    <3>2. TRUE \notin Yields => captains'[q] = captains[q]
      BY <2>1, <2>2, <1>3
    <3>. QED  BY <2>1, <2>2, <3>1, <3>2, <1>3
  <2>3. CASE q = p /\ p \notin parties
    <3>1. captains[q] = {}
      BY <2>1, <2>3, <1>7
    <3>. QED  BY <2>1, <2>3, <3>1, <1>3
  <2>4. CASE q # p
    <3>1. q \in parties
      BY <2>4, <1>4
    <3>2. /\ captains[q] \subseteq members[q]
          /\ TRUE \notin Yields => \A c, d \in captains[q] : c = d
      BY <3>1 DEF OneCaptain
    <3>. QED  BY <2>1, <2>4, <3>2, <1>3
  <2>. QED  BY <2>2, <2>3, <2>4
<1>. QED  BY <1>10, <1>11, <1>12, <1>13

-----------------------------------------------------------------------------
(* The handlers, one lemma each.                                           *)

LEMMA CreateKeeps ==
  ASSUME IInv, NEW u \in Users, NEW p \in PartyIds, POSTCreateParty(u, p)
  PROVE  IInv'
PROOF
<1>1. PICK old \in PartyForUser(u) : Enter(u, old, p, TRUE)
  BY DEF POSTCreateParty
<1>2. p \notin created /\ created' = created \union {p}
      /\ pings' = pings /\ encoding' = encoding \union {p}
  BY DEF POSTCreateParty
<1>3. p \notin parties /\ u \notin members[p]
  BY <1>2 DEF IInv, TypeOK
<1>4. pings' \in [Contacts -> Nat] /\ encoding' \in SUBSET created'
  BY <1>2 DEF IInv, TypeOK
<1>. QED  BY <1>1, <1>2, <1>3, <1>4, EnterKeeps

LEMMA JoinKeeps ==
  ASSUME IInv, NEW u \in Users, NEW p \in parties, u \notin members[p],
         NEW old \in PartyForUser(u), NEW yield \in Yields,
         Enter(u, old, p, yield), pings' \in [Contacts -> Nat],
         created' = created, encoding' = encoding \union {p}
  PROVE  IInv'
PROOF
<1>1. p \in PartyIds /\ p \in created' /\ encoding' \in SUBSET created'
  BY DEF IInv, TypeOK
<1>2. yield \in BOOLEAN /\ (yield => TRUE \in Yields)
  BY YieldsAssumption
<1>. QED  BY <1>1, <1>2, EnterKeeps

LEMMA JoinPartyKeeps ==
  ASSUME IInv, NEW u \in Users, NEW p \in PartyIds, POSTJoinParty(u, p)
  PROVE  IInv'
PROOF
<1>1. PICK old \in PartyForUser(u), yield \in Yields : Enter(u, old, p, yield)
  BY DEF POSTJoinParty
<1>2. p \in parties /\ u \notin members[p] /\ created' = created
      /\ encoding' = encoding \union {p}
  BY DEF POSTJoinParty
<1>3. pings' \in [Contacts -> Nat]
  BY DEF POSTJoinParty, IInv, TypeOK
<1>. QED  BY <1>1, <1>2, <1>3, JoinKeeps

LEMMA JoinViaPingKeeps ==
  ASSUME IInv, NEW u \in Users, NEW v \in Users, POSTJoinViaPing(u, v)
  PROVE  IInv'
PROOF
<1>1. PICK p \in PartiesOf(v) :
        /\ u \notin members[p]
        /\ \E old \in PartyForUser(u), yield \in Yields : Enter(u, old, p, yield)
        /\ encoding' = encoding \union {p}
  BY DEF POSTJoinViaPing
<1>2. PICK old \in PartyForUser(u), yield \in Yields : Enter(u, old, p, yield)
  BY <1>1
<1>3. p \in parties
  BY DEF PartiesOf
<1>4. pings' \in [Contacts -> Nat]
  <2>1. \A c \in Contacts : pings[c] \in Nat
    BY DEF IInv, TypeOK
  <2>2. pings' = [c \in Contacts |-> IF c = <<v, u>> THEN 0 ELSE pings[c]]
    BY DEF POSTJoinViaPing
  <2>. QED  BY <2>1, <2>2
<1>5. created' = created /\ encoding' = encoding \union {p}
  BY <1>1 DEF POSTJoinViaPing
<1>. QED  BY <1>1, <1>2, <1>3, <1>4, <1>5, JoinKeeps

LEMMA DeleteMemberKeeps ==
  ASSUME IInv, NEW u \in Users, NEW p \in PartyIds, DELETEPartyMember(u, p)
  PROVE  IInv'
PROOF
<1>. DEFINE left == members[p] \ {u}
<1>. USE DEF IInv
<1>1. /\ p \in parties
      /\ members' = [members EXCEPT ![p] = left]
      /\ elder' = [elder EXCEPT ![p] = {e \in @ : u \notin {e[1], e[2]}}]
      /\ pings' = pings /\ created' = created /\ encoding' = encoding
  BY DEF DELETEPartyMember
<1>2. /\ members' \in [PartyIds -> SUBSET Users]
      /\ members'[p] = left
      /\ \A q \in PartyIds \ {p} : members'[q] = members[q]
  BY <1>1 DEF TypeOK
<1>3. /\ elder' \in [PartyIds -> SUBSET (Users \X Users)]
      /\ \A q \in PartyIds : elder'[q] \subseteq members'[q] \X members'[q]
  <2>1. /\ elder'[p] = {e \in elder[p] : u \notin {e[1], e[2]}}
        /\ \A q \in PartyIds \ {p} : elder'[q] = elder[q]
    BY <1>1 DEF TypeOK
  <2>2. \A q \in PartyIds : elder[q] \subseteq members[q] \X members[q]
                            /\ elder[q] \subseteq Users \X Users
    BY DEF TypeOK
  <2>3. elder'[p] \subseteq left \X left
    BY <2>1, <2>2
  <2>4. \A q \in PartyIds : elder'[q] \subseteq members'[q] \X members'[q]
    BY <2>1, <2>2, <2>3, <1>2
  <2>5. \A q \in PartyIds : elder'[q] \subseteq Users \X Users
    BY <2>1, <2>2
  <2>6. elder' = [q \in PartyIds |-> elder'[q]]
    BY <1>1 DEF TypeOK
  <2>. QED  BY <2>4, <2>5, <2>6
<1>4. /\ captains[p] \subseteq members[p]
      /\ TRUE \notin Yields => \A c, d \in captains[p] : c = d
  BY <1>1 DEF OneCaptain
<1>5. CASE left = {}
  <2>1. /\ parties' = parties \ {p}
        /\ captains' = [captains EXCEPT ![p] = {}]
        /\ invites' = [q \in PartyIds |-> IF q \in {p} THEN NoneSent ELSE invites[q]]
    BY <1>5 DEF DELETEPartyMember, Forget
  <2>2. /\ captains' \in [PartyIds -> SUBSET Users] /\ captains'[p] = {}
        /\ \A q \in PartyIds \ {p} : captains'[q] = captains[q]
    BY <2>1 DEF TypeOK
  <2>3. /\ invites' \in [PartyIds -> [Contacts -> Nat]] /\ invites'[p] = NoneSent
        /\ \A q \in PartyIds \ {p} : invites'[q] = invites[q]
    BY <2>1 DEF TypeOK, NoneSent
  <2>4. TypeOK'
    <3>1. \A q \in PartyIds \ parties' :
            members'[q] = {} /\ captains'[q] = {} /\ invites'[q] = NoneSent
      BY <2>1, <2>2, <2>3, <1>2, <1>5 DEF TypeOK
    <3>. QED  BY <3>1, <1>1, <1>2, <1>3, <2>1, <2>2, <2>3 DEF TypeOK, NoneSent
  <2>5. \A q \in parties' : q \in parties /\ members'[q] = members[q]
                            /\ captains'[q] = captains[q]
    BY <2>1, <2>2, <1>2 DEF TypeOK
  <2>. QED  BY <2>4, <2>5 DEF OneParty, NoEmptyParty, OneCaptain
<1>6. CASE left # {}
  <2>1. PICK c \in SUBSET left :
          Elected(p, left, c) /\ captains' = [captains EXCEPT ![p] = c]
    BY <1>6 DEF DELETEPartyMember
  <2>2. parties' = parties /\ invites' = invites
    BY <1>6 DEF DELETEPartyMember
  <2>3. /\ captains' \in [PartyIds -> SUBSET Users] /\ captains'[p] = c
        /\ \A q \in PartyIds \ {p} : captains'[q] = captains[q]
    BY <2>1 DEF TypeOK
  <2>4. TRUE \notin Yields => \A x, y \in c : x = y
    BY <2>1, <1>4 DEF Elected
  <2>5. TypeOK'
    BY <1>1, <1>2, <1>3, <2>2, <2>3 DEF TypeOK, NoneSent
  <2>6. \A q \in parties : q \in PartyIds /\ members'[q] \subseteq members[q]
    BY <1>2 DEF TypeOK
  <2>7. OneParty'
    BY <2>2, <2>6 DEF OneParty
  <2>8. NoEmptyParty'
    BY <2>2, <2>6, <1>2, <1>6 DEF NoEmptyParty
  <2>9. OneCaptain'
    BY <2>2, <2>3, <2>4, <2>6, <1>2 DEF OneCaptain
  <2>. QED  BY <2>5, <2>7, <2>8, <2>9
<1>. QED  BY <1>5, <1>6

LEMMA PromoteKeeps ==
  ASSUME IInv, NEW by \in Users, NEW u \in Users, NEW p \in PartyIds,
         POSTPromoteMember(by, u, p)
  PROVE  IInv'
PROOF
<1>. USE DEF IInv
<1>. DEFINE c == (captains[p] \ Demoted(p)) \union (members[p] \intersect {u})
<1>1. /\ p \in parties
      /\ captains' = [captains EXCEPT ![p] = c]
      /\ UNCHANGED <<parties, members, elder, invites, pings, created, encoding>>
  BY DEF POSTPromoteMember
<1>2. /\ captains[p] \subseteq members[p]
      /\ TRUE \notin Yields => \A x, y \in captains[p] : x = y
  BY <1>1 DEF OneCaptain
<1>3. c \subseteq members[p] /\ c \subseteq Users
  BY <1>2 DEF TypeOK
<1>4. /\ captains' \in [PartyIds -> SUBSET Users] /\ captains'[p] = c
      /\ \A q \in PartyIds \ {p} : captains'[q] = captains[q]
  BY <1>1, <1>3 DEF TypeOK
<1>5. TRUE \notin Yields => \A x, y \in c : x = y
  <2>. SUFFICES ASSUME TRUE \notin Yields
                PROVE  \A x, y \in c : x = y
    OBVIOUS
  <2>1. \A x \in captains[p] : IsLastCaptain(x, p)
    BY <1>2 DEF IsLastCaptain
  <2>2. captains[p] \ Demoted(p) = {}
    BY <2>1 DEF Demoted
  <2>. QED  BY <2>2
<1>6. TypeOK'
  BY <1>1, <1>4 DEF TypeOK, NoneSent
<1>. HIDE DEF c
<1>7. OneCaptain'
  <2>1. \A q \in parties : /\ captains'[q] \subseteq members[q]
                           /\ TRUE \notin Yields => \A x, y \in captains'[q] : x = y
    BY <1>3, <1>4, <1>5 DEF OneCaptain, TypeOK
  <2>. QED  BY <2>1, <1>1 DEF OneCaptain
<1>8. OneParty' /\ NoEmptyParty'
  BY <1>1 DEF OneParty, NoEmptyParty
<1>. QED  BY <1>6, <1>7, <1>8

LEMMA ContactKeeps ==
  ASSUME IInv, NEW c \in Contacts, ContactStep(c)
  PROVE  IInv'
PROOF
<1>. USE DEF IInv
<1>1. /\ UNCHANGED <<parties, members, elder, captains, created>>
      /\ encoding' \in SUBSET created
      /\ pings' \in [Contacts -> Nat]
      /\ invites' \in [PartyIds -> [Contacts -> Nat]]
      /\ \A q \in PartyIds \ parties : invites'[q] = invites[q]
  <2>1. CASE POSTSendPing(c)
    BY <2>1 DEF POSTSendPing, Resent, TypeOK
  <2>2. CASE DELETEPing(c)
    BY <2>2 DEF DELETEPing, TypeOK
  <2>3. ASSUME NEW p \in PartyIds, POSTPartyInviteToAccount(c, p)
        PROVE  <1>1!1 /\ <1>1!2 /\ <1>1!3 /\ <1>1!4 /\ <1>1!5
    <3>1. /\ p \in parties
          /\ invites' = [invites EXCEPT ![p] = Resent(@, c)]
          /\ pings' = Resent(pings, c) \/ UNCHANGED pings
          /\ encoding' = IF c[1] \in members[p] THEN encoding \union {p} ELSE encoding
          /\ UNCHANGED <<parties, members, elder, captains, created>>
      BY <2>3 DEF POSTPartyInviteToAccount
    <3>2. Resent(invites[p], c) \in [Contacts -> Nat] /\ Resent(pings, c) \in [Contacts -> Nat]
      BY DEF Resent, TypeOK
    <3>. QED  BY <3>1, <3>2 DEF TypeOK
  <2>. QED  BY <2>1, <2>2, <2>3 DEF ContactStep
<1>2. TypeOK'
  BY <1>1 DEF TypeOK, NoneSent
<1>. QED  BY <1>1, <1>2 DEF OneParty, NoEmptyParty, OneCaptain

(* Responses change no party, and a restart leaves none.                   *)
LEMMA ResponseKeeps ==
  ASSUME IInv, NEW p \in PartyIds, GETParty(p) \/ Encoded(p)
  PROVE  IInv'
PROOF
<1>1. /\ UNCHANGED <<parties, members, elder, captains, invites, pings, created>>
      /\ encoding' \in SUBSET created
  BY DEF GETParty, Encoded, IInv, TypeOK
<1>. QED  BY <1>1 DEF IInv, TypeOK, NoneSent, OneParty, NoEmptyParty, OneCaptain

LEMMA FatalKeeps ==
  ASSUME IInv, Fatal
  PROVE  IInv'
PROOF
<1>1. NoneSent \in [Contacts -> Nat]
  BY DEF NoneSent
<1>2. TypeOK'
  BY <1>1 DEF Fatal, IInv, TypeOK, NoneSent
<1>3. parties' = {}
  BY DEF Fatal
<1>. QED  BY <1>2, <1>3 DEF IInv, OneParty, NoEmptyParty, OneCaptain

-----------------------------------------------------------------------------
(* The theorems.                                                           *)

LEMMA Initially == Init => IInv
PROOF
  BY DEF Init, IInv, TypeOK, NoneSent, OneParty, NoEmptyParty, OneCaptain

LEMMA Inductive == IInv /\ [Next]_vars => IInv'
PROOF
<1>. SUFFICES ASSUME IInv, [Next]_vars PROVE IInv'
  OBVIOUS
<1>1. ASSUME NEW u \in Users, UserStep(u) PROVE IInv'
  <2>1. ASSUME NEW p \in PartyIds, PATCHParty(u, p) \/ PATCHMemberMeta(u, p) \/ RewriteAssignments(u, p) PROVE IInv'
    BY <2>1, FatalKeeps DEF PATCHParty, PATCHMemberMeta, RewriteAssignments
  <2>. QED  BY <1>1, <2>1, CreateKeeps, JoinPartyKeeps, DeleteMemberKeeps, PromoteKeeps,
               JoinViaPingKeeps DEF UserStep
<1>2. CASE UNCHANGED vars
  BY <1>2 DEF vars, IInv, TypeOK, NoneSent, OneParty, NoEmptyParty, OneCaptain
<1>3. ASSUME NEW c \in Contacts, ContactStep(c) PROVE IInv'
  BY <1>3, ContactKeeps
<1>4. ASSUME NEW p \in PartyIds, GETParty(p) \/ Encoded(p) PROVE IInv'
  BY <1>4, ResponseKeeps
<1>. QED  BY <1>1, <1>2, <1>3, <1>4 DEF Next

(* Whatever the handlers do, in any order, the inductive invariant holds.  *)
THEOREM Invariance == Spec => []IInv
PROOF
  BY Initially, Inductive, PTL DEF Spec

(* The maps keep their shapes, and a party that is not in the map has left *)
(* nothing behind.                                                         *)
THEOREM TypeCorrect == Spec => []TypeOK
PROOF
<1>1. IInv => TypeOK
  BY DEF IInv
<1>. QED  BY <1>1, Invariance, PTL

(* No user is ever in two parties.                                         *)
THEOREM InOneParty == Spec => []OneParty
PROOF
<1>1. IInv => OneParty
  BY DEF IInv
<1>. QED  BY <1>1, Invariance, PTL

(* No party in the map is ever empty.                                      *)
THEOREM NeverEmpty == Spec => []NoEmptyParty
PROOF
<1>1. IInv => NoEmptyParty
  BY DEF IInv
<1>. QED  BY <1>1, Invariance, PTL

(* Captains are members, and without yielding there is one at most.        *)
THEOREM AtMostOneCaptain == Spec => []OneCaptain
PROOF
<1>1. IInv => OneCaptain
  BY DEF IInv
<1>. QED  BY <1>1, Invariance, PTL

-----------------------------------------------------------------------------
(* The parties implement Membership.                                       *)

(* PartyOf is the inverse of the members lists.                            *)
LEMMA PartyOfIs ==
  ASSUME OneParty, NEW u \in Users
  PROVE  /\ \A p \in parties : u \in members[p] => PartyOf(u) = p
         /\ (\A p \in parties : u \notin members[p]) => PartyOf(u) = None
PROOF
<1>1. ASSUME NEW p \in parties, u \in members[p] PROVE PartyOf(u) = p
  <2>1. p \in PartiesOf(u)
    BY <1>1 DEF PartiesOf
  <2>2. \A q \in PartiesOf(u) : q = p
    BY <1>1 DEF PartiesOf, OneParty
  <2>. QED  BY <2>1, <2>2 DEF PartyOf
<1>2. ASSUME \A p \in parties : u \notin members[p] PROVE PartyOf(u) = None
  BY <1>2 DEF PartyOf, PartiesOf
<1>. QED  BY <1>1, <1>2

LEMMA PartyOfIsNext ==
  ASSUME OneParty', NEW u \in Users
  PROVE  /\ \A p \in parties' : u \in members'[p] => PartyOf(u)' = p
         /\ (\A p \in parties' : u \notin members'[p]) => PartyOf(u)' = None
PROOF
<1>1. ASSUME NEW p \in parties', u \in members'[p] PROVE PartyOf(u)' = p
  <2>1. p \in PartiesOf(u)'
    BY <1>1 DEF PartiesOf
  <2>2. \A q \in PartiesOf(u)' : q = p
    BY <1>1 DEF PartiesOf, OneParty
  <2>. QED  BY <2>1, <2>2 DEF PartyOf
<1>2. ASSUME \A p \in parties' : u \notin members'[p] PROVE PartyOf(u)' = None
  BY <1>2 DEF PartyOf, PartiesOf
<1>. QED  BY <1>1, <1>2

(* Entering p from old changes the party of one user.                      *)
LEMMA EnterMaps ==
  ASSUME IInv, IInv', NEW u \in Users, NEW p \in PartyIds, NEW old \in PartyForUser(u),
         NEW captain \in BOOLEAN, u \notin members[p], Enter(u, old, p, captain)
  PROVE  [v \in Users |-> PartyOf(v)]' = [[v \in Users |-> PartyOf(v)] EXCEPT ![u] = p]
PROOF
<1>1. /\ old \in PartyIds \union {None}
      /\ old # None => old \in parties /\ u \in members[old]
      /\ \A q \in parties : u \in members[q] => q = old
  BY FoundParty DEF IInv
<1>2. /\ \A q \in PartyIds :
           members'[q] = IF q = p THEN members[q] \union {u}
                         ELSE IF q = old THEN members[q] \ {u} ELSE members[q]
      /\ parties' = (parties \ Emptied(u, old)) \union {p}
  BY DEF Enter
<1>3. \A q \in PartyIds : q \in Emptied(u, old) => members[q] \subseteq {u}
  BY NoneAssumption DEF Emptied
<1>4. OneParty /\ OneParty' /\ parties \subseteq PartyIds /\ parties' \subseteq PartyIds
  BY DEF IInv, TypeOK
<1>5. \A q \in PartyIds : q \notin parties => members[q] = {}
  BY DEF IInv, TypeOK
<1>6. PartyOf(u)' = p
  <2>1. p \in parties' /\ u \in members'[p]
    BY <1>2
  <2>. QED  BY <1>4, <2>1, PartyOfIsNext
<1>7. ASSUME NEW v \in Users, v # u PROVE PartyOf(v)' = PartyOf(v)
  <2>1. (\A q \in parties' : v \in members'[q] => PartyOf(v)' = q)
        /\ ((\A q \in parties' : v \notin members'[q]) => PartyOf(v)' = None)
    BY <1>4, PartyOfIsNext
  <2>2. \A q \in PartyIds : v \in members'[q] <=> v \in members[q]
    BY <1>2, <1>7
  <2>3. CASE \E q \in parties : v \in members[q]
    <3>1. PICK q \in parties : v \in members[q]
      BY <2>3
    <3>2. q \in parties' /\ v \in members'[q]
      BY <3>1, <2>2, <1>2, <1>3, <1>4, <1>7
    <3>3. PartyOf(v) = q
      BY <3>1, <1>4, PartyOfIs
    <3>. QED  BY <2>1, <3>2, <3>3
  <2>4. CASE \A q \in parties : v \notin members[q]
    <3>1. \A q \in parties' : v \notin members'[q]
      BY <2>4, <2>2, <1>4, <1>5
    <3>2. PartyOf(v) = None
      BY <2>4, <1>4, PartyOfIs
    <3>. QED  BY <2>1, <3>1, <3>2
  <2>. QED  BY <2>3, <2>4
<1>. QED  BY <1>6, <1>7

LEMMA FoundMaps ==
  ASSUME IInv, IInv', NEW u \in Users, NEW p \in PartyIds, POSTCreateParty(u, p)
  PROVE  Promise!Found(u, p)
PROOF
<1>1. PICK old \in PartyForUser(u) : Enter(u, old, p, TRUE)
  BY DEF POSTCreateParty
<1>2. p \notin created /\ created' = created \union {p}
  BY DEF POSTCreateParty
<1>3. u \notin members[p]
  BY <1>2 DEF IInv, TypeOK
<1>4. [v \in Users |-> PartyOf(v)]' = [[v \in Users |-> PartyOf(v)] EXCEPT ![u] = p]
  BY <1>1, <1>3, EnterMaps
<1>. QED  BY <1>2, <1>4 DEF Promise!Found

(* The party joined has a member, who is not the one who joins.            *)
LEMMA JoinMaps ==
  ASSUME IInv, IInv', NEW u \in Users, NEW p \in parties, u \notin members[p],
         NEW old \in PartyForUser(u), NEW yield \in Yields, Enter(u, old, p, yield),
         created' = created
  PROVE  Promise!Enter(u, p)
PROOF
<1>1. p \in PartyIds /\ yield \in BOOLEAN
  BY YieldsAssumption DEF IInv, TypeOK
<1>2. PICK v \in members[p] : v # u
  BY DEF IInv, NoEmptyParty
<1>3. v \in Users /\ PartyOf(v) = p
  BY <1>1, PartyOfIs DEF IInv, TypeOK
<1>4. [w \in Users |-> PartyOf(w)]' = [[w \in Users |-> PartyOf(w)] EXCEPT ![u] = p]
  BY <1>1, EnterMaps
<1>5. \E w \in Users \ {u} : [x \in Users |-> PartyOf(x)][w] = p
  BY <1>2, <1>3
<1>. QED  BY <1>4, <1>5 DEF Promise!Enter

LEMMA DeleteMaps ==
  ASSUME IInv, IInv', NEW u \in Users, NEW p \in PartyIds, DELETEPartyMember(u, p)
  PROVE  Promise!Leave(u) \/ UNCHANGED Promise!mvars
PROOF
<1>1. /\ p \in parties
      /\ members'[p] = members[p] \ {u}
      /\ \A q \in PartyIds \ {p} : members'[q] = members[q]
      /\ parties' = IF members[p] \subseteq {u} THEN parties \ {p} ELSE parties
      /\ created' = created
  BY DEF DELETEPartyMember, IInv, TypeOK
<1>2. OneParty /\ OneParty' /\ parties \subseteq PartyIds
  BY DEF IInv, TypeOK
<1>3. ASSUME NEW v \in Users, v # u \/ u \notin members[p] PROVE PartyOf(v)' = PartyOf(v)
  <2>1. \A q \in PartyIds : v \in members'[q] <=> v \in members[q]
    BY <1>1, <1>3
  <2>2. CASE \E q \in parties : v \in members[q]
    <3>1. PICK q \in parties : v \in members[q]
      BY <2>2
    <3>2. q = p => ~ (members[p] \subseteq {u})
      BY <3>1, <1>3
    <3>3. q \in parties' /\ v \in members'[q]
      BY <3>1, <3>2, <2>1, <1>1, <1>2
    <3>. QED  BY <3>1, <3>3, <1>2, PartyOfIs, PartyOfIsNext
  <2>3. CASE \A q \in parties : v \notin members[q]
    <3>1. \A q \in parties' : v \notin members'[q]
      BY <2>1, <2>3, <1>1, <1>2
    <3>. QED  BY <2>3, <3>1, <1>2, PartyOfIs, PartyOfIsNext
  <2>. QED  BY <2>2, <2>3
<1>4. CASE u \in members[p]
  <2>1. \A q \in parties' : u \notin members'[q]
    BY <1>1, <1>2, <1>4 DEF OneParty
  <2>2. PartyOf(u)' = None
    BY <2>1, <1>2, PartyOfIsNext
  <2>3. [v \in Users |-> PartyOf(v)]' = [[v \in Users |-> PartyOf(v)] EXCEPT ![u] = None]
    BY <2>2, <1>3
  <2>. QED  BY <2>3, <1>1 DEF Promise!Leave
<1>5. CASE u \notin members[p]
  <2>1. [v \in Users |-> PartyOf(v)]' = [v \in Users |-> PartyOf(v)]
    BY <1>3, <1>5
  <2>. QED  BY <2>1, <1>1 DEF Promise!mvars
<1>. QED  BY <1>4, <1>5

(* Steps that leave the members lists alone are stutters.                  *)
LEMMA SameMembersMaps ==
  ASSUME UNCHANGED <<parties, members, created>>
  PROVE  UNCHANGED Promise!mvars
PROOF
<1>1. \A v \in Users : PartyOf(v)' = PartyOf(v)
  BY DEF PartyOf, PartiesOf
<1>. QED  BY <1>1 DEF Promise!mvars

LEMMA FatalMaps ==
  ASSUME Fatal
  PROVE  Promise!EndAll
PROOF
<1>1. parties' = {} /\ created' = created
  BY DEF Fatal
<1>2. \A v \in Users : PartyOf(v)' = None
  BY <1>1 DEF PartyOf, PartiesOf
<1>. QED  BY <1>1, <1>2 DEF Promise!EndAll

LEMMA StepMaps == IInv /\ IInv' /\ [Next]_vars => [Promise!MNext]_(Promise!mvars)
PROOF
<1>. SUFFICES ASSUME IInv, IInv', [Next]_vars PROVE [Promise!MNext]_(Promise!mvars)
  OBVIOUS
<1>1. ASSUME NEW u \in Users, UserStep(u) PROVE [Promise!MNext]_(Promise!mvars)
  <2>1. ASSUME NEW p \in PartyIds, POSTCreateParty(u, p) PROVE Promise!MNext
    BY <2>1, FoundMaps DEF Promise!MNext
  <2>2. ASSUME NEW p \in PartyIds, POSTJoinParty(u, p) PROVE Promise!MNext
    <3>1. p \in parties /\ u \notin members[p] /\ created' = created
      BY <2>2 DEF POSTJoinParty
    <3>2. Promise!Enter(u, p)
      BY <2>2, <3>1, JoinMaps DEF POSTJoinParty
    <3>. QED  BY <3>2 DEF Promise!MNext
  <2>3. ASSUME NEW v \in Users, POSTJoinViaPing(u, v) PROVE Promise!MNext
    <3>1. PICK p \in PartiesOf(v) :
            /\ u \notin members[p]
            /\ \E old \in PartyForUser(u), yield \in Yields : Enter(u, old, p, yield)
      BY <2>3 DEF POSTJoinViaPing
    <3>2. p \in parties /\ p \in PartyIds /\ created' = created
      BY <2>3 DEF POSTJoinViaPing, PartiesOf, IInv, TypeOK
    <3>3. Promise!Enter(u, p)
      BY <3>1, <3>2, JoinMaps
    <3>. QED  BY <3>2, <3>3 DEF Promise!MNext
  <2>4. ASSUME NEW p \in PartyIds, DELETEPartyMember(u, p)
        PROVE  [Promise!MNext]_(Promise!mvars)
    BY <2>4, DeleteMaps DEF Promise!MNext
  <2>5. ASSUME NEW p \in PartyIds, NEW by \in Users, POSTPromoteMember(by, u, p)
        PROVE  UNCHANGED Promise!mvars
    BY <2>5, SameMembersMaps DEF POSTPromoteMember
  <2>6. ASSUME NEW p \in PartyIds, PATCHParty(u, p) \/ PATCHMemberMeta(u, p) \/ RewriteAssignments(u, p)
        PROVE  Promise!MNext
    BY <2>6, FatalMaps DEF PATCHParty, PATCHMemberMeta, RewriteAssignments, Promise!MNext
  <2>. QED  BY <1>1, <2>1, <2>2, <2>3, <2>4, <2>5, <2>6 DEF UserStep
<1>2. ASSUME NEW c \in Contacts, ContactStep(c) PROVE UNCHANGED Promise!mvars
  BY <1>2, SameMembersMaps DEF ContactStep, POSTSendPing, DELETEPing, POSTPartyInviteToAccount
<1>3. ASSUME NEW p \in PartyIds, GETParty(p) \/ Encoded(p) PROVE UNCHANGED Promise!mvars
  BY <1>3, SameMembersMaps DEF GETParty, Encoded
<1>4. CASE UNCHANGED vars
  BY <1>4, SameMembersMaps DEF vars
<1>. QED  BY <1>1, <1>2, <1>3, <1>4 DEF Next

(* The handlers implement Membership: a user is in one party at a time and *)
(* changes party in one step, and a party that ended does not come back.   *)
THEOREM ImplementsMembership == Spec => MembershipImplemented
PROOF
<1>1. Init => Promise!MInit
  BY DEF Init, Promise!MInit, PartyOf, PartiesOf
<1>. QED  BY <1>1, StepMaps, Invariance, PTL DEF Spec, Promise!MSpec, MembershipImplemented

-----------------------------------------------------------------------------
(* Pings, invites and captains.                                            *)

(* What a step may do to the pings and the invites: an entry goes to 0, to *)
(* 1, or stays as it is.                                                   *)
LEMMA NotifiedStep ==
  ASSUME IInv, [Next]_vars, NEW c \in Contacts
  PROVE  /\ pings'[c] \in {0, 1, pings[c]}
         /\ \A p \in PartyIds : invites'[p][c] \in {0, 1, invites[p][c]}
PROOF
<1>. DEFINE P == pings'[c] \in {0, 1, pings[c]}
            I == \A p \in PartyIds : invites'[p][c] \in {0, 1, invites[p][c]}
<1>1. ASSUME NEW u, NEW old, NEW p, NEW captain, Enter(u, old, p, captain) PROVE I
  BY <1>1 DEF Enter, Forget, NoneSent
<1>2. ASSUME NEW u \in Users, UserStep(u) PROVE P /\ I
  <2>1. ASSUME NEW p \in PartyIds, POSTCreateParty(u, p) PROVE P /\ I
    <3>1. I
      BY <2>1, <1>1 DEF POSTCreateParty
    <3>. QED  BY <2>1, <3>1 DEF POSTCreateParty
  <2>2. ASSUME NEW p \in PartyIds, POSTJoinParty(u, p) PROVE P /\ I
    <3>1. I
      BY <2>2, <1>1 DEF POSTJoinParty
    <3>. QED  BY <2>2, <3>1 DEF POSTJoinParty
  <2>3. ASSUME NEW v \in Users, POSTJoinViaPing(u, v) PROVE P /\ I
    <3>1. I
      BY <2>3, <1>1 DEF POSTJoinViaPing
    <3>. QED  BY <2>3, <3>1 DEF POSTJoinViaPing
  <2>4. ASSUME NEW p \in PartyIds, DELETEPartyMember(u, p) PROVE P /\ I
    BY <2>4 DEF DELETEPartyMember, Forget, NoneSent
  <2>5. ASSUME NEW p \in PartyIds, NEW by \in Users, POSTPromoteMember(by, u, p)
        PROVE  P /\ I
    BY <2>5 DEF POSTPromoteMember
  <2>6. ASSUME NEW p \in PartyIds, PATCHParty(u, p) \/ PATCHMemberMeta(u, p) \/ RewriteAssignments(u, p) PROVE P /\ I
    BY <2>6 DEF PATCHParty, PATCHMemberMeta, RewriteAssignments, Fatal, NoneSent
  <2>. QED  BY <1>2, <2>1, <2>2, <2>3, <2>4, <2>5, <2>6 DEF UserStep
<1>3. ASSUME NEW d \in Contacts, ContactStep(d) PROVE P /\ I
  <2>1. ASSUME NEW list \in [Contacts -> Nat]
        PROVE  Resent(list, d)[c] \in {0, 1, list[c]}
    BY DEF Resent
  <2>2. pings \in [Contacts -> Nat] /\ invites \in [PartyIds -> [Contacts -> Nat]]
    BY DEF IInv, TypeOK
  <2>3. CASE POSTSendPing(d)
    BY <2>1, <2>2, <2>3 DEF POSTSendPing
  <2>4. CASE DELETEPing(d)
    BY <2>2, <2>4 DEF DELETEPing
  <2>5. ASSUME NEW p \in PartyIds, POSTPartyInviteToAccount(d, p) PROVE P /\ I
    <3>1. P
      BY <2>1, <2>2, <2>5 DEF POSTPartyInviteToAccount
    <3>2. /\ invites'[p] = Resent(invites[p], d)
          /\ \A q \in PartyIds \ {p} : invites'[q] = invites[q]
      BY <2>2, <2>5 DEF POSTPartyInviteToAccount
    <3>3. invites[p] \in [Contacts -> Nat]
      BY <2>2
    <3>4. Resent(invites[p], d)[c] \in {0, 1, invites[p][c]}
      BY <2>1, <3>3
    <3>. QED  BY <3>1, <3>2, <3>4
  <2>. QED  BY <1>3, <2>3, <2>4, <2>5 DEF ContactStep
<1>4. ASSUME NEW p \in PartyIds, GETParty(p) \/ Encoded(p) PROVE P /\ I
  BY <1>4 DEF GETParty, Encoded
<1>5. CASE UNCHANGED vars
  BY <1>5 DEF vars
<1>. QED  BY <1>2, <1>3, <1>4, <1>5 DEF Next

(* No pair has two pings, or two invites to one party.                     *)
THEOREM OneNotificationEach == Spec => []NotifiedOnce
PROOF
<1>1. Init => NotifiedOnce
  BY DEF Init, NotifiedOnce, NoneSent
<1>2. IInv /\ IInv' /\ NotifiedOnce /\ [Next]_vars => NotifiedOnce'
  <2>. SUFFICES ASSUME IInv, IInv', NotifiedOnce, [Next]_vars, NEW c \in Contacts
                PROVE  pings'[c] <= 1 /\ \A p \in parties' : invites'[p][c] <= 1
    BY DEF NotifiedOnce
  <2>1. \A p \in PartyIds : invites[p][c] <= 1
    BY DEF IInv, TypeOK, NoneSent, NotifiedOnce
  <2>2. pings[c] <= 1
    BY DEF NotifiedOnce
  <2>3. parties' \subseteq PartyIds
    BY DEF IInv, TypeOK
  <2>4. pings'[c] <= 1
    BY <2>2, NotifiedStep
  <2>5. \A p \in PartyIds : invites'[p][c] <= 1
    BY <2>1, NotifiedStep
  <2>. QED  BY <2>3, <2>4, <2>5
<1>. QED  BY <1>1, <1>2, Invariance, PTL DEF Spec

(* A captain is in the party or has just entered another one whenever the  *)
(* party is left without captains.                                         *)
THEOREM CaptainsReplaced == Spec => CaptainKept
PROOF
<1>. DEFINE Kept(p) == captains[p] # {} /\ captains'[p] = {} =>
              \A c \in captains[p] :
                c \in members'[p] \/ \E q \in parties' \ {p} : c \in members'[q]
            Step == \A p \in parties \intersect parties' : Kept(p)
<1>1. ASSUME IInv, NEW u \in Users, NEW p \in PartyIds, NEW old, NEW captain,
             old \in PartyForUser(u), u \notin members[p], Enter(u, old, p, captain)
      PROVE  Step
  <2>1. parties \subseteq PartyIds /\ \A q \in parties : captains[q] \subseteq members[q]
    BY <1>1 DEF IInv, TypeOK, OneCaptain
  <2>2. /\ p \in parties' /\ u \in members'[p]
        /\ \A q \in PartyIds : q # old => captains[q] \subseteq captains'[q]
        /\ \A q \in PartyIds : captains[q] \subseteq captains'[q] \union {u}
    BY <1>1 DEF Enter
  <2>3. ASSUME NEW q \in parties, captains[q] # {}, captains'[q] = {}
        PROVE  q # p /\ \A c \in captains[q] : c = u
    BY <2>1, <2>2, <2>3, <1>1
  <2>. QED  BY <2>2, <2>3
<1>2. ASSUME IInv, NEW u \in Users, NEW p \in PartyIds, DELETEPartyMember(u, p)
      PROVE  Step
  <2>1. ASSUME NEW q \in parties \intersect parties', q # p PROVE captains'[q] = captains[q]
    BY <1>2, <2>1 DEF DELETEPartyMember, IInv, TypeOK
  <2>2. ASSUME p \in parties' PROVE captains'[p] # {}
    <3>1. members[p] \ {u} # {}
      BY <1>2, <2>2 DEF DELETEPartyMember
    <3>2. PICK c \in SUBSET (members[p] \ {u}) :
            Elected(p, members[p] \ {u}, c) /\ captains' = [captains EXCEPT ![p] = c]
      BY <1>2, <3>1 DEF DELETEPartyMember
    <3>3. c # {}
      BY <3>2 DEF Elected
    <3>. QED  BY <1>2, <3>2, <3>3 DEF IInv, TypeOK
  <2>. QED  BY <2>1, <2>2
<1>3. ASSUME IInv, UNCHANGED members PROVE Step
  BY <1>3 DEF IInv, OneCaptain
<1>4. ASSUME IInv, [Next]_vars PROVE Step
  <2>1. ASSUME NEW u \in Users, UserStep(u) PROVE Step
    <3>1. ASSUME NEW p \in PartyIds, POSTCreateParty(u, p) PROVE Step
      <4>1. u \notin members[p]
        BY <1>4, <3>1 DEF POSTCreateParty, IInv, TypeOK
      <4>. QED  BY <1>1, <1>4, <3>1, <4>1 DEF POSTCreateParty
    <3>2. ASSUME NEW p \in PartyIds, POSTJoinParty(u, p) PROVE Step
      BY <1>1, <1>4, <3>2 DEF POSTJoinParty
    <3>3. ASSUME NEW v \in Users, POSTJoinViaPing(u, v) PROVE Step
      BY <1>1, <1>4, <3>3 DEF POSTJoinViaPing, PartiesOf, IInv, TypeOK
    <3>4. ASSUME NEW p \in PartyIds, DELETEPartyMember(u, p) PROVE Step
      BY <1>2, <1>4, <3>4
    <3>5. ASSUME NEW p \in PartyIds, NEW by \in Users, POSTPromoteMember(by, u, p) PROVE Step
      BY <1>3, <1>4, <3>5 DEF POSTPromoteMember
    <3>6. ASSUME NEW p \in PartyIds, PATCHParty(u, p) \/ PATCHMemberMeta(u, p) \/ RewriteAssignments(u, p) PROVE Step
      BY <3>6 DEF PATCHParty, PATCHMemberMeta, RewriteAssignments, Fatal
    <3>. QED  BY <2>1, <3>1, <3>2, <3>3, <3>4, <3>5, <3>6 DEF UserStep
  <2>2. ASSUME NEW c \in Contacts, ContactStep(c) PROVE Step
    BY <1>3, <1>4, <2>2 DEF ContactStep, POSTSendPing, DELETEPing, POSTPartyInviteToAccount
  <2>3. ASSUME NEW p \in PartyIds, GETParty(p) \/ Encoded(p) PROVE Step
    BY <1>3, <1>4, <2>3 DEF GETParty, Encoded
  <2>4. CASE UNCHANGED vars
    BY <1>3, <1>4, <2>4 DEF vars
  <2>. QED  BY <1>4, <2>1, <2>2, <2>3, <2>4 DEF Next
<1>5. IInv /\ [Next]_vars => [Step]_vars
  BY <1>4
<1>. QED  BY <1>5, Invariance, PTL DEF Spec, CaptainKept
=============================================================================
