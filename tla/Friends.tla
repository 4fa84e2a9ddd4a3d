------------------------------- MODULE Friends -------------------------------
(***************************************************************************)
(* Friend requests of the backend (router/fortnite/fortnite_friends.go).   *)
(* A friendship is two records of Accounts_Friends, one owned by each      *)
(* side, each under an id of its own.  AddPublicFriend asks or accepts and *)
(* DeleteFriend removes, each in the goroutine of its request: a step is   *)
(* one read or one write of the store (odin, external), with the decision  *)
(* that follows a read.  There is no lock; a call of the store may fail    *)
(* and the process may end between any two.                                *)
(*                                                                         *)
(* Both accounts of a request exist, and differ: nobody can be asked by    *)
(* themselves, so DeleteFriend would find no record.  Times, aliases and   *)
(* the messages sent to the clients after the last write are left out.     *)
(***************************************************************************)
EXTENDS Naturals, FiniteSets

CONSTANTS
  Accounts,
  Slots,       \* bound: requests served at once
  Ids,         \* bound: records stored at once; the store fixes no order of them
  None

ASSUME NoneAssumption ==
  None \notin Accounts \union Ids

Record == [owner : Accounts, friend : Accounts, status : {"PENDING", "ACCEPTED"},
           direction : {"OUTBOUND", "INBOUND"}]
NoRecord == [owner |-> None, friend |-> None, status |-> "PENDING", direction |-> "OUTBOUND"]

VARIABLES
  store,     \* Accounts_Friends: the record under each id, NoRecord if there is none
  request,   \* what the goroutine of each request knows
  asked,     \* history: the requests of one account to another answered 204
  tried,     \* history: those that began
  contested  \* history: the pairs that overlapping or broken requests touched

vars == <<store, request, asked, tried, contested>>

\* What a request does next, in the order of the code.
Steps == {"idle", "theirs", "accept", "acceptTheirs", "ask", "askTheirs", "delete"}

\* mine and theirs: the ids of the records found, or None, with what was
\* read of mine and theirs; todo: the ids of the records to delete.
Request == [step : Steps, from : Accounts \union {None}, to : Accounts \union {None},
            mine : Ids \union {None}, was : Record \union {NoRecord},
            theirs : Ids \union {None}, wasTheirs : Record \union {NoRecord},
            todo : SUBSET Ids, alone : BOOLEAN]
Knowing(step, a, f, mine, was, todo) ==
  [step |-> step, from |-> a, to |-> f, mine |-> mine, was |-> was,
   theirs |-> None, wasTheirs |-> NoRecord, todo |-> todo, alone |-> FALSE]
Idle == Knowing("idle", None, None, None, NoRecord, {})

TypeOK ==
  /\ store \in [Ids -> Record \union {NoRecord}]
  /\ request \in [Slots -> Request]
  /\ asked \subseteq Accounts \X Accounts
  /\ tried \subseteq Accounts \X Accounts
  /\ contested \subseteq SUBSET Accounts

Pair(c)   == {request[c].from, request[c].to}
Busy(p)   == {c \in Slots : request[c].step # "idle" /\ Pair(c) = p}
Both(p)   == {e \in p \X p : e[1] # e[2]}
Owned(a, f) == {id \in Ids : store[id].owner = a /\ store[id].friend = f}
\* Mutant of Between: one side only, as a DeleteFriend that forgets the mirror.
BetweenOneSided(p) == {id \in Ids : {store[id].owner, store[id].friend} = p /\ store[id].direction = "OUTBOUND"}
Between(p) == {id \in Ids : {store[id].owner, store[id].friend} = p}

\* What findFriendRecord may return: a record, if there is one.
findFriendRecord(a, f) == IF Owned(a, f) = {} THEN {None} ELSE Owned(a, f)
Read(id) == IF id = None THEN NoRecord ELSE store[id]
-----------------------------------------------------------------------------
Init ==
  /\ store = [id \in Ids |-> NoRecord]
  /\ request = [c \in Slots |-> Idle]
  /\ asked = {} /\ tried = {} /\ contested = {}

\* A request begins; one that meets another of the same pair contests it.
Begin(c, r) ==
  LET p == {r.from, r.to} IN
  /\ request[c].step = "idle"
  /\ request' = [d \in Slots |->
       IF d = c THEN [r EXCEPT !.alone = Busy(p) = {}]
       ELSE IF d \in Busy(p) THEN [request[d] EXCEPT !.alone = FALSE] ELSE request[d]]
  /\ contested' = IF Busy(p) = {} THEN contested ELSE contested \union {p}

Goto(c, step) == request' = [request EXCEPT ![c].step = step]
Finish(c)     == request' = [request EXCEPT ![c] = Idle]
Tear(c)       == contested' = contested \union {Pair(c)}

\* AddPublicFriend up to the read of the sender's record.
AddPublicFriend(c, a, f) ==
  /\ a # f
  /\ \E id \in findFriendRecord(a, f) :
       Begin(c, Knowing("theirs", a, f, id, Read(id), {}))
  /\ tried' = tried \union {<<a, f>>}
  /\ UNCHANGED <<store, asked>>

\* The requests that the code answers with a request to accept, or to ask.
\* Mutant of Accepts: the direction is not looked at.
AcceptsAny(was, theirs) ==
  was # NoRecord /\ was.status = "PENDING" /\ theirs.status # "ACCEPTED"
Accepts(was, theirs) ==
  was # NoRecord /\ was.status = "PENDING" /\ was.direction = "INBOUND" /\ theirs.status # "ACCEPTED"
Asks(was, theirs) == was = NoRecord /\ theirs = NoRecord

\* The read of the receiver's record, and the decision.
ReadTheirs(c) ==
  LET r == request[c]
      decided(id, step) == request' = [request EXCEPT
        ![c].step = step, ![c].theirs = id, ![c].wasTheirs = Read(id)] IN
  /\ r.step = "theirs"
  /\ \E id \in findFriendRecord(r.to, r.from) :
       \/ Accepts(r.was, Read(id)) /\ decided(id, "accept")
       \/ Asks(r.was, Read(id)) /\ decided(id, "ask")
       \/ ~ Accepts(r.was, Read(id)) /\ ~ Asks(r.was, Read(id)) /\ Finish(c)
  /\ UNCHANGED <<store, asked, tried, contested>>

\* The ids a request still holds: what it may write under.
Held(r) == ({r.mine, r.theirs} \ {None}) \union r.todo

\* generateID draws 16 random bytes: an id that no record has and no request
\* holds, so none that was drawn before and may still be written under.
generateID == {id \in Ids : store[id] = NoRecord /\ \A c \in Slots : id \notin Held(request[c])}

Create(a, f, status, direction) ==
  \E id \in generateID :
    store' = [store EXCEPT ![id] = [owner |-> a, friend |-> f, status |-> status,
                                    direction |-> direction]]
\* Bucket.Save writes what was read, also where the record was deleted since.
Save(id, was) == store' = [store EXCEPT ![id] = [was EXCEPT !.status = "ACCEPTED"]]

Accept(c) ==
  /\ request[c].step = "accept"
  /\ Save(request[c].mine, request[c].was)
  /\ Goto(c, "acceptTheirs")
  /\ UNCHANGED <<asked, tried, contested>>

Answered(c) ==
  /\ Finish(c)
  /\ asked' = asked \union {<<request[c].from, request[c].to>>}
  /\ UNCHANGED <<tried, contested>>

AcceptTheirs(c) ==
  LET r == request[c] IN
  /\ r.step = "acceptTheirs"
  /\ IF r.theirs # None THEN Save(r.theirs, r.wasTheirs)
     ELSE Create(r.to, r.from, "ACCEPTED", "OUTBOUND")
  /\ Answered(c)

Ask(c) ==
  /\ request[c].step = "ask"
  /\ Create(request[c].from, request[c].to, "PENDING", "OUTBOUND")
  /\ Goto(c, "askTheirs")
  /\ UNCHANGED <<asked, tried, contested>>

AskTheirs(c) ==
  /\ request[c].step = "askTheirs"
  /\ Create(request[c].to, request[c].from, "PENDING", "INBOUND")
  /\ Answered(c)

\* DeleteFriend reads all records and deletes those of the pair one by one;
\* so does the route that should only clear an alias.
DeleteFriend(c, a, f) ==
  /\ a # f
  /\ Begin(c, Knowing("delete", a, f, None, NoRecord, Between({a, f})))
  /\ UNCHANGED <<store, asked, tried>>

DeleteOne(c) ==
  /\ request[c].step = "delete"
  /\ \E id \in request[c].todo :
       /\ store' = [store EXCEPT ![id] = NoRecord]
       /\ request' = [request EXCEPT ![c].todo = @ \ {id}]
  /\ UNCHANGED <<asked, tried, contested>>

\* A removal that nothing met starts the pair afresh.
Deleted(c) ==
  /\ request[c].step = "delete" /\ request[c].todo = {}
  /\ Finish(c)
  /\ IF request[c].alone
       THEN /\ asked' = asked \ Both(Pair(c))
            /\ tried' = tried \ Both(Pair(c))
            /\ contested' = contested \ {Pair(c)}
       ELSE UNCHANGED <<asked, tried, contested>>
  /\ UNCHANGED store

\* A call of the store fails: the request ends, but for a failed delete, which
\* is ignored.
Fail(c) ==
  LET r == request[c] IN
  /\ r.step # "idle"
  /\ \/ r.step \in {"theirs", "accept", "ask"} /\ Finish(c) /\ UNCHANGED contested
     \/ r.step \in {"acceptTheirs", "askTheirs"} /\ Finish(c) /\ Tear(c)
     \/ /\ r.step = "delete"
        /\ \E id \in r.todo :
             request' = [request EXCEPT ![c].todo = @ \ {id}, ![c].alone = FALSE]
        /\ Tear(c)
  /\ UNCHANGED <<store, asked, tried>>

\* The process ends, and with it every request.
Crash ==
  /\ request # [c \in Slots |-> Idle]
  /\ contested' = contested \union
       {Pair(c) : c \in {d \in Slots : request[d].step \in {"acceptTheirs", "askTheirs", "delete"}}}
  /\ request' = [c \in Slots |-> Idle]
  /\ UNCHANGED <<store, asked, tried>>

Next ==
  \/ \E c \in Slots, a, f \in Accounts : AddPublicFriend(c, a, f) \/ DeleteFriend(c, a, f)
  \/ \E c \in Slots : \/ ReadTheirs(c) \/ Accept(c) \/ AcceptTheirs(c) \/ Ask(c) \/ AskTheirs(c)
                      \/ DeleteOne(c) \/ Deleted(c) \/ Fail(c)
  \/ Crash

Spec == Init /\ [][Next]_vars
-----------------------------------------------------------------------------
(* Properties. *)

\* What the records of a pair should say, given who asked whom since they
\* were last removed: nothing, a request with its mirror, or two friends.
Agree(a, f) ==
  LET sides == asked \intersect Both({a, f}) IN
  /\ sides = {} => Between({a, f}) = {}
  /\ sides # {} =>
       \E m \in Owned(a, f), t \in Owned(f, a) :
         /\ Between({a, f}) = {m, t}
         /\ store[m].status = store[t].status
         /\ store[m].status = "ACCEPTED" <=> sides = Both({a, f})
         /\ {store[m].direction, store[t].direction} = {"INBOUND", "OUTBOUND"}
         /\ store[m].status = "PENDING" =>
              (store[m].direction = "OUTBOUND" <=> <<a, f>> \in sides)

\* When no request of a pair runs, and none overlapped or broke off since the
\* pair was last removed undisturbed, its records say exactly what the
\* answered requests ask for (AddPublicFriend, DeleteFriend).
RecordsAgree ==
  \A a, f \in Accounts :
    a # f /\ Busy({a, f}) = {} /\ {a, f} \notin contested => Agree(a, f)

\* Overlaps, failed saves and crashes notwithstanding, nobody is a friend of
\* somebody they never asked, or were never asked by, since the friendship was
\* last removed undisturbed (the tests of AddPublicFriend before it accepts).
FriendsByConsent ==
  \A id \in Ids : store[id].status = "ACCEPTED" =>
    {<<store[id].owner, store[id].friend>>, <<store[id].friend, store[id].owner>>} \subseteq tried

\* A record that says what those who tried to ask can account for.
Supported(r) == r # NoRecord =>
  /\ r.owner # r.friend
  /\ r.status = "ACCEPTED" \/ r.direction = "OUTBOUND" => <<r.owner, r.friend>> \in tried
  /\ r.status = "ACCEPTED" \/ r.direction = "INBOUND" => <<r.friend, r.owner>> \in tried

\* What a running request knows of its pair.
Informed(r) ==
  /\ {r.from, r.to} \subseteq Accounts /\ r.from # r.to
  /\ r.step # "delete" => <<r.from, r.to>> \in tried
  /\ r.was # NoRecord => r.was.owner = r.from /\ r.was.friend = r.to /\ Supported(r.was)
  /\ r.wasTheirs # NoRecord => r.wasTheirs.owner = r.to /\ r.wasTheirs.friend = r.from
  /\ r.theirs # None => r.wasTheirs # NoRecord
  /\ r.step \in {"accept", "acceptTheirs"} => r.was # NoRecord /\ <<r.to, r.from>> \in tried

\* An undisturbed removal misses no record of its pair.
Undisturbed(c) ==
  /\ Busy(Pair(c)) = {c}
  /\ request[c].step = "delete" => Between(Pair(c)) \subseteq request[c].todo

\* The inductive invariant: every stored or remembered record is supported,
\* overlaps or not, and a removal that starts a pair afresh leaves none of it
\* (the reads of AddPublicFriend and DeleteFriend).
IInv ==
  /\ TypeOK
  /\ \A id \in Ids : Supported(store[id])
  /\ \A c \in Slots : request[c].step # "idle" => Informed(request[c])
  /\ \A c \in Slots : request[c].step # "idle" /\ request[c].alone => Undisturbed(c)

\* An id that a request holds is that of a record of its pair, or of none any
\* more, and no request of another pair holds it: what one request writes is
\* never a record of another pair.
HeldInv ==
  \A c \in Slots : request[c].step # "idle" =>
    /\ \A id \in Held(request[c]) :
         store[id] = NoRecord \/ {store[id].owner, store[id].friend} = Pair(c)
    /\ \A d \in Slots : request[d].step # "idle" /\ Pair(d) # Pair(c) =>
         Held(request[c]) \intersect Held(request[d]) = {}

\* What an uncontested request has read is still so, and what it has written
\* of its two records is all there is: either the records agree with what was
\* answered before, or the second write will make them agree.
Midway(c) ==
  LET r == request[c]
      sides == asked \intersect Both(Pair(c)) IN
  /\ r.alone
  /\ r.step \in {"theirs", "accept", "ask"} =>
       Agree(r.from, r.to) /\ r.mine \in findFriendRecord(r.from, r.to) /\ r.was = Read(r.mine)
  /\ r.step \in {"accept", "ask"} =>
       r.theirs \in findFriendRecord(r.to, r.from) /\ r.wasTheirs = Read(r.theirs)
  /\ r.step = "accept" => Accepts(r.was, r.wasTheirs)
  /\ r.step = "ask" => Asks(r.was, r.wasTheirs)
  /\ r.step = "acceptTheirs" =>
       /\ {r.mine, r.theirs} \subseteq Ids /\ r.mine # r.theirs
       /\ store[r.mine] = [r.was EXCEPT !.status = "ACCEPTED"] /\ r.was.direction = "INBOUND"
       /\ store[r.theirs] = r.wasTheirs /\ r.wasTheirs.direction = "OUTBOUND"
       /\ Between(Pair(c)) = {r.mine, r.theirs} /\ sides = {<<r.to, r.from>>}
  /\ r.step = "askTheirs" =>
       /\ sides = {}
       /\ \E m \in Ids :
            /\ Between(Pair(c)) = {m}
            /\ store[m] = [owner |-> r.from, friend |-> r.to, status |-> "PENDING",
                           direction |-> "OUTBOUND"]

\* The strengthening of RecordsAgree.
PairInv ==
  /\ HeldInv
  /\ RecordsAgree
  /\ \A c \in Slots : request[c].step # "idle" /\ Pair(c) \notin contested => Midway(c)
=============================================================================
