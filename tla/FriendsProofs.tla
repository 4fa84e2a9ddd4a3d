---------------------------- MODULE FriendsProofs ----------------------------
(***************************************************************************)
(* Theorems about the friendships of the backend, for any accounts, any    *)
(* number of requests at once and any number of records.  The only         *)
(* assumption is that None is neither an account nor an id.                *)
(***************************************************************************)
EXTENDS Friends, TLAPS

RequestsInformed == \A c \in Slots : request[c].step # "idle" => Informed(request[c])
RemovalsAlone == \A c \in Slots : request[c].step # "idle" /\ request[c].alone => Undisturbed(c)
StoreSupported == \A id \in Ids : Supported(store[id])

-----------------------------------------------------------------------------
(* Records and pairs. *)

(* NoRecord is not a record of two accounts. *)
LEMMA NoRecordIsNone == NoRecord \notin Record
PROOF BY NoneAssumption DEF NoRecord, Record

(* The ordered pairs of one pair are not those of another. *)
LEMMA OtherPair ==
  ASSUME NEW a, NEW f, NEW x, NEW y, {x, y} # {a, f}
  PROVE  <<x, y>> \notin Both({a, f}) /\ <<y, x>> \notin Both({a, f})
PROOF BY DEF Both

(* What findFriendRecord returns is None, or the id of a record of its owner. *)
LEMMA Found ==
  ASSUME TypeOK, NEW a \in Accounts, NEW f \in Accounts, NEW id \in findFriendRecord(a, f)
  PROVE  /\ id \in Ids \union {None}
         /\ Read(id) \in Record \union {NoRecord}
         /\ id = None <=> Read(id) = NoRecord
         /\ id # None => Read(id) = store[id] /\ store[id].owner = a /\ store[id].friend = f
PROOF
<1>1. CASE id = None
  BY <1>1, NoneAssumption DEF Read, findFriendRecord, Owned
<1>2. CASE id # None
  <2>1. id \in Ids /\ store[id].owner = a /\ store[id].friend = f
    BY <1>2 DEF findFriendRecord, Owned
  <2>2. store[id] # NoRecord
    BY <2>1, NoneAssumption DEF NoRecord
  <2>. QED  BY <1>2, <2>1, <2>2 DEF Read, TypeOK
<1>. QED  BY <1>1, <1>2

(* Support only grows with what was tried. *)
LEMMA SupportGrows ==
  ASSUME NEW r, Supported(r), tried \subseteq tried'
  PROVE  Supported(r)'
PROOF BY DEF Supported

-----------------------------------------------------------------------------
(* Steps of a running request. *)

(* A step that keeps the request informed, and that stores only supported  *)
(* records of its own pair, keeps the invariant.                           *)
LEMMA StepKeeps ==
  ASSUME IInv, NEW c \in Slots, request[c].step # "idle",
         NEW r \in Request, request' = [request EXCEPT ![c] = r],
         r.step # "idle" =>
           /\ r.from = request[c].from /\ r.to = request[c].to
           /\ r.alone => request[c].alone
           /\ Informed(r),
         store' \in [Ids -> Record \union {NoRecord}],
         \A id \in Ids : store'[id] = store[id] \/ store'[id] = NoRecord \/
           (Supported(store'[id]) /\ {store'[id].owner, store'[id].friend} = Pair(c)),
         r.step = "delete" /\ r.alone =>
           \A id \in Ids : {store'[id].owner, store'[id].friend} = Pair(c) => id \in r.todo,
         tried' = tried, asked' \subseteq Accounts \X Accounts,
         contested' \subseteq SUBSET Accounts
  PROVE  IInv'
PROOF
<1>t. TypeOK
  BY DEF IInv
<1>1. TypeOK'
  BY <1>t DEF TypeOK
<1>2. \A d \in Slots : request'[d] = IF d = c THEN r ELSE request[d]
  BY <1>t DEF TypeOK
<1>3. StoreSupported'
  <2>. SUFFICES ASSUME NEW id \in Ids PROVE Supported(store[id])'
    BY DEF StoreSupported
  <2>1. Supported(store[id]) /\ Supported(NoRecord)
    BY DEF IInv, Supported
  <2>. QED  BY <2>1 DEF Supported
<1>4. RequestsInformed'
  <2>. SUFFICES ASSUME NEW d \in Slots, request'[d].step # "idle"
                PROVE  Informed(request[d])'
    BY DEF RequestsInformed
  <2>1. Informed(request'[d])
    BY <1>2 DEF IInv
  <2>. QED  BY <2>1 DEF Informed, Supported
<1>5. RemovalsAlone'
  <2>. SUFFICES ASSUME NEW d \in Slots, request'[d].step # "idle", request'[d].alone
                PROVE  Undisturbed(d)'
    BY DEF RemovalsAlone
  <2>1. /\ request[d].step # "idle" /\ request[d].alone
        /\ Pair(d)' = Pair(d)
    BY <1>2 DEF Pair
  <2>2. Undisturbed(d)
    BY <2>1 DEF IInv
  <2>3. \A e \in Slots : request'[e].step # "idle" =>
           request[e].step # "idle" /\ Pair(e)' = Pair(e)
    BY <1>2 DEF Pair
  <2>4. Busy(Pair(d))' \subseteq Busy(Pair(d))
    BY <2>1, <2>3 DEF Busy
  <2>5. d \in Busy(Pair(d))'
    BY DEF Busy
  <2>6. Busy(Pair(d))' = {d}
    BY <2>2, <2>4, <2>5 DEF Undisturbed
  <2>7. ASSUME request'[d].step = "delete" PROVE Between(Pair(d))' \subseteq request'[d].todo
    <3>1. CASE d = c
      BY <1>2, <2>1, <2>7, <3>1 DEF Between
    <3>2. CASE d # c
      <4>1. request'[d] = request[d] /\ Between(Pair(d)) \subseteq request[d].todo
        BY <1>2, <2>2, <2>7, <3>2 DEF Undisturbed
      <4>2. Pair(c) # Pair(d)
        BY <2>2, <3>2 DEF Undisturbed, Busy
      <4>3. None \notin Pair(d) /\ None \in {NoRecord.owner, NoRecord.friend}
        <5>1. Informed(request[d])
          BY <2>1 DEF IInv
        <5>. QED  BY <5>1, NoneAssumption DEF Informed, Pair, NoRecord
      <4>4. ASSUME NEW id \in Ids, {store'[id].owner, store'[id].friend} = Pair(d)
            PROVE  store'[id] = store[id]
        BY <4>2, <4>3, <4>4
      <4>5. Between(Pair(d))' \subseteq Between(Pair(d))
        BY <2>1, <4>4 DEF Between
      <4>. QED  BY <4>1, <4>5
    <3>. QED  BY <3>1, <3>2
  <2>. QED  BY <2>6, <2>7 DEF Undisturbed
<1>. QED
  BY <1>1, <1>3, <1>4, <1>5 DEF IInv, StoreSupported, RequestsInformed, RemovalsAlone

(* So does a step that ends the request without a write.                   *)
LEMMA FinishKeeps ==
  ASSUME IInv, NEW c \in Slots, request[c].step # "idle", Finish(c),
         store' \in [Ids -> Record \union {NoRecord}],
         \A id \in Ids : store'[id] = store[id] \/ store'[id] = NoRecord \/
           (Supported(store'[id]) /\ {store'[id].owner, store'[id].friend} = Pair(c)),
         tried' = tried, asked' \subseteq Accounts \X Accounts,
         contested' \subseteq SUBSET Accounts
  PROVE  IInv'
PROOF
<1>1. Idle \in Request /\ Idle.step = "idle"
  BY DEF Idle, Knowing, Request, Steps
<1>2. request' = [request EXCEPT ![c] = Idle]
  BY DEF Finish
<1>. HIDE DEF Idle
<1>. QED  BY <1>1, <1>2, StepKeeps

(* A request that begins, informed, keeps the invariant.                   *)
LEMMA BeginKeeps ==
  ASSUME IInv, NEW c \in Slots, NEW r \in Request, r.step # "idle", Begin(c, r),
         Informed(r)', store' = store,
         r.step = "delete" => r.todo = Between({r.from, r.to}),
         tried \subseteq tried', tried' \subseteq Accounts \X Accounts, asked' = asked
  PROVE  IInv'
PROOF
<1>. DEFINE p == {r.from, r.to}
            New(d) == IF d = c THEN [r EXCEPT !.alone = Busy(p) = {}]
                      ELSE IF d \in Busy(p) THEN [request[d] EXCEPT !.alone = FALSE]
                      ELSE request[d]
<1>t. TypeOK
  BY DEF IInv
<1>2. \A d \in Slots : request'[d] = New(d)
  BY DEF Begin
<1>3. /\ r.from \in Accounts /\ r.to \in Accounts /\ r.from # r.to
      /\ contested' \subseteq SUBSET Accounts
  BY <1>t DEF Begin, TypeOK, Informed
<1>1. TypeOK'
  <2>1. ASSUME NEW d \in Slots PROVE New(d) \in Request
    <3>1. request[d] \in Request
      BY <1>t DEF TypeOK
    <3>2. [r EXCEPT !.alone = Busy(p) = {}] \in Request
      <4>1. (Busy(p) = {}) \in BOOLEAN
        OBVIOUS
      <4>. QED  BY <4>1 DEF Request
    <3>3. [request[d] EXCEPT !.alone = FALSE] \in Request
      BY <3>1 DEF Request
    <3>. QED  BY <3>1, <3>2, <3>3
  <2>2. request' \in [Slots -> Request]
    BY <2>1 DEF Begin
  <2>. QED  BY <1>t, <1>3, <2>2 DEF TypeOK
<1>4. StoreSupported'
  BY DEF IInv, StoreSupported, Supported
<1>5. RequestsInformed'
  <2>. SUFFICES ASSUME NEW d \in Slots, request'[d].step # "idle"
                PROVE  Informed(request[d])'
    BY DEF RequestsInformed
  <2>1. CASE d = c
    <3>1. request'[c] = [r EXCEPT !.alone = Busy(p) = {}]
      BY <1>2
    <3>. QED  BY <2>1, <3>1 DEF Informed, Request
  <2>2. CASE d # c
    <3>0. request[d] \in Request
      BY <1>t DEF TypeOK
    <3>1. request'[d] = request[d] \/ request'[d] = [request[d] EXCEPT !.alone = FALSE]
      BY <1>2, <2>2
    <3>2. Informed(request[d])
      BY <3>0, <3>1 DEF IInv, Request
    <3>. QED  BY <3>0, <3>1, <3>2 DEF Informed, Supported, Request
  <2>. QED  BY <2>1, <2>2
<1>6. RemovalsAlone'
  <2>. SUFFICES ASSUME NEW d \in Slots, request'[d].step # "idle", request'[d].alone
                PROVE  Undisturbed(d)'
    BY DEF RemovalsAlone
  <2>0. \A e \in Slots : request[e] \in Request
    BY <1>t DEF TypeOK
  <2>1. /\ Pair(c)' = p /\ request'[c].step = r.step /\ request'[c].todo = r.todo
        /\ request'[c].alone = (Busy(p) = {})
    BY <1>2 DEF Pair, Request
  <2>2. \A e \in Slots \ {c} :
          /\ Pair(e)' = Pair(e) /\ request'[e].step = request[e].step
          /\ request'[e].todo = request[e].todo
          /\ request'[e].alone = (e \notin Busy(p) /\ request[e].alone)
    <3>. SUFFICES ASSUME NEW e \in Slots \ {c}
                  PROVE  /\ Pair(e)' = Pair(e) /\ request'[e].step = request[e].step
                         /\ request'[e].todo = request[e].todo
                         /\ request'[e].alone = (e \notin Busy(p) /\ request[e].alone)
      OBVIOUS
    <3>1. CASE e \in Busy(p)
      BY <1>2, <2>0, <3>1 DEF Pair, Request
    <3>2. CASE e \notin Busy(p)
      BY <1>2, <2>0, <3>2 DEF Pair, Request
    <3>. QED  BY <3>1, <3>2
  <2>3. request[c].step = "idle"
    BY DEF Begin
  <2>4. \A q : Busy(q)' = IF q = p THEN Busy(q) \union {c} ELSE Busy(q)
    BY <2>1, <2>2, <2>3 DEF Busy
  <2>5. \A q : Between(q)' = Between(q)
    BY DEF Between
  <2>6. CASE d = c
    BY <2>1, <2>4, <2>5, <2>6 DEF Undisturbed
  <2>7. CASE d # c
    <3>1. request[d].step # "idle" /\ request[d].alone /\ d \notin Busy(p)
      BY <2>2, <2>7
    <3>2. Undisturbed(d) /\ Pair(d) # p
      BY <3>1 DEF IInv, Busy
    <3>. QED  BY <2>2, <2>4, <2>5, <2>7, <3>2 DEF Undisturbed
  <2>. QED  BY <2>6, <2>7
<1>. QED
  BY <1>1, <1>4, <1>5, <1>6 DEF IInv, StoreSupported, RequestsInformed, RemovalsAlone

-----------------------------------------------------------------------------
(* The actions. *)

LEMMA AddPublicFriendKeeps ==
  ASSUME IInv, NEW c \in Slots, NEW a \in Accounts, NEW f \in Accounts,
         AddPublicFriend(c, a, f)
  PROVE  IInv'
PROOF
<1>t. TypeOK
  BY DEF IInv
<1>1. PICK id \in findFriendRecord(a, f) :
        Begin(c, Knowing("theirs", a, f, id, Read(id), {}))
  BY DEF AddPublicFriend
<1>r. PICK r : r = Knowing("theirs", a, f, id, Read(id), {})
  OBVIOUS
<1>2. Begin(c, r)
  BY <1>1, <1>r
<1>3. /\ id \in Ids \union {None}
      /\ Read(id) \in Record \union {NoRecord}
      /\ id = None <=> Read(id) = NoRecord
      /\ id # None => Read(id) = store[id] /\ store[id].owner = a /\ store[id].friend = f
  BY <1>t, Found
<1>4. r \in Request
  BY <1>3, <1>r DEF Knowing, Request, Steps
<1>5. a # f /\ tried' = tried \union {<<a, f>>} /\ store' = store /\ asked' = asked
  BY DEF AddPublicFriend
<1>6. tried \subseteq tried' /\ tried' \subseteq Accounts \X Accounts
  BY <1>t, <1>5 DEF TypeOK
<1>7. Informed(r)'
  <2>1. ASSUME Read(id) # NoRecord
        PROVE  Supported(Read(id)) /\ Read(id).owner = a /\ Read(id).friend = f
    <3>1. id \in Ids /\ Read(id) = store[id]
      BY <1>3, <2>1
    <3>. QED  BY <1>3, <2>1, <3>1 DEF IInv
  <2>2. r.was # NoRecord => Supported(r.was)' /\ r.was.owner = a /\ r.was.friend = f
    <3>1. r.was = Read(id)
      BY <1>r DEF Knowing
    <3>2. Supported(Read(id)) => Supported(r.was)
      BY <3>1
    <3>. QED  BY <1>5, <1>6, <2>1, <3>1, <3>2 DEF Supported
  <2>. QED  BY <1>5, <1>r, <2>2 DEF Knowing, Informed
<1>8. r.step # "idle" /\ r.step # "delete"
  BY <1>r DEF Knowing
<1>. QED  BY <1>2, <1>4, <1>5, <1>6, <1>7, <1>8, BeginKeeps

LEMMA DeleteFriendKeeps ==
  ASSUME IInv, NEW c \in Slots, NEW a \in Accounts, NEW f \in Accounts,
         DeleteFriend(c, a, f)
  PROVE  IInv'
PROOF
<1>t. TypeOK
  BY DEF IInv
<1>r. PICK r : r = Knowing("delete", a, f, None, NoRecord, Between({a, f}))
  OBVIOUS
<1>1. Begin(c, r) /\ a # f /\ UNCHANGED <<store, asked, tried>>
  BY <1>r DEF DeleteFriend
<1>2. r \in Request
  BY <1>r DEF Knowing, Request, Steps, Between
<1>3. Informed(r)'
  BY <1>1, <1>r DEF Knowing, Informed
<1>4. r.step # "idle" /\ r.todo = Between({r.from, r.to}) /\ tried' \subseteq Accounts \X Accounts
  BY <1>t, <1>1, <1>r DEF Knowing, TypeOK
<1>. QED  BY <1>1, <1>2, <1>3, <1>4, BeginKeeps

LEMMA ReadTheirsKeeps ==
  ASSUME IInv, NEW c \in Slots, ReadTheirs(c)
  PROVE  IInv'
PROOF
<1>t. TypeOK /\ request[c] \in Request /\ request[c].step = "theirs" /\ Informed(request[c])
  BY DEF IInv, TypeOK, ReadTheirs
<1>u. UNCHANGED <<store, asked, tried, contested>>
  BY DEF ReadTheirs
<1>a. request[c].from \in Accounts /\ request[c].to \in Accounts
  BY <1>t DEF Informed
<1>1. CASE Finish(c)
  BY <1>t, <1>u, <1>1, FinishKeeps DEF TypeOK
<1>2. ASSUME NEW id \in findFriendRecord(request[c].to, request[c].from),
             NEW step \in {"accept", "ask"},
             request' = [request EXCEPT ![c].step = step, ![c].theirs = id,
                                        ![c].wasTheirs = Read(id)],
             step = "accept" => Accepts(request[c].was, Read(id))
      PROVE  IInv'
  <2>. DEFINE r == [request[c] EXCEPT !.step = step, !.theirs = id, !.wasTheirs = Read(id)]
  <2>1. request' = [request EXCEPT ![c] = r]
    BY <1>2
  <2>2. /\ id \in Ids \union {None}
        /\ Read(id) \in Record \union {NoRecord}
        /\ id = None <=> Read(id) = NoRecord
        /\ id # None => Read(id) = store[id] /\ store[id].owner = request[c].to
                        /\ store[id].friend = request[c].from
    BY <1>t, <1>a, Found
  <2>3. r \in Request
    BY <1>t, <2>2 DEF Request, Steps
  <2>4. /\ r.step = step /\ r.theirs = id /\ r.wasTheirs = Read(id)
        /\ r.from = request[c].from /\ r.to = request[c].to
        /\ r.was = request[c].was /\ r.alone = request[c].alone
    BY <1>t DEF Request
  <2>5. step = "accept" => r.was # NoRecord /\ <<r.to, r.from>> \in tried
    <3>. HAVE step = "accept"
    <3>1. request[c].was # NoRecord /\ request[c].was.direction = "INBOUND"
      BY <1>2 DEF Accepts
    <3>. QED  BY <1>t, <2>4, <3>1 DEF Informed, Supported
  <2>6. Informed(r)
    BY <1>t, <2>2, <2>4, <2>5 DEF Informed
  <2>. HIDE DEF r
  <2>. QED  BY <1>t, <1>u, <2>1, <2>3, <2>4, <2>6, StepKeeps DEF TypeOK
<1>. QED  BY <1>1, <1>2 DEF ReadTheirs

LEMMA SavesSupported ==
  ASSUME IInv, NEW c \in Slots, request[c].step \in {"accept", "acceptTheirs"},
         NEW was \in Record,
         {was.owner, was.friend} = {request[c].from, request[c].to}, was.owner # was.friend
  PROVE  LET saved == [was EXCEPT !.status = "ACCEPTED"] IN
         /\ saved \in Record /\ Supported(saved)
         /\ {saved.owner, saved.friend} = Pair(c)
PROOF
<1>1. {<<request[c].from, request[c].to>>, <<request[c].to, request[c].from>>} \subseteq tried
  BY DEF IInv, Informed
<1>2. <<was.owner, was.friend>> \in tried /\ <<was.friend, was.owner>> \in tried
  BY <1>1
<1>. QED  BY <1>2 DEF Record, Supported, Pair

(* What a running request knows, and the next step of it.                  *)
LEMMA Running ==
  ASSUME IInv, NEW c \in Slots, request[c].step # "idle"
  PROVE  /\ TypeOK /\ request[c] \in Request /\ Informed(request[c])
         /\ Pair(c) = {request[c].from, request[c].to}
         /\ request[c].from \in Accounts /\ request[c].to \in Accounts
PROOF
<1>1. TypeOK /\ Informed(request[c])
  BY DEF IInv
<1>. QED  BY <1>1 DEF TypeOK, Pair, Informed

(* A request that goes on to its last write stays informed.                *)
LEMMA GotoKeeps ==
  ASSUME IInv, NEW c \in Slots, NEW step \in {"acceptTheirs", "askTheirs"},
         request[c].step = (IF step = "acceptTheirs" THEN "accept" ELSE "ask"),
         Goto(c, step),
         store' \in [Ids -> Record \union {NoRecord}],
         \A id \in Ids : store'[id] = store[id] \/ store'[id] = NoRecord \/
           (Supported(store'[id]) /\ {store'[id].owner, store'[id].friend} = Pair(c)),
         UNCHANGED <<asked, tried, contested>>
  PROVE  IInv'
PROOF
<1>. DEFINE r == [request[c] EXCEPT !.step = step]
<1>1. request[c].step # "idle" /\ request[c].step # "delete"
  OBVIOUS
<1>2. TypeOK /\ request[c] \in Request /\ Informed(request[c])
  BY <1>1, Running
<1>3. r \in Request
  BY <1>2 DEF Request, Steps
<1>4. /\ r.step = step /\ r.from = request[c].from /\ r.to = request[c].to
      /\ r.was = request[c].was /\ r.wasTheirs = request[c].wasTheirs
      /\ r.theirs = request[c].theirs /\ r.alone = request[c].alone
  BY <1>2 DEF Request
<1>5. Informed(r)
  BY <1>1, <1>2, <1>4 DEF Informed
<1>6. request' = [request EXCEPT ![c] = r]
  BY DEF Goto
<1>. HIDE DEF r
<1>. QED  BY <1>1, <1>2, <1>3, <1>4, <1>5, <1>6, StepKeeps DEF TypeOK

(* A record that is created for a pair, of a support that was tried.       *)
LEMMA CreateSupported ==
  ASSUME TypeOK, NEW a \in Accounts, NEW f \in Accounts, a # f,
         NEW status \in {"PENDING", "ACCEPTED"}, NEW direction \in {"OUTBOUND", "INBOUND"},
         status = "ACCEPTED" \/ direction = "OUTBOUND" => <<a, f>> \in tried,
         status = "ACCEPTED" \/ direction = "INBOUND" => <<f, a>> \in tried,
         Create(a, f, status, direction)
  PROVE  /\ store' \in [Ids -> Record \union {NoRecord}]
         /\ \A id \in Ids : store'[id] = store[id] \/
              (Supported(store'[id]) /\ {store'[id].owner, store'[id].friend} = {a, f})
PROOF
<1>. DEFINE new == [owner |-> a, friend |-> f, status |-> status, direction |-> direction]
<1>1. PICK id \in Ids : store' = [store EXCEPT ![id] = new]
  BY DEF Create, generateID
<1>2. new \in Record /\ Supported(new) /\ {new.owner, new.friend} = {a, f}
  BY DEF Record, Supported
<1>. HIDE DEF new
<1>. QED  BY <1>1, <1>2 DEF TypeOK

LEMMA AcceptKeeps ==
  ASSUME IInv, NEW c \in Slots, Accept(c)
  PROVE  IInv'
PROOF
<1>1. /\ request[c].step = "accept" /\ Save(request[c].mine, request[c].was)
      /\ Goto(c, "acceptTheirs") /\ UNCHANGED <<asked, tried, contested>>
  BY DEF Accept
<1>2. TypeOK /\ request[c] \in Request /\ Informed(request[c])
  BY <1>1, Running
<1>3. /\ request[c].was # NoRecord /\ request[c].was \in Record
      /\ request[c].was.owner = request[c].from /\ request[c].was.friend = request[c].to
      /\ request[c].from # request[c].to
  BY <1>1, <1>2 DEF Informed, Request
<1>. DEFINE saved == [request[c].was EXCEPT !.status = "ACCEPTED"]
<1>4. saved \in Record /\ Supported(saved) /\ {saved.owner, saved.friend} = Pair(c)
  BY <1>1, <1>3, SavesSupported
<1>5. store' = [store EXCEPT ![request[c].mine] = saved]
  BY <1>1 DEF Save
<1>. HIDE DEF saved
<1>6. /\ store' \in [Ids -> Record \union {NoRecord}]
      /\ \A id \in Ids : store'[id] = store[id] \/
           (Supported(store'[id]) /\ {store'[id].owner, store'[id].friend} = Pair(c))
  BY <1>2, <1>4, <1>5 DEF TypeOK
<1>. QED  BY <1>1, <1>6, GotoKeeps

LEMMA AskKeeps ==
  ASSUME IInv, NEW c \in Slots, Ask(c)
  PROVE  IInv'
PROOF
<1>1. /\ request[c].step = "ask"
      /\ Create(request[c].from, request[c].to, "PENDING", "OUTBOUND")
      /\ Goto(c, "askTheirs") /\ UNCHANGED <<asked, tried, contested>>
  BY DEF Ask
<1>2. /\ TypeOK /\ Informed(request[c]) /\ Pair(c) = {request[c].from, request[c].to}
      /\ request[c].from \in Accounts /\ request[c].to \in Accounts
  BY <1>1, Running
<1>3. request[c].from # request[c].to /\ <<request[c].from, request[c].to>> \in tried
  BY <1>1, <1>2 DEF Informed
<1>4. /\ store' \in [Ids -> Record \union {NoRecord}]
      /\ \A id \in Ids : store'[id] = store[id] \/
           (Supported(store'[id]) /\ {store'[id].owner, store'[id].friend} = Pair(c))
  BY <1>1, <1>2, <1>3, CreateSupported
<1>. QED  BY <1>1, <1>4, GotoKeeps

LEMMA AnsweredType ==
  ASSUME TypeOK, NEW c \in Slots, Answered(c),
         request[c].from \in Accounts, request[c].to \in Accounts
  PROVE  /\ Finish(c) /\ tried' = tried
         /\ asked' \subseteq Accounts \X Accounts /\ contested' \subseteq SUBSET Accounts
PROOF
<1>1. tried' = tried /\ contested' = contested
  BY DEF Answered
<1>2. asked' = asked \union {<<request[c].from, request[c].to>>}
  BY DEF Answered
<1>3. asked' \subseteq Accounts \X Accounts
  BY <1>2 DEF TypeOK
<1>4. Finish(c)
  BY DEF Answered
<1>. QED  BY <1>1, <1>3, <1>4 DEF TypeOK

LEMMA AcceptTheirsKeeps ==
  ASSUME IInv, NEW c \in Slots, AcceptTheirs(c)
  PROVE  IInv'
PROOF
<1>1. request[c].step = "acceptTheirs" /\ Answered(c)
  BY DEF AcceptTheirs
<1>2. /\ TypeOK /\ request[c] \in Request /\ Informed(request[c])
      /\ Pair(c) = {request[c].from, request[c].to}
      /\ request[c].from \in Accounts /\ request[c].to \in Accounts
  BY <1>1, Running
<1>3. /\ request[c].from # request[c].to
      /\ <<request[c].from, request[c].to>> \in tried /\ <<request[c].to, request[c].from>> \in tried
  BY <1>1, <1>2 DEF Informed
<1>4. /\ store' \in [Ids -> Record \union {NoRecord}]
      /\ \A id \in Ids : store'[id] = store[id] \/
           (Supported(store'[id]) /\ {store'[id].owner, store'[id].friend} = Pair(c))
  <2>1. CASE request[c].theirs # None
    <3>. DEFINE saved == [request[c].wasTheirs EXCEPT !.status = "ACCEPTED"]
    <3>1. /\ request[c].wasTheirs \in Record
          /\ request[c].wasTheirs.owner = request[c].to
          /\ request[c].wasTheirs.friend = request[c].from
      BY <1>2, <2>1 DEF Informed, Request
    <3>2. saved \in Record /\ Supported(saved) /\ {saved.owner, saved.friend} = Pair(c)
      BY <1>1, <1>3, <3>1, SavesSupported
    <3>3. store' = [store EXCEPT ![request[c].theirs] = saved]
      BY <2>1 DEF AcceptTheirs, Save
    <3>. HIDE DEF saved
    <3>. QED  BY <1>2, <3>2, <3>3 DEF TypeOK
  <2>2. CASE request[c].theirs = None
    <3>1. Create(request[c].to, request[c].from, "ACCEPTED", "OUTBOUND")
      BY <2>2 DEF AcceptTheirs
    <3>. QED  BY <1>2, <1>3, <3>1, CreateSupported
  <2>. QED  BY <2>1, <2>2
<1>5. /\ Finish(c) /\ tried' = tried
      /\ asked' \subseteq Accounts \X Accounts /\ contested' \subseteq SUBSET Accounts
  BY <1>1, <1>2, AnsweredType
<1>. QED  BY <1>1, <1>4, <1>5, FinishKeeps

LEMMA AskTheirsKeeps ==
  ASSUME IInv, NEW c \in Slots, AskTheirs(c)
  PROVE  IInv'
PROOF
<1>1. /\ request[c].step = "askTheirs" /\ Answered(c)
      /\ Create(request[c].to, request[c].from, "PENDING", "INBOUND")
  BY DEF AskTheirs
<1>2. /\ TypeOK /\ Informed(request[c])
      /\ Pair(c) = {request[c].from, request[c].to}
      /\ request[c].from \in Accounts /\ request[c].to \in Accounts
  BY <1>1, Running
<1>3. request[c].from # request[c].to /\ <<request[c].from, request[c].to>> \in tried
  BY <1>1, <1>2 DEF Informed
<1>4. /\ store' \in [Ids -> Record \union {NoRecord}]
      /\ \A id \in Ids : store'[id] = store[id] \/
           (Supported(store'[id]) /\ {store'[id].owner, store'[id].friend} = Pair(c))
  <2>1. {request[c].to, request[c].from} = Pair(c)
    BY <1>2
  <2>2. \A id \in Ids : store'[id] = store[id] \/
          (Supported(store'[id])
           /\ {store'[id].owner, store'[id].friend} = {request[c].to, request[c].from})
    BY <1>1, <1>2, <1>3, CreateSupported
  <2>3. store' \in [Ids -> Record \union {NoRecord}]
    BY <1>1, <1>2, <1>3, CreateSupported
  <2>. QED  BY <2>1, <2>2, <2>3
<1>5. /\ Finish(c) /\ tried' = tried
      /\ asked' \subseteq Accounts \X Accounts /\ contested' \subseteq SUBSET Accounts
  BY <1>1, <1>2, AnsweredType
<1>. QED  BY <1>1, <1>4, <1>5, FinishKeeps

LEMMA DeleteOneKeeps ==
  ASSUME IInv, NEW c \in Slots, DeleteOne(c)
  PROVE  IInv'
PROOF
<1>1. PICK id \in request[c].todo :
        /\ store' = [store EXCEPT ![id] = NoRecord]
        /\ request' = [request EXCEPT ![c].todo = @ \ {id}]
  BY DEF DeleteOne
<1>2. request[c].step = "delete" /\ UNCHANGED <<asked, tried, contested>>
  BY DEF DeleteOne
<1>3. /\ TypeOK /\ request[c] \in Request /\ Informed(request[c])
      /\ Pair(c) = {request[c].from, request[c].to}
  BY <1>2, Running
<1>. DEFINE r == [request[c] EXCEPT !.todo = @ \ {id}]
<1>4. r \in Request /\ request' = [request EXCEPT ![c] = r]
  BY <1>1, <1>3 DEF Request
<1>5. /\ r.step = "delete" /\ r.from = request[c].from /\ r.to = request[c].to
      /\ r.was = request[c].was /\ r.wasTheirs = request[c].wasTheirs
      /\ r.theirs = request[c].theirs /\ r.alone = request[c].alone
      /\ r.todo = request[c].todo \ {id}
  BY <1>2, <1>3 DEF Request
<1>. HIDE DEF r
<1>6. Informed(r)
  BY <1>2, <1>3, <1>5 DEF Informed
<1>7. /\ store' \in [Ids -> Record \union {NoRecord}]
      /\ \A j \in Ids : store'[j] = IF j = id THEN NoRecord ELSE store[j]
  BY <1>1, <1>3 DEF TypeOK
<1>8. ASSUME r.alone, NEW j \in Ids, {store'[j].owner, store'[j].friend} = Pair(c)
      PROVE  j \in r.todo
  <2>1. Between(Pair(c)) \subseteq request[c].todo
    BY <1>2, <1>5, <1>8 DEF IInv, Undisturbed
  <2>2. None \notin Pair(c) /\ None \in {NoRecord.owner, NoRecord.friend}
    BY <1>3, NoneAssumption DEF Informed, NoRecord
  <2>3. j # id /\ store'[j] = store[j]
    BY <1>7, <1>8, <2>2
  <2>4. j \in Between(Pair(c))
    BY <1>8, <2>3 DEF Between
  <2>. QED  BY <1>5, <2>1, <2>3, <2>4
<1>. QED  BY <1>2, <1>3, <1>4, <1>5, <1>6, <1>7, <1>8, StepKeeps DEF TypeOK

(* An undisturbed removal ends with no record of its pair left, and nobody *)
(* else at work on it: what was tried of that pair may be forgotten.       *)
LEMMA DeletedKeeps ==
  ASSUME IInv, NEW c \in Slots, Deleted(c)
  PROVE  IInv'
PROOF
<1>1. /\ request[c].step = "delete" /\ request[c].todo = {} /\ Finish(c) /\ store' = store
  BY DEF Deleted
<1>2. /\ TypeOK /\ Pair(c) = {request[c].from, request[c].to}
      /\ Informed(request[c])
  BY <1>1, Running
<1>3. CASE ~ request[c].alone
  <2>1. UNCHANGED <<asked, tried, contested>>
    BY <1>3 DEF Deleted
  <2>. QED  BY <1>1, <1>2, <2>1, FinishKeeps DEF TypeOK
<1>4. CASE request[c].alone
  <2>1. /\ tried' = tried \ Both(Pair(c)) /\ asked' = asked \ Both(Pair(c))
        /\ contested' = contested \ {Pair(c)}
    BY <1>4 DEF Deleted
  <2>2. Busy(Pair(c)) = {c} /\ Between(Pair(c)) = {}
    BY <1>1, <1>4 DEF IInv, Undisturbed
  <2>3. Idle \in Request /\ Idle.step = "idle"
    BY DEF Idle, Knowing, Request, Steps
  <2>4. \A d \in Slots : request'[d] = IF d = c THEN Idle ELSE request[d]
    BY <1>1, <1>2 DEF Finish, TypeOK
  <2>5. TypeOK'
    <3>1. request' \in [Slots -> Request]
      BY <1>1, <1>2, <2>3 DEF Finish, TypeOK
    <3>. QED  BY <1>1, <1>2, <2>1, <3>1 DEF TypeOK
  <2>6. \A x, y : <<x, y>> \in tried /\ {x, y} # Pair(c) => <<x, y>> \in tried'
    BY <1>2, <2>1, OtherPair
  <2>7. ASSUME NEW r, Supported(r), r # NoRecord => {r.owner, r.friend} # Pair(c)
        PROVE  Supported(r)'
    <3>1. {r.friend, r.owner} = {r.owner, r.friend}
      OBVIOUS
    <3>. QED  BY <2>6, <2>7, <3>1 DEF Supported
  <2>8. StoreSupported'
    <3>. SUFFICES ASSUME NEW id \in Ids PROVE Supported(store[id])'
      BY DEF StoreSupported
    <3>1. PICK r : r = store[id]
      OBVIOUS
    <3>2. Supported(r) /\ {r.owner, r.friend} # Pair(c)
      BY <2>2, <3>1 DEF IInv, Between
    <3>. QED  BY <1>1, <2>7, <3>1, <3>2
  <2>9. ASSUME NEW d \in Slots, request'[d].step # "idle"
        PROVE  d # c /\ request'[d] = request[d] /\ request[d].step # "idle" /\ Pair(d) # Pair(c)
    <3>1. d # c /\ request'[d] = request[d]
      BY <2>3, <2>4, <2>9
    <3>. QED  BY <2>2, <2>9, <3>1 DEF Busy
  <2>10. RequestsInformed'
    <3>. SUFFICES ASSUME NEW d \in Slots, request'[d].step # "idle"
                  PROVE  Informed(request[d])'
      BY DEF RequestsInformed
    <3>1. PICK r : r = request[d]
      OBVIOUS
    <3>2. Informed(r) /\ {r.from, r.to} # Pair(c) /\ request'[d] = r
      BY <2>9, <3>1 DEF IInv, Pair
    <3>3. r.was # NoRecord => Supported(r.was)'
      <4>1. PICK w : w = r.was
        OBVIOUS
      <4>2. w # NoRecord => Supported(w) /\ {w.owner, w.friend} # Pair(c)
        BY <3>2, <4>1 DEF Informed
      <4>3. w # NoRecord => Supported(w)'
        BY <2>7, <4>2
      <4>. QED  BY <4>1, <4>3
    <3>4. {r.to, r.from} # Pair(c)
      BY <3>2
    <3>5. Informed(r)'
      BY <2>6, <3>2, <3>3, <3>4 DEF Informed
    <3>. QED  BY <3>2, <3>5
  <2>11. RemovalsAlone'
    <3>. SUFFICES ASSUME NEW d \in Slots, request'[d].step # "idle", request'[d].alone
                  PROVE  Undisturbed(d)'
      BY DEF RemovalsAlone
    <3>1. /\ request'[d] = request[d] /\ request[d].step # "idle"
          /\ Pair(d)' = Pair(d)
      BY <2>9 DEF Pair
    <3>2. Undisturbed(d)
      BY <3>1 DEF IInv
    <3>3. \A e \in Slots : request'[e].step # "idle" =>
             request[e].step # "idle" /\ Pair(e)' = Pair(e)
      BY <2>9 DEF Pair
    <3>4. Busy(Pair(d))' \subseteq Busy(Pair(d)) /\ d \in Busy(Pair(d))'
      BY <3>1, <3>3 DEF Busy
    <3>5. Between(Pair(d))' = Between(Pair(d))
      BY <1>1, <3>1 DEF Between
    <3>. QED  BY <3>1, <3>2, <3>4, <3>5 DEF Undisturbed
  <2>. QED
    BY <2>5, <2>8, <2>10, <2>11 DEF IInv, StoreSupported, RequestsInformed, RemovalsAlone
<1>. QED  BY <1>3, <1>4

LEMMA FailKeeps ==
  ASSUME IInv, NEW c \in Slots, Fail(c)
  PROVE  IInv'
PROOF
<1>1. request[c].step # "idle" /\ UNCHANGED <<store, asked, tried>>
  BY DEF Fail
<1>2. /\ TypeOK /\ request[c] \in Request /\ Informed(request[c])
      /\ Pair(c) \subseteq Accounts
  <2>1. /\ TypeOK /\ request[c] \in Request /\ Informed(request[c])
        /\ Pair(c) = {request[c].from, request[c].to}
    BY <1>1, Running
  <2>. QED  BY <2>1 DEF Informed
<1>3. contested' \subseteq SUBSET Accounts
  <2>1. contested' = contested \/ contested' = contested \union {Pair(c)}
    BY DEF Fail, Tear
  <2>. QED  BY <1>2, <2>1 DEF TypeOK
<1>4. CASE Finish(c)
  BY <1>1, <1>2, <1>3, <1>4, FinishKeeps DEF TypeOK
<1>5. CASE ~ Finish(c)
  <2>1. PICK id \in request[c].todo :
          request' = [request EXCEPT ![c].todo = @ \ {id}, ![c].alone = FALSE]
    BY <1>5 DEF Fail
  <2>. DEFINE r == [request[c] EXCEPT !.todo = @ \ {id}, !.alone = FALSE]
  <2>2. r \in Request /\ request' = [request EXCEPT ![c] = r]
    BY <1>2, <2>1 DEF Request
  <2>3. /\ r.step = request[c].step /\ r.from = request[c].from /\ r.to = request[c].to
        /\ r.was = request[c].was /\ r.wasTheirs = request[c].wasTheirs
        /\ r.theirs = request[c].theirs /\ ~ r.alone
    BY <1>2 DEF Request
  <2>. HIDE DEF r
  <2>4. Informed(r)
    BY <1>2, <2>3 DEF Informed
  <2>. QED  BY <1>1, <1>2, <1>3, <2>2, <2>3, <2>4, StepKeeps DEF TypeOK
<1>. QED  BY <1>4, <1>5

LEMMA CrashKeeps ==
  ASSUME IInv, Crash
  PROVE  IInv'
PROOF
<1>t. TypeOK
  BY DEF IInv
<1>1. request' = [c \in Slots |-> Idle] /\ UNCHANGED <<store, asked, tried>>
  BY DEF Crash
<1>2. Idle \in Request /\ Idle.step = "idle"
  BY DEF Idle, Knowing, Request, Steps
<1>3. contested' \subseteq SUBSET Accounts
  <2>1. \A c \in Slots : request[c].step # "idle" => Pair(c) \subseteq Accounts
    <3>. SUFFICES ASSUME NEW c \in Slots, request[c].step # "idle"
                  PROVE  Pair(c) \subseteq Accounts
      OBVIOUS
    <3>. QED  BY Running
  <2>2. contested' = contested \union
          {Pair(c) : c \in {d \in Slots : request[d].step \in {"acceptTheirs", "askTheirs", "delete"}}}
    BY DEF Crash
  <2>. QED  BY <1>t, <2>1, <2>2 DEF TypeOK
<1>4. TypeOK'
  BY <1>t, <1>1, <1>2, <1>3 DEF TypeOK
<1>5. \A c \in Slots : request'[c].step = "idle"
  BY <1>1, <1>2
<1>6. \A id \in Ids : Supported(store[id])'
  BY <1>1 DEF IInv, Supported
<1>. QED  BY <1>4, <1>5, <1>6 DEF IInv

LEMMA InitIInv ==
  ASSUME Init
  PROVE  IInv
PROOF
<1>1. Idle \in Request /\ Idle.step = "idle"
  BY DEF Idle, Knowing, Request, Steps
<1>2. TypeOK
  BY <1>1 DEF Init, TypeOK
<1>3. \A id \in Ids : Supported(store[id])
  BY DEF Init, Supported
<1>4. \A c \in Slots : request[c].step = "idle"
  BY <1>1 DEF Init
<1>. QED  BY <1>2, <1>3, <1>4 DEF IInv

-----------------------------------------------------------------------------
(* The theorems. *)

(* Whatever overlaps, fails or is cut off, every record is one that those  *)
(* who asked can account for (the handlers of fortnite_friends.go).        *)
THEOREM Invariance == Spec => []IInv
PROOF
<1>1. Init => IInv
  BY InitIInv
<1>2. IInv /\ [Next]_vars => IInv'
  <2>. SUFFICES ASSUME IInv, [Next]_vars PROVE IInv'
    OBVIOUS
  <2>1. ASSUME NEW c \in Slots, NEW a \in Accounts, NEW f \in Accounts, AddPublicFriend(c, a, f)
        PROVE  IInv'
    BY <2>1, AddPublicFriendKeeps
  <2>2. ASSUME NEW c \in Slots, NEW a \in Accounts, NEW f \in Accounts, DeleteFriend(c, a, f)
        PROVE  IInv'
    BY <2>2, DeleteFriendKeeps
  <2>3. ASSUME NEW c \in Slots, ReadTheirs(c) PROVE IInv'
    BY <2>3, ReadTheirsKeeps
  <2>4. ASSUME NEW c \in Slots, Accept(c) PROVE IInv'
    BY <2>4, AcceptKeeps
  <2>5. ASSUME NEW c \in Slots, AcceptTheirs(c) PROVE IInv'
    BY <2>5, AcceptTheirsKeeps
  <2>6. ASSUME NEW c \in Slots, Ask(c) PROVE IInv'
    BY <2>6, AskKeeps
  <2>7. ASSUME NEW c \in Slots, AskTheirs(c) PROVE IInv'
    BY <2>7, AskTheirsKeeps
  <2>8. ASSUME NEW c \in Slots, DeleteOne(c) PROVE IInv'
    BY <2>8, DeleteOneKeeps
  <2>9. ASSUME NEW c \in Slots, Deleted(c) PROVE IInv'
    BY <2>9, DeletedKeeps
  <2>10. ASSUME NEW c \in Slots, Fail(c) PROVE IInv'
    BY <2>10, FailKeeps
  <2>11. CASE Crash
    BY <2>11, CrashKeeps
  <2>12. CASE UNCHANGED vars
    <3>1. UNCHANGED <<store, request, asked, tried, contested>>
      BY <2>12 DEF vars
    <3>. QED
      BY <3>1 DEF IInv, TypeOK, Supported, Informed, Undisturbed, Busy, Pair, Between
  <2>. QED
    BY <2>1, <2>2, <2>3, <2>4, <2>5, <2>6, <2>7, <2>8, <2>9, <2>10, <2>11, <2>12 DEF Next
<1>. QED  BY <1>1, <1>2, PTL DEF Spec

(* The store, the requests and the history keep their types.               *)
THEOREM TypeCorrect == Spec => []TypeOK
PROOF
<1>1. IInv => TypeOK
  BY DEF IInv
<1>. QED  BY <1>1, Invariance, PTL

(* Nobody becomes a friend of somebody they never asked or were never      *)
(* asked by, however requests overlap and wherever they break off.         *)
THEOREM Consent == Spec => []FriendsByConsent
PROOF
<1>1. IInv => FriendsByConsent
  <2>. SUFFICES ASSUME IInv, NEW id \in Ids, store[id].status = "ACCEPTED"
                PROVE  {<<store[id].owner, store[id].friend>>,
                        <<store[id].friend, store[id].owner>>} \subseteq tried
    BY DEF FriendsByConsent
  <2>1. store[id] # NoRecord /\ Supported(store[id])
    BY DEF IInv, NoRecord
  <2>. QED  BY <2>1 DEF Supported
<1>. QED  BY <1>1, Invariance, PTL

-----------------------------------------------------------------------------
(* What two records say of a pair: RecordsAgree. *)

OfPair(id, p) == {store[id].owner, store[id].friend} = p

(* The records of a pair say the same to both of its accounts.             *)
LEMMA AgreeSymmetric ==
  ASSUME TypeOK, NEW a \in Accounts, NEW f \in Accounts, a # f, Agree(a, f)
  PROVE  Agree(f, a)
PROOF
<1>1. {f, a} = {a, f}
  OBVIOUS
<1>. DEFINE sides == asked \intersect Both({a, f})
<1>2. CASE sides = {}
  BY <1>1, <1>2 DEF Agree
<1>3. CASE sides # {}
  <2>1. PICK m \in Owned(a, f), t \in Owned(f, a) :
          /\ Between({a, f}) = {m, t}
          /\ store[m].status = store[t].status
          /\ store[m].status = "ACCEPTED" <=> sides = Both({a, f})
          /\ {store[m].direction, store[t].direction} = {"INBOUND", "OUTBOUND"}
          /\ store[m].status = "PENDING" =>
               (store[m].direction = "OUTBOUND" <=> <<a, f>> \in sides)
    BY <1>3 DEF Agree
  <2>2. Both({a, f}) = {<<a, f>>, <<f, a>>}
    BY DEF Both
  <2>3. Both({f, a}) = Both({a, f}) /\ Between({f, a}) = {t, m}
    BY <1>1, <2>1
  <2>4. <<a, f>> # <<f, a>>
    OBVIOUS
  <2>5. sides \subseteq {<<a, f>>, <<f, a>>}
    BY <2>2
  <2>. HIDE DEF sides
  <2>6. ASSUME store[t].status = "PENDING"
        PROVE  store[t].direction = "OUTBOUND" <=> <<f, a>> \in sides
    <3>1. store[m].status = "PENDING" /\ sides # Both({a, f})
      BY <2>1, <2>6
    <3>2. store[m].direction = "OUTBOUND" <=> <<a, f>> \in sides
      BY <2>1, <3>1
    <3>3. <<a, f>> \in sides <=> <<f, a>> \notin sides
      BY <1>3, <2>2, <2>5, <3>1
    <3>4. store[t].direction = "OUTBOUND" <=> store[m].direction # "OUTBOUND"
      BY <2>1
    <3>. QED  BY <3>2, <3>3, <3>4
  <2>7. asked \intersect Both({f, a}) = sides
    BY <2>3 DEF sides
  <2>8. {store[t].direction, store[m].direction} = {"INBOUND", "OUTBOUND"}
    BY <2>1
  <2>9. store[t].status = "ACCEPTED" <=> sides = Both({f, a})
    BY <2>1, <2>3
  <2>. QED  BY <1>3, <2>1, <2>3, <2>6, <2>7, <2>8, <2>9 DEF Agree
<1>. QED  BY <1>2, <1>3

AgreeBothWays == \A a, f \in Accounts : TypeOK /\ a # f /\ Agree(a, f) => Agree(f, a)

LEMMA BothWays == AgreeBothWays
PROOF BY AgreeSymmetric DEF AgreeBothWays

(* They change only with the records of the pair and with what was asked.  *)
LEMMA AgreeUnchanged ==
  ASSUME NEW a, NEW f, Agree(a, f),
         \A id \in Ids : OfPair(id, {a, f})' <=> OfPair(id, {a, f}),
         \A id \in Ids : OfPair(id, {a, f}) => store'[id] = store[id],
         asked' \intersect Both({a, f}) = asked \intersect Both({a, f})
  PROVE  Agree(a, f)'
PROOF
<1>1. Between({a, f})' = Between({a, f})
  BY DEF Between, OfPair
<1>2. \A id \in Owned(a, f) \union Owned(f, a) : store'[id] = store[id]
  BY DEF Owned, OfPair
<1>3. Owned(a, f) \subseteq Owned(a, f)' /\ Owned(f, a) \subseteq Owned(f, a)'
  BY <1>2 DEF Owned
<1>. DEFINE sides == asked \intersect Both({a, f})
<1>4. CASE sides = {}
  BY <1>1, <1>4 DEF Agree
<1>5. CASE sides # {}
  <2>1. PICK m \in Owned(a, f), t \in Owned(f, a) :
          /\ Between({a, f}) = {m, t}
          /\ store[m].status = store[t].status
          /\ store[m].status = "ACCEPTED" <=> sides = Both({a, f})
          /\ {store[m].direction, store[t].direction} = {"INBOUND", "OUTBOUND"}
          /\ store[m].status = "PENDING" =>
               (store[m].direction = "OUTBOUND" <=> <<a, f>> \in sides)
    BY <1>5 DEF Agree
  <2>2. store'[m] = store[m] /\ store'[t] = store[t] /\ m \in Owned(a, f)' /\ t \in Owned(f, a)'
    BY <1>2, <1>3
  <2>3. asked' \intersect Both({a, f}) = sides /\ Between({a, f})' = {m, t}
    BY <1>1, <2>1
  <2>. HIDE DEF sides
  <2>. QED  BY <1>5, <2>1, <2>2, <2>3 DEF Agree
<1>. QED  BY <1>4, <1>5

(* m and t are the two records of a pair, and say what was answered.       *)
Mirrors(m, t, a, f) ==
  /\ m \in Owned(a, f) /\ t \in Owned(f, a) /\ Between({a, f}) = {m, t}
  /\ store[m].status = store[t].status
  /\ asked \intersect Both({a, f}) # {}
  /\ store[m].status = "ACCEPTED" <=> asked \intersect Both({a, f}) = Both({a, f})
  /\ {store[m].direction, store[t].direction} = {"INBOUND", "OUTBOUND"}
  /\ store[m].status = "PENDING" =>
       (store[m].direction = "OUTBOUND" <=> <<a, f>> \in asked \intersect Both({a, f}))

(* A pair that agrees and has a record has two that mirror each other, and *)
(* each side owns one.                                                     *)
LEMMA Mirrored ==
  ASSUME NEW a, NEW f, a # f, Agree(a, f), NEW id \in Between({a, f})
  PROVE  \E m, t : Mirrors(m, t, a, f)
PROOF
<1>1. asked \intersect Both({a, f}) # {}
  BY DEF Agree
<1>. QED  BY <1>1 DEF Agree, Mirrors

LEMMA MirrorsOwned ==
  ASSUME NEW a, NEW f, a # f, NEW m, NEW t, Mirrors(m, t, a, f)
  PROVE  m # t /\ Owned(a, f) = {m} /\ Owned(f, a) = {t}
PROOF
<1>1. m # t
  BY DEF Owned, Mirrors
<1>2. Owned(a, f) \union Owned(f, a) \subseteq {m, t}
  BY DEF Owned, Between, Mirrors
<1>3. Owned(a, f) \intersect Owned(f, a) = {}
  BY DEF Owned
<1>. QED  BY <1>1, <1>2, <1>3 DEF Mirrors

-----------------------------------------------------------------------------
(* Steps of one request and the pairs of others. *)

(* What one request may write is of its own pair, and no other holds it.   *)
LEMMA Writable ==
  ASSUME IInv, HeldInv, NEW c \in Slots, request[c].step # "idle",
         NEW id \in Held(request[c]) \union generateID
  PROVE  /\ store[id] = NoRecord \/ OfPair(id, Pair(c))
         /\ \A d \in Slots : request[d].step # "idle" /\ Pair(d) # Pair(c) => id \notin Held(request[d])
PROOF BY DEF HeldInv, generateID, OfPair

(* NoRecord is of no pair of accounts.                                     *)
LEMMA NoRecordOfPair ==
  ASSUME NEW p \in SUBSET Accounts
  PROVE  {NoRecord.owner, NoRecord.friend} # p
PROOF
<1>1. {NoRecord.owner, NoRecord.friend} = {None}
  BY DEF NoRecord
<1>. QED  BY <1>1, NoneAssumption

(* A request that knows as much of the store as before is still midway.    *)
LEMMA MidwayUnchanged ==
  ASSUME IInv, NEW d \in Slots, request[d].step # "idle", Midway(d),
         NEW r, r = request'[d], r.alone,
         r.step = request[d].step, r.from = request[d].from, r.to = request[d].to,
         r.mine = request[d].mine, r.was = request[d].was,
         r.theirs = request[d].theirs, r.wasTheirs = request[d].wasTheirs,
         NEW p, p = Pair(d),
         \A id \in Ids : OfPair(id, p)' <=> OfPair(id, p),
         \A id \in Ids : OfPair(id, p) => store'[id] = store[id],
         asked' \intersect Both(p) = asked \intersect Both(p)
  PROVE  Midway(d)'
PROOF
<1>a. PICK a \in Accounts, f \in Accounts : a = request[d].from /\ f = request[d].to
  BY Running
<1>t. /\ TypeOK /\ request[d] \in Request /\ Informed(request[d])
      /\ p = {a, f}
  BY <1>a, Running
<1>1. Pair(d)' = p
  BY DEF Pair
<1>2. Between(p)' = Between(p)
  BY DEF Between, OfPair
<1>3. {f, a} = {a, f}
  OBVIOUS
<1>4. Agree(a, f) => Agree(a, f)'
  BY <1>t, AgreeUnchanged
<1>5. /\ Owned(a, f)' = Owned(a, f) /\ Owned(f, a)' = Owned(f, a)
      /\ \A id \in Owned(a, f) \union Owned(f, a) : store'[id] = store[id]
  <2>1. \A id \in Ids : OfPair(id, {a, f})' <=> OfPair(id, {a, f})
    BY <1>t
  <2>2. \A id \in Ids : OfPair(id, {a, f}) => store'[id] = store[id]
    BY <1>t
  <2>3. \A id \in Ids : OfPair(id, {a, f})' <=> {store'[id].owner, store'[id].friend} = {a, f}
    BY DEF OfPair
  <2>4. \A id \in Ids : (store[id].owner = a /\ store[id].friend = f <=> store'[id].owner = a /\ store'[id].friend = f)
                     /\ (store[id].owner = f /\ store[id].friend = a <=> store'[id].owner = f /\ store'[id].friend = a)
    BY <1>3, <2>1, <2>2, <2>3 DEF OfPair
  <2>. QED  BY <1>3, <2>2, <2>4 DEF Owned, OfPair
<1>6. /\ findFriendRecord(a, f)' = findFriendRecord(a, f)
      /\ findFriendRecord(f, a)' = findFriendRecord(f, a)
  BY <1>5 DEF findFriendRecord
<1>7. \A id \in findFriendRecord(a, f) \union findFriendRecord(f, a) : Read(id)' = Read(id)
  BY <1>5, NoneAssumption DEF Read, findFriendRecord, Owned
<1>8. CASE request[d].step \in {"theirs", "accept", "ask"}
  <2>1. /\ Agree(a, f)' /\ r.mine \in findFriendRecord(a, f)'
        /\ r.was = Read(r.mine)'
    <3>1. Agree(a, f) /\ r.mine \in findFriendRecord(a, f) /\ r.was = Read(r.mine)
      BY <1>a, <1>8 DEF Midway
    <3>. QED  BY <1>4, <1>6, <1>7, <3>1
  <2>2. request[d].step \in {"accept", "ask"} =>
          r.theirs \in findFriendRecord(f, a)' /\ r.wasTheirs = Read(r.theirs)'
    <3>. HAVE request[d].step \in {"accept", "ask"}
    <3>1. r.theirs \in findFriendRecord(f, a) /\ r.wasTheirs = Read(r.theirs)
      BY <1>a DEF Midway
    <3>. QED  BY <1>6, <1>7, <3>1
  <2>3. /\ request[d].step = "accept" => Accepts(r.was, r.wasTheirs)
        /\ request[d].step = "ask" => Asks(r.was, r.wasTheirs)
    BY DEF Midway
  <2>. QED  BY <1>a, <1>8, <2>1, <2>2, <2>3 DEF Midway
<1>9. CASE request[d].step = "acceptTheirs"
  <2>1. /\ {r.mine, r.theirs} \subseteq Ids /\ r.mine # r.theirs
        /\ store[r.mine] = [r.was EXCEPT !.status = "ACCEPTED"] /\ r.was.direction = "INBOUND"
        /\ store[r.theirs] = r.wasTheirs /\ r.wasTheirs.direction = "OUTBOUND"
        /\ Between(Pair(d)) = {r.mine, r.theirs}
        /\ asked \intersect Both(Pair(d)) = {<<r.to, r.from>>}
    BY <1>9 DEF Midway
  <2>2. OfPair(r.mine, p) /\ OfPair(r.theirs, p)
    BY <2>1 DEF OfPair, Between
  <2>3. store'[r.mine] = store[r.mine] /\ store'[r.theirs] = store[r.theirs]
    BY <2>1, <2>2
  <2>. QED  BY <1>1, <1>2, <1>9, <2>1, <2>3 DEF Midway
<1>10. CASE request[d].step = "askTheirs"
  <2>1. PICK m \in Ids : /\ Between(Pair(d)) = {m}
                         /\ store[m] = [owner |-> r.from, friend |-> r.to, status |-> "PENDING",
                                        direction |-> "OUTBOUND"]
    BY <1>10 DEF Midway
  <2>2. store'[m] = store[m]
    BY <2>1 DEF OfPair, Between
  <2>3. asked \intersect Both(Pair(d)) = {}
    BY <1>10 DEF Midway
  <2>. QED  BY <1>1, <1>2, <1>10, <2>1, <2>2, <2>3 DEF Midway
<1>11. CASE request[d].step = "delete"
  BY <1>11 DEF Midway
<1>. QED  BY <1>t, <1>8, <1>9, <1>10, <1>11 DEF Request, Steps

(* What a step of one request leaves of the records of other pairs.        *)
LEMMA OthersUnchanged ==
  ASSUME IInv, HeldInv, NEW c \in Slots, request[c].step # "idle", NEW p, p = Pair(c),
         \A id \in Ids : store'[id] = store[id] \/
           /\ id \in Held(request[c]) \union generateID
           /\ store'[id] = NoRecord \/ {store'[id].owner, store'[id].friend} = p,
         NEW q \in SUBSET Accounts, q # p
  PROVE  /\ \A id \in Ids : OfPair(id, q)' <=> OfPair(id, q)
         /\ \A id \in Ids : OfPair(id, q) => store'[id] = store[id]
PROOF
<1>1. SUFFICES ASSUME NEW id \in Ids, store'[id] # store[id]
               PROVE  ~ OfPair(id, q) /\ ~ OfPair(id, q)'
  <2>1. \A id \in Ids : store'[id] = store[id] => (OfPair(id, q)' <=> OfPair(id, q))
    BY DEF OfPair
  <2>. QED  BY <2>1
<1>2. id \in Held(request[c]) \union generateID
  BY <1>1
<1>3. store[id] = NoRecord \/ OfPair(id, p)
  BY <1>2, Writable
<1>4. ~ OfPair(id, q)
  BY <1>3, NoRecordOfPair DEF OfPair
<1>5. {store'[id].owner, store'[id].friend} # q
  BY <1>1, NoRecordOfPair
<1>. QED  BY <1>4, <1>5 DEF OfPair

(* A step of one request keeps what is so of all pairs if it keeps what is *)
(* so of its own.                                                          *)
LEMMA PairStep ==
  ASSUME IInv, PairInv, TypeOK', NEW c \in Slots, request[c].step # "idle",
         NEW r \in Request, request' = [request EXCEPT ![c] = r],
         NEW a \in Accounts, NEW f \in Accounts, a = request[c].from, f = request[c].to,
         NEW p, p = Pair(c),
         r.step # "idle" => r.from = a /\ r.to = f,
         \A id \in Held(r) : id \in Held(request[c]) \/ OfPair(id, p),
         \A id \in Ids : store'[id] = store[id] \/
           /\ id \in Held(request[c]) \union generateID
           /\ store'[id] = NoRecord \/ {store'[id].owner, store'[id].friend} = p,
         asked' \ Both(p) = asked \ Both(p),
         \A q : q # p => (q \in contested' <=> q \in contested),
         p \notin contested' => p \notin contested \/ Busy(p) = {c},
         r.step # "idle" /\ p \notin contested' => Midway(c)',
         r.step = "idle" /\ p \notin contested' => Agree(a, f)'
  PROVE  PairInv'
PROOF
<1>t. TypeOK /\ Informed(request[c]) /\ p = {a, f} /\ a # f /\ HeldInv /\ RecordsAgree
  BY Running DEF PairInv, Informed
<1>1. \A d \in Slots : request'[d] = IF d = c THEN r ELSE request[d]
  BY <1>t DEF TypeOK
<1>2. \A q \in SUBSET Accounts : q # p =>
        /\ \A id \in Ids : OfPair(id, q)' <=> OfPair(id, q)
        /\ \A id \in Ids : OfPair(id, q) => store'[id] = store[id]
  <2>1. ASSUME NEW q \in SUBSET Accounts, q # p
        PROVE  /\ \A id \in Ids : OfPair(id, q)' <=> OfPair(id, q)
               /\ \A id \in Ids : OfPair(id, q) => store'[id] = store[id]
    <3>1. HeldInv /\ q \in SUBSET Accounts /\ q # p
      BY <1>t, <2>1
    <3>2. \A id \in Ids : store'[id] = store[id] \/
           /\ id \in Held(request[c]) \union generateID
           /\ store'[id] = NoRecord \/ {store'[id].owner, store'[id].friend} = p
      OBVIOUS
    <3>. QED  BY ONLY <3>1, <3>2, IInv, c \in Slots, request[c].step # "idle", p = Pair(c), OthersUnchanged
  <2>. QED  BY <2>1
<1>3. ASSUME NEW d \in Slots, request'[d].step # "idle", d # c
      PROVE  /\ request'[d] = request[d] /\ request[d].step # "idle"
             /\ Pair(d)' = Pair(d) /\ Pair(d) \in SUBSET Accounts
  <2>1. request'[d] = request[d] /\ request[d].step # "idle"
    BY <1>1, <1>3
  <2>. QED  BY <2>1, Running DEF Pair
<1>4. r.step # "idle" => Pair(c)' = p
  BY <1>1, <1>t DEF Pair
<1>5. \A id \in Ids : OfPair(id, p) => OfPair(id, p)' \/ store'[id] = NoRecord
  BY DEF OfPair
<1>i. \A d \in Slots : Held(request[d]) \subseteq Ids
  BY <1>t DEF TypeOK, Request, Held
<1>j. Held(r) \subseteq Ids
  BY DEF Request, Held
<1>6. HeldInv'
  <2>1. ASSUME NEW d \in Slots, request'[d].step # "idle", NEW id \in Held(request'[d])
        PROVE  store'[id] = NoRecord \/ OfPair(id, Pair(d))'
    <3>1. CASE d = c
      <4>1. id \in Ids /\ (id \in Held(request[c]) \/ OfPair(id, p)) /\ Pair(d)' = p
        BY <1>1, <1>4, <1>j, <2>1, <3>1
      <4>2. store[id] = NoRecord \/ OfPair(id, p)
        BY <4>1, <1>t, Writable
      <4>3. store'[id] = NoRecord \/ OfPair(id, p)'
        BY <4>1, <4>2, <1>5 DEF OfPair
      <4>. QED  BY <4>1, <4>3 DEF OfPair
    <3>2. CASE d # c
      <4>0. request'[d] = request[d] /\ request[d].step # "idle" /\ Pair(d)' = Pair(d)
        BY <1>3, <2>1, <3>2
      <4>1. id \in Ids /\ (store[id] = NoRecord \/ OfPair(id, Pair(d)))
        BY <1>t, <1>i, <2>1, <4>0 DEF HeldInv, OfPair
      <4>2. CASE store'[id] = store[id]
        BY <4>0, <4>1, <4>2 DEF OfPair
      <4>3. CASE store'[id] # store[id]
        <5>1. id \in Held(request[c]) \union generateID
          BY <4>1, <4>3
        <5>2. Pair(d) = p
          BY <1>t, <2>1, <4>0, <5>1, Writable
        <5>. QED  BY <4>0, <4>1, <4>3, <5>2 DEF OfPair
      <4>. QED  BY <4>2, <4>3
    <3>. QED  BY <3>1, <3>2
  <2>2. ASSUME NEW d \in Slots, request'[d].step # "idle", d # c, r.step # "idle", Pair(d) # p,
               NEW id \in Held(r), id \in Held(request[d])
        PROVE  FALSE
    <3>0. request[d].step # "idle" /\ Pair(d) \in SUBSET Accounts /\ id \in Ids
      BY <1>3, <1>j, <2>2
    <3>1. CASE id \in Held(request[c])
      BY <1>t, <2>2, <3>0, <3>1, Writable
    <3>2. CASE OfPair(id, p)
      <4>1. store[id] = NoRecord \/ OfPair(id, Pair(d))
        BY <1>t, <2>2, <3>0 DEF HeldInv, OfPair
      <4>2. p \in SUBSET Accounts
        BY <1>t
      <4>. QED  BY <2>2, <3>2, <4>1, <4>2, NoRecordOfPair DEF OfPair
    <3>. QED  BY <2>2, <3>1, <3>2
  <2>3. ASSUME NEW d \in Slots, NEW e \in Slots, request'[d].step # "idle",
               request'[e].step # "idle", Pair(d)' # Pair(e)'
        PROVE  Held(request'[d]) \intersect Held(request'[e]) = {}
    <3>1. CASE d # c /\ e # c
      <4>1. /\ request'[d] = request[d] /\ request[d].step # "idle" /\ Pair(d)' = Pair(d)
            /\ request'[e] = request[e] /\ request[e].step # "idle" /\ Pair(e)' = Pair(e)
        BY <1>3, <2>3, <3>1
      <4>. QED  BY <1>t, <2>3, <4>1 DEF HeldInv
    <3>2. CASE d = c /\ e # c
      <4>1. request'[e] = request[e] /\ Pair(e)' = Pair(e) /\ request'[d] = r /\ Pair(d)' = p
        BY <1>1, <1>3, <1>4, <2>3, <3>2
      <4>. QED  BY <2>2, <2>3, <3>2, <4>1
    <3>3. CASE d # c /\ e = c
      <4>1. request'[d] = request[d] /\ Pair(d)' = Pair(d) /\ request'[e] = r /\ Pair(e)' = p
        BY <1>1, <1>3, <1>4, <2>3, <3>3
      <4>. QED  BY <2>2, <2>3, <3>3, <4>1
    <3>. QED  BY <2>3, <3>1, <3>2, <3>3
  <2>. QED  BY <2>1, <2>3 DEF HeldInv, OfPair, Held
<1>7. RecordsAgree'
  <2>. SUFFICES ASSUME NEW x \in Accounts, NEW y \in Accounts, x # y,
                       Busy({x, y})' = {}, {x, y} \notin contested'
                PROVE  Agree(x, y)'
    BY DEF RecordsAgree
  <2>1. CASE {x, y} = p
    <3>1. r.step = "idle"
      BY <1>1, <1>4, <2>1 DEF Busy
    <3>2. Agree(a, f)' /\ Agree(f, a)'
      <4>1. Agree(a, f)'
        BY <2>1, <3>1
      <4>2. AgreeBothWays'
        BY BothWays, PTL
      <4>. QED  BY <1>t, <4>1, <4>2 DEF AgreeBothWays
    <3>3. (x = a /\ y = f) \/ (x = f /\ y = a)
      BY <1>t, <2>1
    <3>. QED  BY <3>2, <3>3
  <2>2. CASE {x, y} # p
    <3>1. Busy({x, y}) = {}
      <4>. SUFFICES ASSUME NEW d \in Slots, request[d].step # "idle", Pair(d) = {x, y}
                    PROVE  FALSE
        BY DEF Busy
      <4>1. d # c
        BY <2>2
      <4>2. request'[d] = request[d]
        BY <1>1, <4>1
      <4>3. Pair(d)' = {x, y}
        BY <4>2 DEF Pair
      <4>. QED  BY <4>2, <4>3 DEF Busy
    <3>2. Agree(x, y)
      BY <1>t, <2>2, <3>1 DEF RecordsAgree
    <3>3. asked' \intersect Both({x, y}) = asked \intersect Both({x, y})
      <4>1. Both({x, y}) \intersect Both(p) = {}
        BY <1>t, <2>2 DEF Both
      <4>. QED  BY <4>1
    <3>4. {x, y} \in SUBSET Accounts
      OBVIOUS
    <3>5. /\ \A id \in Ids : OfPair(id, {x, y})' <=> OfPair(id, {x, y})
          /\ \A id \in Ids : OfPair(id, {x, y}) => store'[id] = store[id]
      BY <1>2, <2>2, <3>4
    <3>. QED  BY <3>2, <3>3, <3>5, AgreeUnchanged
  <2>. QED  BY <2>1, <2>2
<1>8. ASSUME NEW d \in Slots, request'[d].step # "idle", Pair(d)' \notin contested'
      PROVE  Midway(d)'
  <2>1. CASE d = c
    BY <1>1, <1>4, <1>8, <2>1
  <2>2. CASE d # c
    <3>0. /\ request'[d] = request[d] /\ request[d].step # "idle"
          /\ Pair(d)' = Pair(d) /\ Pair(d) \in SUBSET Accounts
      BY <1>3, <1>8, <2>2
    <3>1. Pair(d) # p
      <4>. SUFFICES ASSUME Pair(d) = p PROVE FALSE
        OBVIOUS
      <4>1. d \in Busy(p) /\ c \in Busy(p)
        BY <3>0 DEF Busy
      <4>2. p \notin contested
        BY <1>8, <2>2, <3>0, <4>1
      <4>3. request[d].alone
        BY <3>0, <4>2 DEF PairInv, Midway
      <4>4. Undisturbed(d)
        BY <3>0, <4>3 DEF IInv
      <4>. QED  BY <2>2, <4>1, <4>4 DEF Undisturbed
    <3>2. Midway(d)
      BY <1>8, <3>0, <3>1 DEF PairInv
    <3>3. request[d].alone
      BY <3>2 DEF Midway
    <3>4. PICK q \in SUBSET Accounts : q = Pair(d)
      BY <3>0
    <3>5. asked' \intersect Both(q) = asked \intersect Both(q)
      <4>1. Both(q) \intersect Both(p) = {}
        <5>1. PICK x, y : q = {x, y}
          BY <3>4 DEF Pair
        <5>. QED  BY <1>t, <3>1, <3>4, <5>1 DEF Both
      <4>. QED  BY <4>1
    <3>6. /\ \A id \in Ids : OfPair(id, q)' <=> OfPair(id, q)
          /\ \A id \in Ids : OfPair(id, q) => store'[id] = store[id]
      BY <1>2, <3>1, <3>4
    <3>7. PICK s : s = request'[d]
      OBVIOUS
    <3>. QED  BY <3>0, <3>2, <3>3, <3>4, <3>5, <3>6, <3>7, MidwayUnchanged
  <2>. QED  BY <2>1, <2>2
<1>. QED  BY <1>6, <1>7, <1>8 DEF PairInv

(* So does a request that begins: its pair agrees, or is contested now.    *)
LEMMA PairBegin ==
  ASSUME IInv, PairInv, NEW c \in Slots, NEW r \in Request, r.step \in {"theirs", "delete"},
         Begin(c, r), store' = store, asked' = asked,
         NEW a \in Accounts, NEW f \in Accounts, a # f, r.from = a, r.to = f,
         \A id \in Held(r) : OfPair(id, {a, f}),
         r.step = "theirs" => r.mine \in findFriendRecord(a, f) /\ r.was = Read(r.mine)
  PROVE  PairInv'
PROOF
<1>. DEFINE p == {a, f}
<1>t. TypeOK /\ HeldInv /\ RecordsAgree
  BY DEF IInv, PairInv
<1>0. \A d \in Slots : request[d] \in Request
  BY <1>t DEF TypeOK
<1>1. \A d \in Slots : request'[d] =
         IF d = c THEN [r EXCEPT !.alone = Busy(p) = {}]
         ELSE IF d \in Busy(p) THEN [request[d] EXCEPT !.alone = FALSE] ELSE request[d]
  BY DEF Begin
<1>2. request[c].step = "idle" /\ contested' = IF Busy(p) = {} THEN contested ELSE contested \union {p}
  BY DEF Begin
<1>3. /\ Pair(c)' = p /\ request'[c].step = r.step /\ Held(request'[c]) = Held(r)
      /\ request'[c].alone = (Busy(p) = {}) /\ request'[c].mine = r.mine
      /\ request'[c].was = r.was /\ request'[c].from = a /\ request'[c].to = f
  <2>1. request'[c] = [r EXCEPT !.alone = Busy(p) = {}]
    BY <1>1
  <2>. QED  BY <2>1 DEF Request, Held, Pair
<1>4. ASSUME NEW d \in Slots \ {c}
      PROVE  /\ Pair(d)' = Pair(d) /\ request'[d].step = request[d].step
             /\ Held(request'[d]) = Held(request[d])
             /\ d \notin Busy(p) => request'[d] = request[d]
  <2>1. request'[d] = request[d] \/ request'[d] = [request[d] EXCEPT !.alone = FALSE]
    BY <1>1
  <2>2. Pair(d)' = {request'[d].from, request'[d].to}
    BY DEF Pair
  <2>3. d \notin Busy(p) => request'[d] = request[d]
    BY <1>1
  <2>4. CASE request'[d] = request[d]
    BY <2>2, <2>3, <2>4 DEF Pair
  <2>5. CASE request'[d] = [request[d] EXCEPT !.alone = FALSE]
    <3>1. /\ request'[d].from = request[d].from /\ request'[d].to = request[d].to
          /\ request'[d].step = request[d].step /\ request'[d].mine = request[d].mine
          /\ request'[d].theirs = request[d].theirs /\ request'[d].todo = request[d].todo
      BY <1>0, <2>5 DEF Request
    <3>. QED  BY <2>2, <2>3, <3>1 DEF Pair, Held
  <2>. QED  BY <2>1, <2>4, <2>5
<1>5. \A q, id : OfPair(id, q)' <=> OfPair(id, q)
  BY DEF OfPair
<1>6. ASSUME NEW d \in Slots \ {c}, request[d].step # "idle", Pair(d) # p, NEW id \in Held(r), id \in Held(request[d])
      PROVE  FALSE
  <2>1. store[id] = NoRecord \/ OfPair(id, Pair(d))
    BY <1>t, <1>6 DEF HeldInv, OfPair
  <2>2. OfPair(id, p) /\ p \in SUBSET Accounts
    BY <1>6
  <2>. QED  BY <1>6, <2>1, <2>2, NoRecordOfPair DEF OfPair
<1>7. HeldInv'
  <2>1. ASSUME NEW d \in Slots, request'[d].step # "idle", NEW id \in Held(request'[d])
        PROVE  store'[id] = NoRecord \/ OfPair(id, Pair(d)')
    <3>1. CASE d = c
      BY <1>3, <2>1, <3>1
    <3>2. CASE d # c
      <4>1. request[d].step # "idle" /\ id \in Held(request[d]) /\ Pair(d)' = Pair(d)
        BY <1>4, <2>1, <3>2
      <4>. QED  BY <1>t, <4>1 DEF HeldInv, OfPair
    <3>. QED  BY <3>1, <3>2
  <2>2. ASSUME NEW d \in Slots, NEW e \in Slots, request'[d].step # "idle",
               request'[e].step # "idle", Pair(d)' # Pair(e)'
        PROVE  Held(request'[d]) \intersect Held(request'[e]) = {}
    <3>1. CASE d # c /\ e # c
      <4>1. /\ request[d].step # "idle" /\ Pair(d)' = Pair(d) /\ Held(request'[d]) = Held(request[d])
            /\ request[e].step # "idle" /\ Pair(e)' = Pair(e) /\ Held(request'[e]) = Held(request[e])
        BY <1>4, <2>2, <3>1
      <4>. QED  BY <1>t, <2>2, <4>1 DEF HeldInv
    <3>2. CASE d = c /\ e # c
      <4>1. request[e].step # "idle" /\ Pair(e)' = Pair(e) /\ Held(request'[e]) = Held(request[e])
        BY <1>4, <2>2, <3>2
      <4>2. Pair(d)' = p /\ Held(request'[d]) = Held(r)
        BY <1>3, <3>2
      <4>. QED  BY <1>6, <2>2, <3>2, <4>1, <4>2
    <3>3. CASE d # c /\ e = c
      <4>1. request[d].step # "idle" /\ Pair(d)' = Pair(d) /\ Held(request'[d]) = Held(request[d])
        BY <1>4, <2>2, <3>3
      <4>2. Pair(e)' = p /\ Held(request'[e]) = Held(r)
        BY <1>3, <3>3
      <4>. QED  BY <1>6, <2>2, <3>3, <4>1, <4>2
    <3>. QED  BY <2>2, <3>1, <3>2, <3>3
  <2>3. ASSUME NEW d \in Slots, request'[d].step # "idle", NEW id \in Held(request'[d])
        PROVE  store'[id] = NoRecord \/ {store'[id].owner, store'[id].friend} = Pair(d)'
    BY <2>1, <2>3 DEF OfPair
  <2>. QED  BY <2>2, <2>3 DEF HeldInv, Held
<1>8. ASSUME NEW x, NEW y, Agree(x, y) PROVE Agree(x, y)'
  <2>1. asked' \intersect Both({x, y}) = asked \intersect Both({x, y})
    OBVIOUS
  <2>2. \A id \in Ids : OfPair(id, {x, y}) => store'[id] = store[id]
    OBVIOUS
  <2>3. \A id \in Ids : OfPair(id, {x, y})' <=> OfPair(id, {x, y})
    BY <1>5
  <2>. QED  BY <1>8, <2>1, <2>2, <2>3, AgreeUnchanged
<1>9. RecordsAgree'
  <2>. SUFFICES ASSUME NEW x \in Accounts, NEW y \in Accounts, x # y,
                       Busy({x, y})' = {}, {x, y} \notin contested'
                PROVE  Agree(x, y)'
    BY DEF RecordsAgree
  <2>1. {x, y} # p
    BY <1>3 DEF Busy
  <2>2. Busy({x, y}) = {}
    <3>. SUFFICES ASSUME NEW d \in Slots, request[d].step # "idle", Pair(d) = {x, y}
                  PROVE  FALSE
      BY DEF Busy
    <3>1. request'[d].step # "idle" /\ Pair(d)' = {x, y}
      BY <1>2, <1>4
    <3>. QED  BY <3>1 DEF Busy
  <2>3. {x, y} \notin contested
    BY <1>2
  <2>. QED  BY <1>t, <1>8, <2>2, <2>3 DEF RecordsAgree
<1>10. ASSUME NEW d \in Slots, request'[d].step # "idle", Pair(d)' \notin contested'
       PROVE  Midway(d)'
  <2>1. CASE d = c
    <3>1. Busy(p) = {} /\ p \notin contested /\ request'[c].alone
      BY <1>2, <1>3, <1>10, <2>1
    <3>2. Agree(a, f)'
      BY <1>t, <1>8, <3>1 DEF RecordsAgree
    <3>3. CASE r.step = "delete"
      BY <1>3, <2>1, <3>1, <3>3 DEF Midway
    <3>4. CASE r.step = "theirs"
      <4>1. r.mine \in findFriendRecord(a, f)' /\ r.was = Read(r.mine)'
        BY <3>4 DEF findFriendRecord, Owned, Read
      <4>. QED  BY <1>3, <2>1, <3>1, <3>2, <3>4, <4>1 DEF Midway
    <3>. QED  BY <3>3, <3>4
  <2>2. CASE d # c
    <3>1. Pair(d)' = Pair(d) /\ request[d].step # "idle" /\ Pair(d) \notin contested
      BY <1>2, <1>4, <1>10, <2>2
    <3>2. Pair(d) # p
      <4>. SUFFICES ASSUME Pair(d) = p PROVE FALSE
        OBVIOUS
      <4>1. d \in Busy(p)
        BY <3>1 DEF Busy
      <4>. QED  BY <1>2, <1>10, <3>1, <4>1
    <3>3. request'[d] = request[d]
      BY <1>4, <2>2, <3>2 DEF Busy
    <3>4. Midway(d) /\ request[d].alone
      BY <3>1 DEF PairInv, Midway
    <3>5. PICK s, q : s = request'[d] /\ q = Pair(d)
      OBVIOUS
    <3>6. \A id \in Ids : OfPair(id, q)' <=> OfPair(id, q)
      BY <1>5
    <3>7. /\ \A id \in Ids : OfPair(id, q) => store'[id] = store[id]
          /\ asked' \intersect Both(q) = asked \intersect Both(q)
      OBVIOUS
    <3>. QED  BY <3>1, <3>3, <3>4, <3>5, <3>6, <3>7, MidwayUnchanged
  <2>. QED  BY <2>1, <2>2
<1>. QED  BY <1>7, <1>9, <1>10 DEF PairInv

LEMMA AgreeSame ==
  ASSUME NEW x, NEW y, Agree(x, y), store' = store, asked' = asked
  PROVE  Agree(x, y)'
PROOF
<1>1. \A id \in Ids : OfPair(id, {x, y})' <=> OfPair(id, {x, y})
  BY DEF OfPair
<1>. QED  BY <1>1, AgreeUnchanged

(* A request that ends without a write leaves its pair as it is.           *)
LEMMA PairFinish ==
  ASSUME IInv, IInv', PairInv, NEW c \in Slots, request[c].step \in {"theirs", "accept", "ask"},
         Finish(c), UNCHANGED <<store, asked, contested>>
  PROVE  PairInv'
PROOF
<1>1. PICK a \in Accounts, f \in Accounts, p \in {Pair(c)} : a = request[c].from /\ f = request[c].to /\ p = Pair(c)
  BY Running
<1>2. PICK r : r = Idle
  OBVIOUS
<1>3. r \in Request /\ r.step = "idle" /\ Held(r) = {} /\ request' = [request EXCEPT ![c] = r]
  BY <1>2 DEF Idle, Knowing, Request, Steps, Held, Finish
<1>4. p \notin contested' => Agree(a, f)'
  <2>. HAVE p \notin contested'
  <2>1. Agree(a, f)
    BY <1>1 DEF PairInv, Midway
  <2>. QED  BY <2>1, AgreeSame
<1>5. TypeOK'
  BY DEF IInv
<1>. QED  BY <1>1, <1>3, <1>4, <1>5, PairStep

LEMMA AddPublicFriendPair ==
  ASSUME IInv, PairInv, NEW c \in Slots, NEW a \in Accounts, NEW f \in Accounts,
         AddPublicFriend(c, a, f)
  PROVE  PairInv'
PROOF
<1>t. TypeOK
  BY DEF IInv
<1>1. PICK id \in findFriendRecord(a, f) :
        Begin(c, Knowing("theirs", a, f, id, Read(id), {}))
  BY DEF AddPublicFriend
<1>r. PICK r : r = Knowing("theirs", a, f, id, Read(id), {})
  OBVIOUS
<1>2. Begin(c, r)
  BY <1>1, <1>r
<1>3. /\ id \in Ids \union {None}
      /\ Read(id) \in Record \union {NoRecord}
      /\ id # None => Read(id) = store[id] /\ store[id].owner = a /\ store[id].friend = f
  BY <1>t, Found
<1>4. r \in Request
  BY <1>3, <1>r DEF Knowing, Request, Steps
<1>5. a # f /\ store' = store /\ asked' = asked
  BY DEF AddPublicFriend
<1>6. /\ r.step = "theirs" /\ r.from = a /\ r.to = f /\ r.mine = id /\ r.was = Read(id)
      /\ Held(r) = {id} \ {None}
  BY <1>r DEF Knowing, Held
<1>7. \A i \in Held(r) : OfPair(i, {a, f})
  BY <1>3, <1>6 DEF OfPair
<1>. QED  BY <1>1, <1>2, <1>4, <1>5, <1>6, <1>7, PairBegin

LEMMA DeleteFriendPair ==
  ASSUME IInv, PairInv, NEW c \in Slots, NEW a \in Accounts, NEW f \in Accounts,
         DeleteFriend(c, a, f)
  PROVE  PairInv'
PROOF
<1>r. PICK r : r = Knowing("delete", a, f, None, NoRecord, Between({a, f}))
  OBVIOUS
<1>1. Begin(c, r) /\ a # f /\ store' = store /\ asked' = asked
  BY <1>r DEF DeleteFriend
<1>2. r \in Request
  BY <1>r DEF Knowing, Request, Steps, Between
<1>3. r.step = "delete" /\ r.from = a /\ r.to = f /\ Held(r) = Between({a, f})
  BY <1>r DEF Knowing, Held
<1>4. \A i \in Held(r) : OfPair(i, {a, f})
  BY <1>3 DEF Between, OfPair
<1>. QED  BY <1>1, <1>2, <1>3, <1>4, PairBegin

LEMMA ReadTheirsPair ==
  ASSUME IInv, IInv', PairInv, NEW c \in Slots, ReadTheirs(c)
  PROVE  PairInv'
PROOF
<1>u. request[c].step = "theirs" /\ UNCHANGED <<store, asked, contested>>
  BY DEF ReadTheirs
<1>t. TypeOK /\ TypeOK' /\ request[c] \in Request
  BY DEF IInv, TypeOK
<1>1. PICK a \in Accounts, f \in Accounts, p \in {Pair(c)} : a = request[c].from /\ f = request[c].to /\ p = Pair(c)
  BY <1>u, Running
<1>2. CASE Finish(c)
  BY <1>u, <1>2, PairFinish
<1>3. ASSUME NEW id \in findFriendRecord(request[c].to, request[c].from),
             NEW step \in {"accept", "ask"},
             request' = [request EXCEPT ![c].step = step, ![c].theirs = id,
                                        ![c].wasTheirs = Read(id)],
             step = "accept" => Accepts(request[c].was, Read(id)),
             step = "ask" => Asks(request[c].was, Read(id))
      PROVE  PairInv'
  <2>r. PICK r : r = [request[c] EXCEPT !.step = step, !.theirs = id, !.wasTheirs = Read(id)]
    OBVIOUS
  <2>1. request' = [request EXCEPT ![c] = r]
    BY <1>3, <2>r
  <2>0. id \in findFriendRecord(f, a)
    BY <1>1, <1>3
  <2>2. /\ id \in Ids \union {None}
        /\ Read(id) \in Record \union {NoRecord}
        /\ id # None => Read(id) = store[id] /\ store[id].owner = f /\ store[id].friend = a
    BY <1>t, <2>0, Found
  <2>3. r \in Request
    BY <1>t, <2>2, <2>r DEF Request, Steps
  <2>4. /\ r.step = step /\ r.theirs = id /\ r.wasTheirs = Read(id)
        /\ r.from = a /\ r.to = f /\ r.mine = request[c].mine /\ r.todo = request[c].todo
        /\ r.was = request[c].was /\ r.alone = request[c].alone
    BY <1>1, <1>t, <2>r DEF Request
  <2>5. \A i \in Held(r) : i \in Held(request[c]) \/ OfPair(i, p)
    <3>1. p = {f, a}
      BY <1>1 DEF Pair
    <3>2. id # None => OfPair(id, p)
      BY <2>2, <3>1 DEF OfPair
    <3>. QED  BY <2>4, <3>2 DEF Held
  <2>6. p \notin contested' => Midway(c)'
    <3>. HAVE p \notin contested'
    <3>1. Midway(c)
      BY <1>1, <1>u DEF PairInv
    <3>2. Agree(a, f) /\ r.mine \in findFriendRecord(a, f) /\ r.was = Read(r.mine) /\ r.alone
      BY <1>1, <1>u, <2>4, <3>1 DEF Midway
    <3>3. Agree(a, f)'
      BY <1>u, <3>2, AgreeSame
    <3>4. r.mine \in findFriendRecord(a, f)' /\ r.was = Read(r.mine)'
          /\ r.theirs \in findFriendRecord(f, a)' /\ r.wasTheirs = Read(r.theirs)'
      BY <1>u, <2>0, <2>4, <3>2 DEF findFriendRecord, Owned, Read
    <3>5. request'[c] = r
      BY <1>t, <2>1 DEF TypeOK
    <3>. QED  BY <1>3, <2>4, <3>2, <3>3, <3>4, <3>5 DEF Midway
  <2>7. r.step # "idle"
    BY <2>4
  <2>. QED  BY <1>u, <1>t, <1>1, <2>1, <2>3, <2>4, <2>5, <2>6, <2>7, PairStep
<1>. QED  BY <1>2, <1>3 DEF ReadTheirs

(* What an uncontested request to accept knows: the two records, pending,  *)
(* of a request of the other side alone.                                   *)
LEMMA AcceptKnows ==
  ASSUME IInv, NEW c \in Slots, request[c].step = "accept", Midway(c),
         NEW a \in Accounts, NEW f \in Accounts, a = request[c].from, f = request[c].to,
         NEW mine, NEW theirs, mine = request[c].mine, theirs = request[c].theirs,
         NEW p, p = {a, f}
  PROVE  /\ mine \in Ids /\ theirs \in Ids /\ mine # theirs
         /\ request[c].was = store[mine] /\ request[c].wasTheirs = store[theirs]
         /\ store[mine].owner = a /\ store[mine].friend = f
         /\ store[theirs].owner = f /\ store[theirs].friend = a
         /\ store[mine].direction = "INBOUND" /\ store[theirs].direction = "OUTBOUND"
         /\ Between(p) = {mine, theirs}
         /\ asked \intersect Both(p) = {<<f, a>>}
PROOF
<1>t. TypeOK /\ a # f
  BY Running DEF Informed
<1>1. /\ Agree(a, f) /\ mine \in findFriendRecord(a, f) /\ request[c].was = Read(mine)
      /\ theirs \in findFriendRecord(f, a) /\ request[c].wasTheirs = Read(theirs)
      /\ Accepts(request[c].was, request[c].wasTheirs)
  BY DEF Midway
<1>2. Read(mine) # NoRecord /\ Read(mine).status = "PENDING" /\ Read(mine).direction = "INBOUND"
  BY <1>1 DEF Accepts
<1>3. mine \in Ids /\ Read(mine) = store[mine] /\ mine \in Owned(a, f)
  <2>1. mine # None
    BY <1>2 DEF Read
  <2>. QED  BY <1>1, <2>1 DEF findFriendRecord, Owned, Read
<1>4. mine \in Between(p)
  BY <1>3 DEF Owned, Between
<1>5. PICK m, t : Mirrors(m, t, a, f)
  <2>1. mine \in Between({a, f})
    BY <1>4
  <2>. QED  BY <1>t, <1>1, <2>1, Mirrored
<1>o. m # t /\ Owned(a, f) = {m} /\ Owned(f, a) = {t}
  BY <1>t, <1>5, MirrorsOwned
<1>6. mine = m /\ theirs = t
  BY <1>1, <1>3, <1>o DEF findFriendRecord
<1>7. theirs \in Ids /\ theirs # None /\ theirs \in Owned(f, a)
  BY <1>6, <1>o, NoneAssumption DEF Owned
<1>8. Read(theirs) = store[theirs]
  BY <1>7 DEF Read
<1>9. asked \intersect Both(p) = {<<f, a>>}
  <2>1. Both(p) = {<<a, f>>, <<f, a>>}
    BY <1>t DEF Both
  <2>2. store[m].status = "PENDING" /\ store[m].direction # "OUTBOUND"
    BY <1>2, <1>3, <1>6
  <2>3. <<a, f>> \notin asked \intersect Both(p)
    BY <1>5, <2>2 DEF Mirrors
  <2>4. PICK S : S = asked \intersect Both(p)
    OBVIOUS
  <2>5. S # {} /\ <<a, f>> \notin S /\ S \subseteq {<<a, f>>, <<f, a>>}
    BY <1>5, <2>1, <2>3, <2>4 DEF Mirrors
  <2>6. \A x, y : S # {} /\ x \notin S /\ S \subseteq {x, y} => S = {y}
    OBVIOUS
  <2>. QED  BY <2>4, <2>5, <2>6
<1>10. store[theirs].direction = "OUTBOUND"
  BY <1>2, <1>3, <1>5, <1>6 DEF Mirrors
<1>. QED  BY <1>1, <1>2, <1>3, <1>5, <1>o, <1>6, <1>7, <1>8, <1>9, <1>10 DEF Owned, Mirrors

LEMMA AcceptPair ==
  ASSUME IInv, IInv', PairInv, NEW c \in Slots, Accept(c)
  PROVE  PairInv'
PROOF
<1>1. /\ request[c].step = "accept" /\ Save(request[c].mine, request[c].was)
      /\ Goto(c, "acceptTheirs") /\ UNCHANGED <<asked, tried, contested>>
  BY DEF Accept
<1>2. PICK a \in Accounts, f \in Accounts, p \in {Pair(c)},
           mine \in {request[c].mine}, theirs \in {request[c].theirs} :
        /\ a = request[c].from /\ f = request[c].to /\ p = Pair(c)
        /\ mine = request[c].mine /\ theirs = request[c].theirs
  BY <1>1, Running
<1>t. TypeOK /\ TypeOK' /\ request[c] \in Request /\ Informed(request[c]) /\ p = {a, f} /\ a # f
  BY <1>1, <1>2, Running DEF IInv, Informed
<1>3. /\ request[c].was # NoRecord /\ request[c].was \in Record
      /\ request[c].was.owner = a /\ request[c].was.friend = f
  BY <1>1, <1>2, <1>t DEF Informed, Request
<1>4. PICK saved : saved = [request[c].was EXCEPT !.status = "ACCEPTED"]
  OBVIOUS
<1>5. saved.owner = a /\ saved.friend = f /\ saved.status = "ACCEPTED" /\ saved.direction = request[c].was.direction
  BY <1>3, <1>4 DEF Record
<1>6. store' = [store EXCEPT ![mine] = saved]
  BY <1>1, <1>2, <1>4 DEF Save
<1>7. \A id \in Ids : store'[id] = IF id = mine THEN saved ELSE store[id]
  BY <1>6, <1>t DEF TypeOK
<1>8. PICK r : r = [request[c] EXCEPT !.step = "acceptTheirs"]
  OBVIOUS
<1>9. /\ r \in Request /\ request' = [request EXCEPT ![c] = r] /\ request'[c] = r
      /\ r.step = "acceptTheirs" /\ r.from = a /\ r.to = f /\ r.mine = mine /\ r.theirs = theirs
      /\ r.was = request[c].was /\ r.wasTheirs = request[c].wasTheirs
      /\ r.alone = request[c].alone /\ Held(r) = Held(request[c])
  BY <1>1, <1>2, <1>8, <1>t DEF Goto, Request, Steps, Held, TypeOK
<1>10. \A id \in Ids : store'[id] = store[id] \/
         /\ id \in Held(request[c]) \union generateID
         /\ store'[id] = NoRecord \/ {store'[id].owner, store'[id].friend} = p
  <2>. SUFFICES ASSUME mine \in Ids
                PROVE  mine \in Held(request[c])
    BY <1>5, <1>7, <1>t
  <2>. QED  BY <1>2, NoneAssumption DEF Held
<1>11. ASSUME p \notin contested PROVE Midway(c)'
  <2>1. Midway(c)
    BY <1>1, <1>2, <1>11 DEF PairInv
  <2>2. /\ mine \in Ids /\ theirs \in Ids /\ mine # theirs
        /\ request[c].was = store[mine] /\ request[c].wasTheirs = store[theirs]
        /\ store[mine].owner = a /\ store[mine].friend = f
        /\ store[theirs].owner = f /\ store[theirs].friend = a
        /\ store[mine].direction = "INBOUND" /\ store[theirs].direction = "OUTBOUND"
        /\ Between(p) = {mine, theirs}
        /\ asked \intersect Both(p) = {<<f, a>>}
    <3>1. request[c].step = "accept"
      BY <1>1
    <3>2. a = request[c].from /\ f = request[c].to /\ mine = request[c].mine /\ theirs = request[c].theirs
      BY <1>2
    <3>3. p = {a, f}
      BY <1>t
    <3>. QED  BY ONLY IInv, <3>1, <3>3, <3>2, <2>1, AcceptKnows, c \in Slots, a \in Accounts, f \in Accounts
  <2>3. Pair(c)' = p /\ r.alone
    BY <1>9, <1>t, <2>1 DEF Pair, Midway
  <2>4. store'[mine] = saved /\ store'[theirs] = store[theirs]
    BY <1>7, <2>2
  <2>5. \A id \in Ids : {store'[id].owner, store'[id].friend} = p <=> {store[id].owner, store[id].friend} = p
    BY <1>5, <1>7, <2>2
  <2>6. Between(p)' = {mine, theirs}
    BY <1>t, <2>2, <2>5 DEF Between
  <2>7. asked' \intersect Both(p) = {<<f, a>>}
    BY <1>1, <1>t, <2>2
  <2>8. saved = [r.was EXCEPT !.status = "ACCEPTED"] /\ r.was.direction = "INBOUND"
    BY <1>4, <1>9, <2>2
  <2>9. Between(Pair(c))' = {mine, theirs} /\ (asked \intersect Both(Pair(c)))' = {<<f, a>>}
    BY <2>3, <2>6, <2>7 DEF Between, Both
  <2>10. store'[mine] = [request'[c].was EXCEPT !.status = "ACCEPTED"]
    BY <1>9, <2>4, <2>8
  <2>11. store'[theirs] = request'[c].wasTheirs /\ request'[c].wasTheirs.direction = "OUTBOUND"
    BY <1>9, <2>2, <2>4
  <2>. QED  BY <1>9, <2>2, <2>3, <2>8, <2>9, <2>10, <2>11 DEF Midway
<1>12. /\ request[c].step # "idle" /\ r.step # "idle"
       /\ asked' = asked /\ contested' = contested
       /\ \A id \in Held(r) : id \in Held(request[c])
  BY <1>1, <1>9
<1>. QED  BY <1>2, <1>t, <1>9, <1>10, <1>11, <1>12, PairStep

(* What a request answers is asked of its pair only.                       *)
LEMMA AnsweredPair ==
  ASSUME TypeOK, NEW c \in Slots, Answered(c), NEW a, NEW f, NEW p, a # f,
         a = request[c].from, f = request[c].to, p = {a, f}
  PROVE  /\ asked' \ Both(p) = asked \ Both(p) /\ contested' = contested
         /\ Both(p) = {<<a, f>>, <<f, a>>}
         /\ asked' \intersect Both(p) = (asked \intersect Both(p)) \union {<<a, f>>}
         /\ \E r \in Request : /\ r.step = "idle" /\ Held(r) = {}
                               /\ request' = [request EXCEPT ![c] = r]
PROOF
<1>1. asked' = asked \union {<<a, f>>} /\ contested' = contested /\ Finish(c)
  BY DEF Answered
<1>2. Both(p) = {<<a, f>>, <<f, a>>}
  BY DEF Both
<1>3. Idle \in Request /\ Idle.step = "idle" /\ Held(Idle) = {}
  BY DEF Idle, Knowing, Request, Steps, Held
<1>4. \E r \in Request : /\ r.step = "idle" /\ Held(r) = {}
                         /\ request' = [request EXCEPT ![c] = r]
  BY <1>1, <1>3 DEF Finish
<1>. QED  BY <1>1, <1>2, <1>4

LEMMA AcceptTheirsPair ==
  ASSUME IInv, IInv', PairInv, NEW c \in Slots, AcceptTheirs(c)
  PROVE  PairInv'
PROOF
<1>1. request[c].step = "acceptTheirs" /\ Answered(c)
  BY DEF AcceptTheirs
<1>2. PICK a \in Accounts, f \in Accounts, p \in {Pair(c)},
           mine \in {request[c].mine}, theirs \in {request[c].theirs} :
        /\ a = request[c].from /\ f = request[c].to /\ p = Pair(c)
        /\ mine = request[c].mine /\ theirs = request[c].theirs
  BY <1>1, Running
<1>t. TypeOK /\ TypeOK' /\ request[c] \in Request /\ Informed(request[c]) /\ p = {a, f} /\ a # f
  BY <1>1, <1>2, Running DEF IInv, Informed
<1>3. /\ asked' \ Both(p) = asked \ Both(p) /\ contested' = contested
      /\ Both(p) = {<<a, f>>, <<f, a>>}
      /\ asked' \intersect Both(p) = (asked \intersect Both(p)) \union {<<a, f>>}
      /\ \E r \in Request : /\ r.step = "idle" /\ Held(r) = {}
                            /\ request' = [request EXCEPT ![c] = r]
  BY <1>1, <1>2, <1>t, AnsweredPair
<1>4. PICK r \in Request : r.step = "idle" /\ Held(r) = {} /\ request' = [request EXCEPT ![c] = r]
  BY <1>3
<1>5. CASE theirs # None
  <2>1. PICK saved : saved = [request[c].wasTheirs EXCEPT !.status = "ACCEPTED"]
    OBVIOUS
  <2>2. request[c].wasTheirs \in Record /\ request[c].wasTheirs.owner = f /\ request[c].wasTheirs.friend = a
    BY <1>2, <1>5, <1>t DEF Informed, Request
  <2>3. saved.owner = f /\ saved.friend = a /\ saved.status = "ACCEPTED" /\ saved.direction = request[c].wasTheirs.direction
    BY <2>1, <2>2 DEF Record
  <2>4. store' = [store EXCEPT ![theirs] = saved]
    BY <1>2, <1>5, <2>1 DEF AcceptTheirs, Save
  <2>5. \A id \in Ids : store'[id] = IF id = theirs THEN saved ELSE store[id]
    BY <2>4, <1>t DEF TypeOK
  <2>6. \A id \in Ids : store'[id] = store[id] \/
          /\ id \in Held(request[c]) \union generateID
          /\ store'[id] = NoRecord \/ {store'[id].owner, store'[id].friend} = p
    <3>1. theirs \in Held(request[c])
      BY <1>2, <1>5 DEF Held
    <3>. QED  BY <1>t, <2>3, <2>5, <3>1
  <2>7. ASSUME p \notin contested PROVE Agree(a, f)'
    <3>1. Midway(c) /\ Pair(c) = p
      BY <1>1, <1>2, <2>7 DEF PairInv
    <3>2. /\ mine \in Ids /\ theirs \in Ids /\ mine # theirs
          /\ store[mine] = [request[c].was EXCEPT !.status = "ACCEPTED"]
          /\ request[c].was.direction = "INBOUND"
          /\ request[c].wasTheirs.direction = "OUTBOUND" /\ store[theirs] = request[c].wasTheirs
          /\ Between(p) = {mine, theirs} /\ asked \intersect Both(p) = {<<f, a>>}
      BY <1>1, <1>2, <3>1 DEF Midway
    <3>3. request[c].was \in Record /\ request[c].was.owner = a /\ request[c].was.friend = f
      BY <1>1, <1>2, <1>t DEF Informed, Request
    <3>4. /\ store[mine].owner = a /\ store[mine].friend = f
          /\ store[mine].status = "ACCEPTED" /\ store[mine].direction = "INBOUND"
      BY <3>2, <3>3 DEF Record
    <3>5. store'[mine] = store[mine] /\ store'[theirs] = saved
      BY <2>5, <3>2
    <3>6. \A id \in Ids : {store'[id].owner, store'[id].friend} = p <=> {store[id].owner, store[id].friend} = p
      BY <2>2, <2>3, <2>5, <3>2
    <3>7. Between(p)' = {mine, theirs}
      BY <3>2, <3>6 DEF Between
    <3>8. asked' \intersect Both(p) = Both(p)
      BY <1>3, <3>2
    <3>9. <<a, f>> \in Both(p)
      BY <1>3
    <3>10. PICK sides : sides = asked' \intersect Both(p)
      OBVIOUS
    <3>11. sides = Both(p) /\ sides # {}
      BY <3>8, <3>9, <3>10
    <3>12. {store'[mine].direction, store'[theirs].direction} = {"INBOUND", "OUTBOUND"}
      BY <2>3, <3>2, <3>4, <3>5
    <3>13. /\ store'[mine].owner = a /\ store'[mine].friend = f /\ store'[mine].status = "ACCEPTED"
           /\ store'[theirs].owner = f /\ store'[theirs].friend = a /\ store'[theirs].status = "ACCEPTED"
      BY <2>3, <3>4, <3>5
    <3>14. mine \in Owned(a, f)' /\ theirs \in Owned(f, a)' /\ Between({a, f})' = {mine, theirs}
      BY <1>t, <3>2, <3>7, <3>13 DEF Owned
    <3>15. (asked \intersect Both({a, f}))' = sides /\ Both({a, f})' = Both(p)
      BY <1>t, <3>10 DEF Both
    <3>16. Mirrors(mine, theirs, a, f)'
      BY <3>11, <3>12, <3>13, <3>14, <3>15 DEF Mirrors
    <3>. QED  BY <3>16 DEF Agree, Mirrors
  <2>. QED  BY <1>1, <1>2, <1>t, <1>3, <1>4, <2>6, <2>7, PairStep
<1>6. CASE theirs = None
  <2>1. PICK id \in generateID :
          store' = [store EXCEPT ![id] = [owner |-> f, friend |-> a, status |-> "ACCEPTED",
                                          direction |-> "OUTBOUND"]]
    BY <1>2, <1>6 DEF AcceptTheirs, Create
  <2>2. \A i \in Ids : store'[i] = store[i] \/ (i = id /\ {store'[i].owner, store'[i].friend} = p)
    BY <1>t, <2>1 DEF TypeOK
  <2>3. p \in contested
    <3>1. p \notin contested => Midway(c)
      BY <1>1, <1>2 DEF PairInv
    <3>2. ~ Midway(c)
      BY <1>1, <1>2, <1>6, NoneAssumption DEF Midway
    <3>. QED  BY <3>1, <3>2
  <2>4. \A i \in Ids : store'[i] = store[i] \/
          /\ i \in Held(request[c]) \union generateID
          /\ store'[i] = NoRecord \/ {store'[i].owner, store'[i].friend} = p
    BY <2>2
  <2>. QED  BY <1>1, <1>2, <1>t, <1>3, <1>4, <2>3, <2>4, PairStep
<1>. QED  BY <1>5, <1>6

(* A record that is created: of this pair only, under an id of nobody.     *)
LEMMA CreatePair ==
  ASSUME TypeOK, NEW a, NEW f, NEW status, NEW direction, Create(a, f, status, direction),
         NEW p, p = {a, f}, p \in SUBSET Accounts
  PROVE  \E id \in generateID :
           /\ id \in Ids /\ ~ OfPair(id, p)
           /\ store'[id] = [owner |-> a, friend |-> f, status |-> status, direction |-> direction]
           /\ \A i \in Ids : i # id => store'[i] = store[i]
           /\ OfPair(id, p)'
PROOF
<1>1. PICK id \in generateID : store' = [store EXCEPT ![id] =
        [owner |-> a, friend |-> f, status |-> status, direction |-> direction]]
  BY DEF Create
<1>2. id \in Ids /\ store[id] = NoRecord
  BY DEF generateID
<1>3. ~ OfPair(id, p)
  BY <1>2, NoRecordOfPair DEF OfPair
<1>4. store'[id] = [owner |-> a, friend |-> f, status |-> status, direction |-> direction]
  BY <1>1, <1>2 DEF TypeOK
<1>5. \A i \in Ids : i # id => store'[i] = store[i]
  BY <1>1, <1>2 DEF TypeOK
<1>6. OfPair(id, p)'
  BY <1>4 DEF OfPair
<1>. QED  BY <1>2, <1>3, <1>4, <1>5, <1>6

LEMMA AskPair ==
  ASSUME IInv, IInv', PairInv, NEW c \in Slots, Ask(c)
  PROVE  PairInv'
PROOF
<1>1. /\ request[c].step = "ask" /\ Goto(c, "askTheirs") /\ UNCHANGED <<asked, tried, contested>>
      /\ Create(request[c].from, request[c].to, "PENDING", "OUTBOUND")
  BY DEF Ask
<1>2. PICK a \in Accounts, f \in Accounts, p \in {Pair(c)} :
        /\ a = request[c].from /\ f = request[c].to /\ p = Pair(c)
  BY <1>1, Running
<1>t. TypeOK /\ TypeOK' /\ request[c] \in Request /\ Informed(request[c]) /\ p = {a, f} /\ a # f
  BY <1>1, <1>2, Running DEF IInv, Informed
<1>3. PICK id \in generateID :
        /\ id \in Ids /\ ~ OfPair(id, p)
        /\ store'[id] = [owner |-> a, friend |-> f, status |-> "PENDING", direction |-> "OUTBOUND"]
        /\ \A i \in Ids : i # id => store'[i] = store[i]
        /\ OfPair(id, p)'
  <2>1. Create(a, f, "PENDING", "OUTBOUND") /\ p \in SUBSET Accounts
    BY <1>1, <1>2, <1>t
  <2>. QED  BY <1>t, <2>1, CreatePair
<1>4. PICK r : r = [request[c] EXCEPT !.step = "askTheirs"]
  OBVIOUS
<1>5. /\ r \in Request /\ request' = [request EXCEPT ![c] = r] /\ request'[c] = r
      /\ r.step = "askTheirs" /\ r.from = a /\ r.to = f
      /\ r.alone = request[c].alone /\ Held(r) = Held(request[c])
  BY <1>1, <1>2, <1>4, <1>t DEF Goto, Request, Steps, Held, TypeOK
<1>6. \A i \in Ids : store'[i] = store[i] \/
        /\ i \in Held(request[c]) \union generateID
        /\ store'[i] = NoRecord \/ {store'[i].owner, store'[i].friend} = p
  BY <1>t, <1>3 DEF OfPair
<1>7. ASSUME p \notin contested PROVE Midway(c)'
  <2>1. Midway(c)
    BY <1>1, <1>2, <1>7 DEF PairInv
  <2>2. /\ Agree(a, f) /\ request[c].mine \in findFriendRecord(a, f)
        /\ request[c].was = Read(request[c].mine) /\ Read(request[c].mine) = NoRecord
    BY <1>1, <1>2, <2>1 DEF Midway, Asks
  <2>3. Owned(a, f) = {}
    <3>. SUFFICES ASSUME Owned(a, f) # {} PROVE FALSE
      OBVIOUS
    <3>1. request[c].mine \in Owned(a, f)
      BY <2>2 DEF findFriendRecord
    <3>2. request[c].mine \in Ids /\ request[c].mine # None /\ store[request[c].mine].owner = a
      BY <3>1, NoneAssumption DEF Owned
    <3>. QED  BY <2>2, <3>2, NoneAssumption DEF Read, NoRecord
  <2>4. Between(p) = {} /\ asked \intersect Both(p) = {}
    <3>1. asked \intersect Both({a, f}) = {}
      BY <2>2, <2>3 DEF Agree
    <3>. QED  BY <1>t, <2>2, <3>1 DEF Agree
  <2>5. Pair(c)' = p /\ r.alone
    BY <1>5, <1>t, <2>1 DEF Pair, Midway
  <2>6. Between(p)' = {id}
    <3>1. \A i \in Ids : {store'[i].owner, store'[i].friend} = p <=> i = id
      BY <1>3, <2>4 DEF OfPair, Between
    <3>. QED  BY <1>3, <3>1 DEF Between
  <2>7. Between(Pair(c))' = {id} /\ (asked \intersect Both(Pair(c)))' = {}
    BY <1>1, <2>4, <2>5, <2>6 DEF Between, Both
  <2>. QED  BY <1>3, <1>5, <2>5, <2>7 DEF Midway
<1>8. /\ request[c].step # "idle" /\ r.step # "idle"
      /\ asked' = asked /\ contested' = contested
      /\ \A i \in Held(r) : i \in Held(request[c])
  BY <1>1, <1>5
<1>. QED  BY <1>2, <1>t, <1>5, <1>6, <1>7, <1>8, PairStep

LEMMA AskTheirsPair ==
  ASSUME IInv, IInv', PairInv, NEW c \in Slots, AskTheirs(c)
  PROVE  PairInv'
PROOF
<1>1. /\ request[c].step = "askTheirs" /\ Answered(c)
      /\ Create(request[c].to, request[c].from, "PENDING", "INBOUND")
  BY DEF AskTheirs
<1>2. PICK a \in Accounts, f \in Accounts, p \in {Pair(c)} :
        /\ a = request[c].from /\ f = request[c].to /\ p = Pair(c)
  BY <1>1, Running
<1>t. /\ TypeOK /\ TypeOK' /\ request[c] \in Request /\ Informed(request[c])
      /\ p = {a, f} /\ p = {f, a} /\ a # f
  BY <1>1, <1>2, Running DEF IInv, Informed
<1>3. PICK id \in generateID :
        /\ id \in Ids /\ ~ OfPair(id, p)
        /\ store'[id] = [owner |-> f, friend |-> a, status |-> "PENDING", direction |-> "INBOUND"]
        /\ \A i \in Ids : i # id => store'[i] = store[i]
        /\ OfPair(id, p)'
  <2>1. Create(f, a, "PENDING", "INBOUND") /\ p \in SUBSET Accounts
    BY <1>1, <1>2, <1>t
  <2>. QED  BY <1>t, <2>1, CreatePair
<1>4. /\ asked' \ Both(p) = asked \ Both(p) /\ contested' = contested
      /\ Both(p) = {<<a, f>>, <<f, a>>}
      /\ asked' \intersect Both(p) = (asked \intersect Both(p)) \union {<<a, f>>}
      /\ \E r \in Request : /\ r.step = "idle" /\ Held(r) = {}
                            /\ request' = [request EXCEPT ![c] = r]
  BY <1>1, <1>2, <1>t, AnsweredPair
<1>5. PICK r \in Request : r.step = "idle" /\ Held(r) = {} /\ request' = [request EXCEPT ![c] = r]
  BY <1>4
<1>6. \A i \in Ids : store'[i] = store[i] \/
        /\ i \in Held(request[c]) \union generateID
        /\ store'[i] = NoRecord \/ {store'[i].owner, store'[i].friend} = p
  BY <1>t, <1>3 DEF OfPair
<1>7. ASSUME p \notin contested PROVE Agree(a, f)'
  <2>1. Midway(c)
    BY <1>1, <1>2, <1>7 DEF PairInv
  <2>2. PICK m \in Ids :
          /\ Between(p) = {m}
          /\ store[m] = [owner |-> a, friend |-> f, status |-> "PENDING", direction |-> "OUTBOUND"]
    BY <1>1, <1>2, <2>1 DEF Midway
  <2>3. asked \intersect Both(p) = {}
    BY <1>1, <1>2, <2>1 DEF Midway
  <2>4. m # id /\ store'[m] = store[m]
    BY <1>3, <2>2 DEF OfPair, Between
  <2>5. Between(p)' = {m, id}
    <3>1. \A i \in Ids : {store'[i].owner, store'[i].friend} = p <=> i = id \/ i = m
      BY <1>3, <2>2, <2>4 DEF OfPair, Between
    <3>. QED  BY <1>3, <2>2, <3>1 DEF Between
  <2>6. m \in Owned(a, f)' /\ id \in Owned(f, a)' /\ Between({a, f})' = {m, id}
    BY <1>3, <1>t, <2>2, <2>4, <2>5 DEF Owned
  <2>7. (asked \intersect Both({a, f}))' = {<<a, f>>}
    BY <1>4, <1>t, <2>3 DEF Both
  <2>8. Both({a, f})' = {<<a, f>>, <<f, a>>} /\ <<a, f>> # <<f, a>>
    BY <1>4, <1>t DEF Both
  <2>9. /\ store'[m].status = "PENDING" /\ store'[id].status = "PENDING"
        /\ store'[m].direction = "OUTBOUND" /\ store'[id].direction = "INBOUND"
    BY <1>3, <2>2, <2>4
  <2>10. (asked \intersect Both({a, f}))' # Both({a, f})'
    <3>1. <<f, a>> \notin {<<a, f>>} /\ <<f, a>> \in {<<a, f>>, <<f, a>>}
      BY <2>8
    <3>. QED  BY <2>7, <2>8, <3>1
  <2>11. Mirrors(m, id, a, f)'
    BY <2>6, <2>7, <2>9, <2>10 DEF Mirrors
  <2>. QED  BY <2>11 DEF Agree, Mirrors
<1>8. request[c].step # "idle" /\ \A i \in Held(r) : i \in Held(request[c])
  BY <1>1, <1>5
<1>. QED  BY <1>2, <1>t, <1>4, <1>5, <1>6, <1>7, <1>8, PairStep

LEMMA DeleteOnePair ==
  ASSUME IInv, IInv', PairInv, NEW c \in Slots, DeleteOne(c)
  PROVE  PairInv'
PROOF
<1>1. request[c].step = "delete" /\ UNCHANGED <<asked, tried, contested>>
  BY DEF DeleteOne
<1>2. PICK id \in request[c].todo :
        /\ store' = [store EXCEPT ![id] = NoRecord]
        /\ request' = [request EXCEPT ![c].todo = @ \ {id}]
  BY DEF DeleteOne
<1>3. PICK a \in Accounts, f \in Accounts, p \in {Pair(c)} :
        /\ a = request[c].from /\ f = request[c].to /\ p = Pair(c)
  BY <1>1, Running
<1>t. TypeOK /\ TypeOK' /\ request[c] \in Request
  BY DEF IInv, TypeOK
<1>4. PICK r : r = [request[c] EXCEPT !.todo = @ \ {id}]
  OBVIOUS
<1>5. /\ r \in Request /\ request' = [request EXCEPT ![c] = r] /\ request'[c] = r
      /\ r.step = "delete" /\ r.from = a /\ r.to = f
      /\ r.alone = request[c].alone /\ Held(r) \subseteq Held(request[c])
  BY <1>1, <1>2, <1>3, <1>4, <1>t DEF Request, Held, TypeOK
<1>6. \A i \in Ids : store'[i] = store[i] \/
        /\ i \in Held(request[c]) \union generateID
        /\ store'[i] = NoRecord \/ {store'[i].owner, store'[i].friend} = p
  BY <1>2, <1>t DEF Held, TypeOK
<1>7. p \notin contested => Midway(c)'
  BY <1>1, <1>3, <1>5 DEF PairInv, Midway
<1>8. /\ request[c].step # "idle" /\ r.step # "idle"
      /\ asked' = asked /\ contested' = contested
      /\ \A i \in Held(r) : i \in Held(request[c])
  BY <1>1, <1>5
<1>9. p \notin contested' => Midway(c)'
  BY <1>7, <1>8
<1>10. /\ r \in Request /\ request' = [request EXCEPT ![c] = r] /\ r.from = a /\ r.to = f
       /\ TypeOK' /\ asked' \ Both(p) = asked \ Both(p)
       /\ p \notin contested' => p \notin contested
       /\ \A q : q # p => (q \in contested' <=> q \in contested)
  BY <1>5, <1>8, <1>t
<1>11. /\ request[c].step # "idle" /\ r.step # "idle"
       /\ \A i \in Held(r) : i \in Held(request[c]) \/ OfPair(i, p)
  BY <1>8
<1>12. r.step = "idle" /\ p \notin contested' => Agree(a, f)'
  BY <1>11
<1>13. r.step # "idle" => r.from = a /\ r.to = f
  BY <1>10
<1>14. p \notin contested' => p \notin contested \/ Busy(p) = {c}
  BY <1>10
<1>15. r.step # "idle" /\ p \notin contested' => Midway(c)'
  BY <1>9
<1>. QED  BY ONLY IInv, PairInv, c \in Slots, a \in Accounts, f \in Accounts,
                  <1>3, <1>6, <1>15, <1>14, <1>13, <1>12, <1>10, <1>11, PairStep, ZenonT(60)

LEMMA DeletedPair ==
  ASSUME IInv, IInv', PairInv, NEW c \in Slots, Deleted(c)
  PROVE  PairInv'
PROOF
<1>1. request[c].step = "delete" /\ request[c].todo = {} /\ Finish(c) /\ store' = store
  BY DEF Deleted
<1>2. PICK a \in Accounts, f \in Accounts, p \in {Pair(c)} :
        /\ a = request[c].from /\ f = request[c].to /\ p = Pair(c)
  BY <1>1, Running
<1>t. TypeOK /\ TypeOK' /\ p = {a, f}
  BY <1>1, <1>2, Running DEF IInv
<1>3. PICK r : r = Idle
  OBVIOUS
<1>4. r \in Request /\ r.step = "idle" /\ Held(r) = {} /\ request' = [request EXCEPT ![c] = r]
  BY <1>1, <1>3 DEF Idle, Knowing, Request, Steps, Held, Finish
<1>5. p \notin contested => request[c].alone
  BY <1>1, <1>2 DEF PairInv, Midway
<1>6. request[c].alone => Busy(p) = {c} /\ Between(p) = {}
  BY <1>1, <1>2 DEF IInv, Undisturbed
<1>7. CASE request[c].alone
  <2>1. asked' = asked \ Both(p) /\ contested' = contested \ {p}
    BY <1>2, <1>7 DEF Deleted
  <2>2. asked' \ Both(p) = asked \ Both(p) /\ asked' \intersect Both(p) = {}
    BY <2>1
  <2>3. Agree(a, f)'
    <3>1. Between({a, f})' = {}
      BY <1>1, <1>6, <1>7, <1>t DEF Between
    <3>2. (asked \intersect Both({a, f}))' = {}
      BY <1>t, <2>2 DEF Both
    <3>. QED  BY <3>1, <3>2 DEF Agree
  <2>4. /\ \A q : q # p => (q \in contested' <=> q \in contested)
        /\ Busy(p) = {c} /\ request[c].step # "idle"
    BY <1>1, <1>6, <1>7, <2>1
  <2>5. p \notin contested' => p \notin contested \/ Busy(p) = {c}
    BY <2>4
  <2>6. asked' \ Both(p) = asked \ Both(p) /\ \A i \in Held(r) : i \in Held(request[c])
    BY <1>4, <2>2
  <2>. QED  BY ONLY IInv, PairInv, c \in Slots, a \in Accounts, f \in Accounts,
                    <1>1, <1>2, <1>t, <1>4, <2>3, <2>4, <2>5, <2>6, PairStep
<1>8. CASE ~ request[c].alone
  <2>1. asked' = asked /\ contested' = contested
    BY <1>8 DEF Deleted
  <2>2. p \in contested /\ request[c].step # "idle"
    BY <1>1, <1>5, <1>8
  <2>. QED  BY <1>1, <1>2, <1>t, <1>4, <2>1, <2>2, PairStep
<1>. QED  BY <1>7, <1>8

LEMMA FailPair ==
  ASSUME IInv, IInv', PairInv, NEW c \in Slots, Fail(c)
  PROVE  PairInv'
PROOF
<1>1. request[c].step # "idle" /\ store' = store /\ asked' = asked
  BY DEF Fail
<1>2. PICK a \in Accounts, f \in Accounts, p \in {Pair(c)} :
        /\ a = request[c].from /\ f = request[c].to /\ p = Pair(c)
  BY <1>1, Running
<1>t. TypeOK /\ TypeOK' /\ request[c] \in Request
  BY DEF IInv, TypeOK
<1>3. CASE request[c].step \in {"theirs", "accept", "ask"} /\ Finish(c) /\ UNCHANGED contested
  BY <1>1, <1>3, PairFinish
<1>4. CASE request[c].step \in {"acceptTheirs", "askTheirs"} /\ Finish(c) /\ Tear(c)
  <2>1. PICK r : r = Idle
    OBVIOUS
  <2>2. r \in Request /\ r.step = "idle" /\ Held(r) = {} /\ request' = [request EXCEPT ![c] = r]
    BY <1>4, <2>1 DEF Idle, Knowing, Request, Steps, Held, Finish
  <2>3. contested' = contested \union {p}
    BY <1>2, <1>4 DEF Tear
  <2>. QED  BY <1>1, <1>2, <1>t, <2>2, <2>3, PairStep
<1>5. CASE /\ request[c].step = "delete"
           /\ \E id \in request[c].todo :
                request' = [request EXCEPT ![c].todo = @ \ {id}, ![c].alone = FALSE]
           /\ Tear(c)
  <2>1. PICK id \in request[c].todo :
          request' = [request EXCEPT ![c].todo = @ \ {id}, ![c].alone = FALSE]
    BY <1>5
  <2>2. PICK r : r = [request[c] EXCEPT !.todo = @ \ {id}, !.alone = FALSE]
    OBVIOUS
  <2>3. /\ r \in Request /\ request' = [request EXCEPT ![c] = r] /\ r.from = a /\ r.to = f
        /\ Held(r) \subseteq Held(request[c]) /\ r.step # "idle"
    BY <1>1, <1>2, <1>t, <2>1, <2>2 DEF Request, Held
  <2>4. contested' = contested \union {p}
    BY <1>2, <1>5 DEF Tear
  <2>5. \A i \in Held(r) : i \in Held(request[c]) \/ OfPair(i, p)
    BY <2>3
  <2>6. /\ r \in Request /\ request' = [request EXCEPT ![c] = r] /\ r.from = a /\ r.to = f
        /\ r.step # "idle" /\ TypeOK' /\ request[c].step # "idle"
        /\ asked' \ Both(p) = asked \ Both(p) /\ p \in contested'
        /\ \A q : q # p => (q \in contested' <=> q \in contested)
    BY <1>1, <1>t, <2>3, <2>4
  <2>7. \A i \in Ids : store'[i] = store[i] \/
          /\ i \in Held(request[c]) \union generateID
          /\ store'[i] = NoRecord \/ {store'[i].owner, store'[i].friend} = p
    BY <1>1
  <2>8. /\ r.step # "idle" => r.from = a /\ r.to = f
        /\ p \notin contested' => p \notin contested \/ Busy(p) = {c}
        /\ r.step # "idle" /\ p \notin contested' => Midway(c)'
        /\ r.step = "idle" /\ p \notin contested' => Agree(a, f)'
    BY <2>6
  <2>. QED  BY ONLY IInv, PairInv, c \in Slots, a \in Accounts, f \in Accounts,
                    <1>2, <2>5, <2>6, <2>7, <2>8, PairStep, ZenonT(60)
<1>. QED  BY <1>3, <1>4, <1>5 DEF Fail

LEMMA CrashPair ==
  ASSUME IInv, PairInv, Crash
  PROVE  PairInv'
PROOF
<1>t. TypeOK
  BY DEF IInv
<1>1. request' = [c \in Slots |-> Idle] /\ store' = store /\ asked' = asked
  BY DEF Crash
<1>2. \A c \in Slots : request'[c].step = "idle"
  BY <1>1 DEF Idle, Knowing
<1>3. /\ contested \subseteq contested'
      /\ \A c \in Slots : request[c].step \in {"acceptTheirs", "askTheirs", "delete"} =>
           Pair(c) \in contested'
  BY DEF Crash
<1>4. RecordsAgree'
  <2>. SUFFICES ASSUME NEW x \in Accounts, NEW y \in Accounts, x # y, {x, y} \notin contested'
                PROVE  Agree(x, y)'
    BY DEF RecordsAgree
  <2>1. CASE Busy({x, y}) = {}
    <3>1. Agree(x, y)
      BY <1>3, <2>1 DEF PairInv, RecordsAgree
    <3>. QED  BY <1>1, <3>1, AgreeSame
  <2>2. CASE Busy({x, y}) # {}
    <3>1. PICK c \in Slots : request[c].step # "idle" /\ Pair(c) = {x, y}
      BY <2>2 DEF Busy
    <3>2. request[c].step \in {"theirs", "accept", "ask"}
      BY <1>t, <1>3, <3>1 DEF TypeOK, Request, Steps
    <3>3. PICK a \in Accounts, f \in Accounts : a = request[c].from /\ f = request[c].to
      BY <3>1, Running
    <3>4. {x, y} \notin contested
      BY <1>3
    <3>5. Agree(a, f)
      BY <3>1, <3>2, <3>3, <3>4 DEF PairInv, Midway
    <3>6. {a, f} = {x, y} /\ a # f
      BY <3>1, <3>3 DEF Pair
    <3>7. (x = a /\ y = f) \/ (x = f /\ y = a)
      BY <3>6
    <3>8. Agree(x, y)
      BY <1>t, <3>5, <3>6, <3>7, AgreeSymmetric
    <3>. QED  BY <1>1, <3>8, AgreeSame
  <2>. QED  BY <2>1, <2>2
<1>. QED  BY <1>2, <1>4 DEF PairInv, HeldInv

LEMMA InitPair ==
  ASSUME Init
  PROVE  PairInv
PROOF
<1>1. \A c \in Slots : request[c].step = "idle"
  BY DEF Init, Idle, Knowing
<1>2. ASSUME NEW x \in Accounts, NEW y \in Accounts PROVE Agree(x, y)
  <2>1. {x, y} \in SUBSET Accounts
    OBVIOUS
  <2>2. Between({x, y}) = {}
    BY <2>1, NoRecordOfPair DEF Init, Between
  <2>3. asked \intersect Both({x, y}) = {}
    BY DEF Init
  <2>. QED  BY <2>2, <2>3 DEF Agree
<1>. QED  BY <1>1, <1>2 DEF PairInv, HeldInv, RecordsAgree

(* The records of a pair that nothing disturbed say exactly what the       *)
(* answered requests asked for (AddPublicFriend, DeleteFriend), for any    *)
(* accounts, requests at once and ids.                                     *)
THEOREM UndisturbedAgree == Spec => []RecordsAgree
PROOF
<1>1. Init => PairInv
  BY InitPair
<1>2. IInv /\ IInv' /\ PairInv /\ [Next]_vars => PairInv'
  <2>. SUFFICES ASSUME IInv, IInv', PairInv, [Next]_vars PROVE PairInv'
    OBVIOUS
  <2>1. ASSUME NEW c \in Slots, NEW a \in Accounts, NEW f \in Accounts,
               AddPublicFriend(c, a, f) \/ DeleteFriend(c, a, f)
        PROVE  PairInv'
    BY <2>1, AddPublicFriendPair, DeleteFriendPair
  <2>2. ASSUME NEW c \in Slots, ReadTheirs(c) \/ Accept(c) \/ AcceptTheirs(c)
        PROVE  PairInv'
    BY <2>2, ReadTheirsPair, AcceptPair, AcceptTheirsPair
  <2>3. ASSUME NEW c \in Slots, Ask(c) \/ AskTheirs(c) PROVE PairInv'
    BY <2>3, AskPair, AskTheirsPair
  <2>4. ASSUME NEW c \in Slots, DeleteOne(c) \/ Deleted(c) \/ Fail(c) PROVE PairInv'
    BY <2>4, DeleteOnePair, DeletedPair, FailPair
  <2>5. CASE Crash
    BY <2>5, CrashPair
  <2>6. CASE UNCHANGED vars
    <3>1. UNCHANGED <<store, request, asked, tried, contested>>
      BY <2>6 DEF vars
    <3>2. HeldInv'
      BY <3>1 DEF PairInv, HeldInv, Pair, Held
    <3>3. RecordsAgree'
      <4>. SUFFICES ASSUME NEW x \in Accounts, NEW y \in Accounts, x # y,
                           Busy({x, y})' = {}, {x, y} \notin contested'
                    PROVE  Agree(x, y)'
        BY DEF RecordsAgree
      <4>1. Busy({x, y}) = {}
        BY <3>1 DEF Busy, Pair
      <4>2. Agree(x, y)
        BY <3>1, <4>1 DEF PairInv, RecordsAgree
      <4>. QED  BY <3>1, <4>2, AgreeSame
    <3>4. ASSUME NEW c \in Slots, request'[c].step # "idle", Pair(c)' \notin contested'
          PROVE  Midway(c)'
      <4>1. request'[c] = request[c] /\ Pair(c)' = Pair(c) /\ Midway(c) /\ request[c].alone
        BY <3>1, <3>4 DEF PairInv, Pair, Midway
      <4>2. PICK r, p : r = request'[c] /\ p = Pair(c)
        OBVIOUS
      <4>3. \A id \in Ids : OfPair(id, p)' <=> OfPair(id, p)
        BY <3>1 DEF OfPair
      <4>. QED  BY <3>1, <3>4, <4>1, <4>2, <4>3, MidwayUnchanged
    <3>. QED  BY <3>2, <3>3, <3>4 DEF PairInv
  <2>. QED  BY <2>1, <2>2, <2>3, <2>4, <2>5, <2>6 DEF Next
<1>3. PairInv => RecordsAgree
  BY DEF PairInv
<1>. QED  BY <1>1, <1>2, <1>3, Invariance, PTL DEF Spec
=============================================================================
