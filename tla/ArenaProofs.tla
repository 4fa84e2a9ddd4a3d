----------------------------- MODULE ArenaProofs -----------------------------
(***************************************************************************)
(* Theorems about the arena of the backend, for any seasons, divisions,    *)
(* tables of points and number of requests.  They assume what Arena says   *)
(* of its constants, and no more.                                          *)
(***************************************************************************)
EXTENDS Arena, TLAPS

AllRemember == \A r \in Requests : Remembers(request[r])

-----------------------------------------------------------------------------
(* Growth. *)

\* Tokens are only added, and misses only recorded.
Grows ==
  /\ \A t \in Tokens : tokens[t] > 0 => tokens'[t] > 0
  /\ missed \subseteq missed'

(* What is held stays held. *)
LEMMA HeldGrows ==
  ASSUME Grows, NEW value, Held(value)
  PROVE  Held(value)'
PROOF BY DEF Grows, Held, Existing

LEMMA RemembersGrows ==
  ASSUME Grows, NEW q, Remembers(q)
  PROVE  Remembers(q)'
PROOF
<1>1. q.held \subseteq Existing'
  BY DEF Grows, Remembers, Existing
<1>2. \A s \in q.left : Held(s.value)'
  BY HeldGrows DEF Remembers
<1>3. ASSUME q.step = "grant", NEW d \in Divisions \ missed', Points[d] <= q.now
      PROVE  d \in q.todo \/ <<Current, d>> \in Existing'
  BY <1>3 DEF Grows, Remembers, Existing
<1>4. q.step = "grant" => q.id \in Ids /\ q.was \in Score
  BY DEF Remembers
<1>. QED  BY <1>1, <1>2, <1>3, <1>4 DEF Remembers

(* One more record of a token. *)
LEMMA Created ==
  ASSUME TypeOK, NEW t \in Tokens, CreateToken(t)
  PROVE  /\ tokens' \in [Tokens -> Nat]
         /\ \A u \in Tokens : tokens[u] > 0 => tokens'[u] > 0
         /\ t \in Existing'
PROOF BY DEF TypeOK, CreateToken, Existing

LEMMA NoScoreIsNone == NoScore \notin Score
PROOF BY ArenaAssumption DEF NoScore, Score

(* The points of a result are a number. *)
LEMMA PointsType ==
  ASSUME NEW g \in Games, NEW points \in PointsOf(g)
  PROVE  points \in Nat
PROOF
<1>1. PICK p \in PlacementPoints(g) : points = Hype * g.kills + p
  BY DEF PointsOf
<1>2. p \in Nat
  BY ArenaAssumption DEF PlacementPoints, Reached
<1>3. Hype \in Nat /\ g.kills \in Nat
  BY ArenaAssumption
<1>4. Hype * g.kills \in Nat
  BY <1>3
<1>. QED  BY <1>1, <1>2, <1>4

(* The scores as they are read reached only divisions that are held. *)
LEMMA SnapshotHeld ==
  ASSUME IInv, NEW found \in {Stored, {}}
  PROVE  Snapshot(found) \subseteq Seen /\ \A s \in Snapshot(found) : Held(s.value)
PROOF
<1>. SUFFICES ASSUME NEW id \in Stored
              PROVE  /\ [id |-> id, value |-> scores[id].value, season |-> scores[id].season,
                         since |-> scores[id].since] \in Seen
                     /\ Held(scores[id].value)
  BY DEF Snapshot
<1>1. scores[id] \in Score
  BY DEF Stored, IInv, TypeOK
<1>. QED  BY <1>1 DEF Seen, Score, Stored, IInv, DivisionsHeld

-----------------------------------------------------------------------------
(* Steps. *)

(* A request that goes on with what it may remember, adding tokens and     *)
(* scores that have theirs, keeps the invariant.                           *)
LEMMA StepKeeps ==
  ASSUME IInv, NEW r \in Requests, NEW q \in Request,
         request' = [request EXCEPT ![r] = q],
         Grows, Remembers(q)',
         tokens' \in [Tokens -> Nat], scores' \in [Ids -> Score \union {NoScore}],
         \A id \in Ids : scores'[id] = scores[id] \/
           \E value \in Nat : scores'[id].value = value /\ Held(value)',
         played' \in Nat, missed' \subseteq Divisions, disturbed' \in BOOLEAN
  PROVE  IInv'
PROOF
<1>1. TypeOK'
  BY DEF IInv, TypeOK
<1>2. DivisionsHeld'
  <2>. SUFFICES ASSUME NEW id \in Ids, scores'[id] # NoScore PROVE Held(scores[id].value)'
    BY DEF DivisionsHeld, Stored
  <2>1. \E value : scores'[id].value = value /\ Held(value)'
    <3>1. CASE scores'[id] = scores[id]
      <4>1. Held(scores[id].value)
        BY <3>1 DEF IInv, DivisionsHeld, Stored
      <4>. QED  BY <3>1, <4>1, HeldGrows
    <3>. QED  BY <3>1
  <2>2. PICK value : scores'[id].value = value /\ Held(value)'
    BY <2>1
  <2>. QED  BY <2>2 DEF Held
<1>3. AllRemember'
  <2>. SUFFICES ASSUME NEW p \in Requests PROVE Remembers(request[p])'
    BY DEF AllRemember
  <2>0. request'[p] = q \/ (request'[p] = request[p] /\ Remembers(request[p]))
    BY DEF IInv, TypeOK
  <2>1. PICK k : request'[p] = k /\ (k = q \/ Remembers(k))
    BY <2>0
  <2>2. Remembers(k)'
    BY <2>1, RemembersGrows
  <2>3. request'[p] = k
    BY <2>1
  <2>. QED  BY <2>2, <2>3 DEF Remembers, Held
<1>. QED  BY <1>1, <1>2, <1>3 DEF IInv, AllRemember

(* A step of running requests that leaves the stores alone. *)
LEMMA ReadKeeps ==
  ASSUME IInv, NEW r \in Requests, NEW q \in Request,
         request' = [request EXCEPT ![r] = q], Remembers(q),
         UNCHANGED <<tokens, scores, missed>>, played' \in Nat, disturbed' \in BOOLEAN
  PROVE  IInv'
PROOF
<1>1. Grows
  BY DEF Grows
<1>2. Remembers(q)'
  BY <1>1, RemembersGrows
<1>3. tokens' \in [Tokens -> Nat] /\ scores' \in [Ids -> Score \union {NoScore}] /\ missed' \subseteq Divisions
  BY DEF IInv, TypeOK
<1>4. \A id \in Ids : scores'[id] = scores[id]
  OBVIOUS
<1>. QED  BY <1>1, <1>2, <1>3, <1>4, StepKeeps

(* A step that adds a token t, and no score. *)
LEMMA TokenKeeps ==
  ASSUME IInv, NEW r \in Requests, NEW q \in Request, NEW t \in Tokens,
         request' = [request EXCEPT ![r] = q], CreateToken(t),
         q.held \subseteq Existing \union {t}, q.left = request[r].left,
         q.step # "grant" \/
           \E d \in Divisions : /\ t = <<Current, d>> /\ q = [request[r] EXCEPT !.todo = @ \ {d}, !.held = @ \union {t}]
                               /\ request[r].step = "grant",
         UNCHANGED <<scores, played, missed>>, disturbed' \in BOOLEAN
  PROVE  IInv'
PROOF
<1>1. /\ tokens' \in [Tokens -> Nat] /\ Grows
      /\ Existing \union {t} \subseteq Existing'
  BY Created DEF IInv, Grows, Existing
<1>2. /\ scores' \in [Ids -> Score \union {NoScore}] /\ missed' \subseteq Divisions /\ played' \in Nat
      /\ \A id \in Ids : scores'[id] = scores[id]
  BY DEF IInv, TypeOK
<1>3. Remembers(q)'
  <2>1. PICK k \in Request : k = request[r] /\ Remembers(k)
    BY DEF IInv, TypeOK
  <2>2. Remembers(k)'
    BY <1>1, <2>1, RemembersGrows
  <2>3. q.held \subseteq Existing' /\ t \in Existing'
    BY <1>1
  <2>4. \A s \in q.left : Held(s.value)'
    BY <2>1, <2>2 DEF Remembers
  <2>5. CASE q.step # "grant"
    BY <2>3, <2>4, <2>5 DEF Remembers
  <2>6. CASE q.step = "grant"
    <3>1. PICK d \in Divisions : /\ t = <<Current, d>> /\ k.step = "grant"
                                 /\ q = [k EXCEPT !.todo = @ \ {d}, !.held = @ \union {t}]
      BY <2>1, <2>6
    <3>2. /\ q.id = k.id /\ q.was = k.was /\ q.now = k.now /\ q.todo = k.todo \ {d}
      BY <3>1 DEF Request
    <3>3. \A e \in Divisions \ missed' : Points[e] <= q.now => e \in q.todo \/ <<Current, e>> \in Existing'
      BY <2>2, <2>3, <3>1, <3>2 DEF Remembers
    <3>. QED  BY <2>2, <2>3, <2>4, <3>1, <3>2, <3>3 DEF Remembers
  <2>. QED  BY <2>5, <2>6
<1>. QED  BY <1>1, <1>2, <1>3, StepKeeps

(* A request that begins, or ends, remembers nothing.                      *)
LEMMA Blank ==
  ASSUME NEW step \in Steps
  PROVE  /\ At(step) \in Request /\ At(step).step = step
         /\ At(step).held = {} /\ At(step).left = {}
PROOF BY DEF At, Request

LEMMA EndKeeps ==
  ASSUME IInv, NEW r \in Requests, request' = [request EXCEPT ![r] = At("done")],
         UNCHANGED <<tokens, scores, missed>>, played' \in Nat, disturbed' \in BOOLEAN
  PROVE  IInv'
PROOF
<1>1. /\ At("done") \in Request /\ At("done").step = "done"
      /\ At("done").held = {} /\ At("done").left = {}
  BY Blank DEF Steps
<1>2. Remembers(At("done"))
  BY <1>1 DEF Remembers
<1>. QED  BY <1>1, <1>2, ReadKeeps

LEMMA MatchResultsKeeps ==
  ASSUME IInv, NEW r \in Requests, NEW g \in Games, MatchResults(r, g)
  PROVE  IInv'
PROOF
<1>1. PICK held \in {Existing, {}}, points \in PointsOf(g) :
        /\ request' = [request EXCEPT ![r] =
             [At(IF held = {} THEN "token" ELSE "scores") EXCEPT
                !.points = points, !.ranked = g.ranked, !.held = held]]
        /\ disturbed' = (disturbed \/ Running # {} \/ held # Existing)
  BY DEF MatchResults
<1>. DEFINE step == IF held = {} THEN "token" ELSE "scores"
            q == [At(step) EXCEPT !.points = points, !.ranked = g.ranked, !.held = held]
<1>2. points \in Nat /\ g.ranked \in BOOLEAN
  BY PointsType, ArenaAssumption
<1>3. held \subseteq Existing /\ Existing \subseteq Tokens
  BY DEF Existing
<1>4. step \in {"token", "scores"} /\ step \in Steps
  BY DEF Steps
<1>5. q \in Request /\ q.step = step /\ q.held = held /\ q.left = {}
  BY <1>2, <1>3, <1>4 DEF At, Request
<1>6. Remembers(q)
  BY <1>3, <1>4, <1>5 DEF Remembers
<1>7. played' \in Nat /\ disturbed' \in BOOLEAN /\ UNCHANGED <<tokens, scores, missed>>
  BY <1>1 DEF MatchResults, IInv, TypeOK
<1>8. request' = [request EXCEPT ![r] = q]
  BY <1>1
<1>. HIDE DEF q
<1>. QED  BY <1>5, <1>6, <1>7, <1>8, ReadKeeps

(* The page of events begins.                                              *)
LEMMA EventsPageKeeps ==
  ASSUME IInv, NEW r \in Requests, EventsPage(r)
  PROVE  IInv'
PROOF
<1>1. PICK asked \in Pages, held \in {Existing, {}} :
        /\ request' = [request EXCEPT ![r] = [At("pageTokens") EXCEPT
             !.asked = asked, !.missing = asked \ {t[1] : t \in held}]]
        /\ disturbed' = (disturbed \/ Running # {} \/ held # Existing)
  BY DEF EventsPage
<1>. DEFINE q == [At("pageTokens") EXCEPT !.asked = asked, !.missing = asked \ {t[1] : t \in held}]
<1>2. q \in Request /\ q.step = "pageTokens" /\ q.held = {} /\ q.left = {}
  BY ArenaAssumption DEF At, Request, Steps
<1>3. Remembers(q)
  BY <1>2 DEF Remembers
<1>4. played' \in Nat /\ disturbed' \in BOOLEAN /\ UNCHANGED <<tokens, scores, missed>>
  BY <1>1 DEF EventsPage, IInv, TypeOK
<1>5. request' = [request EXCEPT ![r] = q]
  BY <1>1
<1>. HIDE DEF q
<1>. QED  BY <1>2, <1>3, <1>4, <1>5, ReadKeeps

LEMMA FirstTokenKeeps ==
  ASSUME IInv, NEW r \in Requests, FirstToken(r)
  PROVE  IInv'
PROOF
<1>. DEFINE t == <<Current, First>>
<1>1. PICK k \in Request : k = request[r] /\ Remembers(k)
  BY DEF IInv, TypeOK
<1>2. t \in Tokens
  BY ArenaAssumption DEF Tokens
<1>3. disturbed' \in BOOLEAN /\ UNCHANGED <<scores, played, missed>> /\ k.step = "token"
  BY <1>1 DEF FirstToken, IInv, TypeOK
<1>4. CASE CreateToken(t) /\ request' = [request EXCEPT ![r].step = "scores", ![r].held = {t}]
  <2>. DEFINE q == [k EXCEPT !.step = "scores", !.held = {t}]
  <2>1. q \in Request /\ q.step = "scores" /\ q.held = {t} /\ q.left = k.left
    BY <1>2 DEF Request, Steps
  <2>2. request' = [request EXCEPT ![r] = q]
    BY <1>1, <1>4 DEF IInv, TypeOK
  <2>. HIDE DEF q, t
  <2>. QED  BY <1>1, <1>2, <1>3, <1>4, <2>1, <2>2, TokenKeeps
<1>5. CASE request' = [request EXCEPT ![r].step = "scores"] /\ UNCHANGED tokens
  <2>. DEFINE q == [k EXCEPT !.step = "scores"]
  <2>1. q \in Request /\ q.step = "scores" /\ q.held = k.held /\ q.left = k.left
    BY DEF Request, Steps
  <2>2. request' = [request EXCEPT ![r] = q]
    BY <1>1, <1>5 DEF IInv, TypeOK
  <2>3. Remembers(q)
    BY <1>1, <2>1 DEF Remembers
  <2>4. played' \in Nat
    BY <1>3 DEF IInv, TypeOK
  <2>. HIDE DEF q
  <2>. QED  BY <1>3, <1>5, <2>1, <2>2, <2>3, <2>4, ReadKeeps
<1>. QED  BY <1>4, <1>5 DEF FirstToken

LEMMA FindScoresKeeps ==
  ASSUME IInv, NEW r \in Requests, FindScores(r)
  PROVE  IInv'
PROOF
<1>1. PICK k \in Request : k = request[r] /\ Remembers(k)
  BY DEF IInv, TypeOK
<1>2. PICK found \in {Stored, {}} :
        /\ request' = [request EXCEPT ![r].step = IF found = {} THEN "score" ELSE "next",
                                      ![r].left = Snapshot(found)]
        /\ disturbed' = (disturbed \/ found # Stored)
  BY DEF FindScores
<1>. DEFINE step == IF found = {} THEN "score" ELSE "next"
            q == [k EXCEPT !.step = step, !.left = Snapshot(found)]
<1>3. Snapshot(found) \subseteq Seen /\ \A s \in Snapshot(found) : Held(s.value)
  BY SnapshotHeld
<1>4. step \in {"score", "next"} /\ step \in Steps
  BY DEF Steps
<1>5. q \in Request /\ q.step = step /\ q.held = k.held /\ q.left = Snapshot(found)
  BY <1>3, <1>4 DEF Request
<1>6. Remembers(q)
  BY <1>1, <1>3, <1>4, <1>5 DEF Remembers
<1>7. request' = [request EXCEPT ![r] = q]
  BY <1>1, <1>2 DEF IInv, TypeOK
<1>8. played' \in Nat /\ disturbed' \in BOOLEAN /\ UNCHANGED <<tokens, scores, missed>>
  BY <1>2 DEF FindScores, IInv, TypeOK
<1>. HIDE DEF q
<1>. QED  BY <1>5, <1>6, <1>7, <1>8, ReadKeeps

(* A score that is created reached no division.                            *)
LEMMA ZeroHeld == Held(0)
PROOF BY ArenaAssumption DEF Held

LEMMA ScoreCreated ==
  ASSUME IInv, NEW id \in Ids, NEW season \in Seasons, CreateScore(id, season)
  PROVE  /\ scores' \in [Ids -> Score \union {NoScore}]
         /\ \A i \in Ids : scores'[i] = scores[i] \/ scores'[i].value = 0
PROOF
<1>. DEFINE new == [season |-> season, value |-> 0, since |-> played]
<1>1. new \in Score /\ new.value = 0
  BY DEF Score, IInv, TypeOK
<1>2. scores' = [scores EXCEPT ![id] = new]
  BY DEF CreateScore
<1>. HIDE DEF new
<1>. QED  BY <1>1, <1>2 DEF IInv, TypeOK

LEMMA ScoreKeeps ==
  ASSUME IInv, NEW r \in Requests, NEW q \in Request, Remembers(q),
         NEW id \in Ids, NEW season \in Seasons, CreateScore(id, season),
         request' = [request EXCEPT ![r] = q],
         UNCHANGED <<tokens, played, missed>>, disturbed' \in BOOLEAN
  PROVE  IInv'
PROOF
<1>1. Grows
  BY DEF Grows
<1>2. Remembers(q)' /\ Held(0)'
  BY <1>1, RemembersGrows, ZeroHeld, HeldGrows
<1>3. /\ tokens' \in [Tokens -> Nat] /\ missed' \subseteq Divisions /\ played' \in Nat
  BY DEF IInv, TypeOK
<1>4. /\ scores' \in [Ids -> Score \union {NoScore}]
      /\ \A i \in Ids : scores'[i] = scores[i] \/ scores'[i].value = 0
  BY ScoreCreated
<1>5. \A i \in Ids : scores'[i] = scores[i] \/
         \E value \in Nat : scores'[i].value = value /\ Held(value)'
  BY <1>2, <1>4
<1>. QED  BY <1>1, <1>2, <1>3, <1>4, <1>5, StepKeeps

LEMMA FirstScoreKeeps ==
  ASSUME IInv, NEW r \in Requests, FirstScore(r)
  PROVE  IInv'
PROOF
<1>1. PICK k \in Request : k = request[r] /\ Remembers(k)
  BY DEF IInv, TypeOK
<1>2. disturbed' \in BOOLEAN /\ UNCHANGED <<tokens, played, missed>>
  BY DEF FirstScore, IInv, TypeOK
<1>3. ASSUME NEW id \in Ids, CreateScore(id, Current),
             request' = [request EXCEPT ![r].step = "next", ![r].left =
               {[id |-> id, value |-> 0, season |-> Current, since |-> played]}]
      PROVE  IInv'
  <2>. DEFINE new == {[id |-> id, value |-> 0, season |-> Current, since |-> played]}
              q == [k EXCEPT !.step = "next", !.left = new]
  <2>1. new \subseteq Seen /\ \A s \in new : Held(s.value)
    BY ZeroHeld, ArenaAssumption DEF Seen, IInv, TypeOK
  <2>. HIDE DEF new
  <2>2. q \in Request /\ q.step = "next" /\ q.held = k.held /\ q.left = new
    BY <2>1 DEF Request, Steps
  <2>3. Remembers(q)
    BY <1>1, <2>1, <2>2 DEF Remembers
  <2>4. request' = [request EXCEPT ![r] = q]
    BY <1>1, <1>3 DEF IInv, TypeOK, new
  <2>5. Current \in Seasons
    BY ArenaAssumption
  <2>. HIDE DEF q
  <2>. QED  BY <1>2, <1>3, <2>2, <2>3, <2>4, <2>5, ScoreKeeps
<1>4. CASE request' = [request EXCEPT ![r].step = "next"] /\ UNCHANGED scores
  <2>. DEFINE q == [k EXCEPT !.step = "next"]
  <2>1. q \in Request /\ q.step = "next" /\ q.held = k.held /\ q.left = k.left
    BY DEF Request, Steps
  <2>2. Remembers(q)
    BY <1>1, <2>1 DEF Remembers
  <2>3. request' = [request EXCEPT ![r] = q]
    BY <1>1, <1>4 DEF IInv, TypeOK
  <2>4. played' \in Nat
    BY <1>2 DEF IInv, TypeOK
  <2>. HIDE DEF q
  <2>. QED  BY <1>2, <1>4, <2>1, <2>2, <2>3, <2>4, ReadKeeps
<1>. QED  BY <1>3, <1>4 DEF FirstScore

LEMMA PageTokenKeeps ==
  ASSUME IInv, NEW r \in Requests, PageToken(r)
  PROVE  IInv'
PROOF
<1>1. PICK k \in Request : k = request[r] /\ Remembers(k)
  BY DEF IInv, TypeOK
<1>2. PICK s \in k.missing :
        /\ request' = [request EXCEPT ![r].missing = @ \ {s}]
        /\ \/ CreateToken(<<s, First>>) /\ UNCHANGED disturbed
           \/ disturbed' = TRUE /\ UNCHANGED tokens
  BY <1>1 DEF PageToken
<1>. DEFINE q == [k EXCEPT !.missing = @ \ {s}]
            t == <<s, First>>
<1>3. t \in Tokens /\ k.step = "pageTokens"
  BY <1>1, <1>2 DEF Tokens, Request, PageToken
<1>4. q \in Request /\ q.step = "pageTokens" /\ q.held = k.held /\ q.left = k.left
  BY <1>3 DEF Request
<1>5. request' = [request EXCEPT ![r] = q]
  BY <1>1, <1>2 DEF IInv, TypeOK
<1>6. /\ disturbed' \in BOOLEAN /\ UNCHANGED <<scores, played, missed>>
      /\ played' \in Nat /\ q.held \subseteq Existing \union {t}
  BY <1>1, <1>2, <1>4 DEF PageToken, IInv, TypeOK, Remembers
<1>7. Remembers(q)
  BY <1>1, <1>4 DEF Remembers
<1>8. CreateToken(t) \/ UNCHANGED tokens
  BY <1>2
<1>. HIDE DEF q, t
<1>9. CASE CreateToken(t)
  BY <1>1, <1>3, <1>4, <1>5, <1>6, <1>9, TokenKeeps
<1>10. CASE UNCHANGED tokens
  BY <1>4, <1>5, <1>6, <1>7, <1>10, ReadKeeps
<1>. QED  BY <1>8, <1>9, <1>10

LEMMA PageFindScoresKeeps ==
  ASSUME IInv, NEW r \in Requests, PageFindScores(r)
  PROVE  IInv'
PROOF
<1>1. PICK k \in Request : k = request[r] /\ Remembers(k)
  BY DEF IInv, TypeOK
<1>2. PICK found \in {Stored, {}} :
        /\ request' = [request EXCEPT ![r].step = "pageScores",
             ![r].missing = request[r].asked \ {scores[id].season : id \in found}]
        /\ disturbed' = (disturbed \/ found # Stored)
  BY DEF PageFindScores
<1>. DEFINE q == [k EXCEPT !.step = "pageScores",
                           !.missing = k.asked \ {scores[id].season : id \in found}]
<1>3. q \in Request /\ q.step = "pageScores" /\ q.held = k.held /\ q.left = k.left
  BY DEF Request, Steps
<1>4. request' = [request EXCEPT ![r] = q]
  BY <1>1, <1>2 DEF IInv, TypeOK
<1>5. /\ disturbed' \in BOOLEAN /\ UNCHANGED <<tokens, scores, missed>> /\ played' \in Nat
  BY <1>2 DEF PageFindScores, IInv, TypeOK
<1>6. Remembers(q)
  BY <1>1, <1>3 DEF Remembers
<1>. HIDE DEF q
<1>. QED  BY <1>3, <1>4, <1>5, <1>6, ReadKeeps

LEMMA PageScoreKeeps ==
  ASSUME IInv, NEW r \in Requests, PageScore(r)
  PROVE  IInv'
PROOF
<1>1. PICK k \in Request : k = request[r] /\ Remembers(k)
  BY DEF IInv, TypeOK
<1>2. PICK s \in k.missing :
        /\ request' = [request EXCEPT ![r].missing = @ \ {s}]
        /\ \/ \E id \in Ids : CreateScore(id, s) /\ UNCHANGED disturbed
           \/ disturbed' = TRUE /\ UNCHANGED scores
  BY <1>1 DEF PageScore
<1>. DEFINE q == [k EXCEPT !.missing = @ \ {s}]
<1>3. q \in Request /\ q.step = "pageScores" /\ q.held = k.held /\ q.left = k.left /\ s \in Seasons
  BY <1>1, <1>2 DEF Request, PageScore
<1>4. request' = [request EXCEPT ![r] = q]
  BY <1>1, <1>2 DEF IInv, TypeOK
<1>5. /\ disturbed' \in BOOLEAN /\ UNCHANGED <<tokens, played, missed>> /\ played' \in Nat
  BY <1>2 DEF PageScore, IInv, TypeOK
<1>6. Remembers(q)
  BY <1>1, <1>3 DEF Remembers
<1>. HIDE DEF q
<1>7. ASSUME NEW id \in Ids, CreateScore(id, s) PROVE IInv'
  BY <1>3, <1>4, <1>5, <1>6, <1>7, ScoreKeeps
<1>8. CASE UNCHANGED scores
  BY <1>3, <1>4, <1>5, <1>6, <1>8, ReadKeeps
<1>. QED  BY <1>2, <1>7, <1>8

(* A score at work: what it reached is held, or is still to be granted.    *)
LEMMA NextScoreKeeps ==
  ASSUME IInv, NEW r \in Requests, NextScore(r)
  PROVE  IInv'
PROOF
<1>1. PICK k \in Request : k = request[r] /\ Remembers(k)
  BY DEF IInv, TypeOK
<1>. DEFINE was(s) == [season |-> s.season, value |-> s.value, since |-> s.since]
            todo(s) == {d \in Crossed(s.value, s.value + k.points) : <<Current, d>> \notin k.held}
<1>2. PICK s \in k.left :
        request' = [request EXCEPT ![r].step = "grant", ![r].left = @ \ {s}, ![r].id = s.id,
          ![r].was = was(s), ![r].now = s.value + k.points, ![r].todo = todo(s)]
  <2>. DEFINE Taken(p, s) == request' = [request EXCEPT ![r].step = "grant", ![r].left = @ \ {s},
         ![r].id = s.id, ![r].was = was(s), ![r].now = s.value + p.points,
         ![r].todo = {d \in Crossed(s.value, s.value + p.points) : <<Current, d>> \notin p.held}]
  <2>1. \E s \in request[r].left : Taken(request[r], s)
    BY Zenon DEF NextScore
  <2>. HIDE DEF Taken
  <2>2. \E s \in k.left : Taken(k, s)
    BY <1>1, <2>1
  <2>. QED  BY <2>2, Zenon DEF Taken
<1>. DEFINE q == [k EXCEPT !.step = "grant", !.left = @ \ {s}, !.id = s.id,
                    !.was = was(s), !.now = s.value + k.points, !.todo = todo(s)]
<1>3. s \in Seen /\ k.points \in Nat
  BY <1>1, <1>2 DEF Request
<1>4. was(s) \in Score /\ s.value + k.points \in Nat /\ s.id \in Ids
  BY <1>3 DEF Seen, Score
<1>5. todo(s) \subseteq Divisions
  BY DEF Crossed
<1>6. \A d \in Divisions \ missed :
         Points[d] <= s.value + k.points => d \in todo(s) \/ <<Current, d>> \in Existing
  <2>. SUFFICES ASSUME NEW d \in Divisions \ missed, Points[d] <= s.value + k.points
                PROVE  d \in todo(s) \/ <<Current, d>> \in Existing
    OBVIOUS
  <2>1. s.value \in Nat /\ Points[d] \in Nat
    BY <1>3, ArenaAssumption DEF Seen
  <2>2. CASE Points[d] <= s.value
    BY <1>1, <1>2, <2>2 DEF Remembers, Held
  <2>3. CASE s.value < Points[d]
    <3>1. d \in Crossed(s.value, s.value + k.points)
      BY <2>1, <2>3, <1>3 DEF Crossed
    <3>2. k.held \subseteq Existing
      BY <1>1 DEF Remembers
    <3>. QED  BY <3>1, <3>2
  <2>. QED  BY <2>1, <2>2, <2>3
<1>. HIDE DEF was, todo
<1>7. /\ q \in Request /\ q.step = "grant" /\ q.left = k.left \ {s} /\ q.id = s.id
      /\ q.was = was(s) /\ q.now = s.value + k.points /\ q.todo = todo(s) /\ q.held = k.held
  BY <1>4, <1>5 DEF Request, Steps
<1>8. request' = [request EXCEPT ![r] = q]
  BY <1>1, <1>2 DEF IInv, TypeOK
<1>9. /\ disturbed' \in BOOLEAN /\ UNCHANGED <<tokens, scores, missed>> /\ played' \in Nat
  BY DEF NextScore, IInv, TypeOK
<1>. HIDE DEF q
<1>10. Remembers(q)
  <2>1. q.held \subseteq Existing /\ \A x \in q.left : Held(x.value)
    BY <1>1, <1>7 DEF Remembers
  <2>. QED  BY <1>4, <1>6, <1>7, <2>1 DEF Remembers
<1>. QED  BY <1>7, <1>8, <1>9, <1>10, ReadKeeps

LEMMA GrantKeeps ==
  ASSUME IInv, NEW r \in Requests, Grant(r)
  PROVE  IInv'
PROOF
<1>1. PICK k \in Request : k = request[r] /\ Remembers(k) /\ k.step = "grant"
  BY DEF IInv, TypeOK, Grant
<1>2. PICK d \in k.todo :
        \/ /\ CreateToken(<<Current, d>>)
           /\ request' = [request EXCEPT ![r].todo = @ \ {d}, ![r].held = @ \union {<<Current, d>>}]
           /\ UNCHANGED <<missed, disturbed>>
        \/ /\ request' = [request EXCEPT ![r].todo = @ \ {d}]
           /\ missed' = missed \union {d} /\ disturbed' = TRUE
           /\ UNCHANGED tokens
  BY <1>1 DEF Grant
<1>. DEFINE t == <<Current, d>>
<1>3. d \in Divisions /\ t \in Tokens
  BY <1>1, ArenaAssumption DEF Request, Tokens
<1>4. UNCHANGED <<scores, played>>
  BY DEF Grant
<1>5. CASE /\ CreateToken(t)
           /\ request' = [request EXCEPT ![r].todo = @ \ {d}, ![r].held = @ \union {t}]
           /\ UNCHANGED <<missed, disturbed>>
  <2>. DEFINE q == [k EXCEPT !.todo = @ \ {d}, !.held = @ \union {t}]
  <2>1. q \in Request /\ q.held = k.held \union {t} /\ q.left = k.left
    BY <1>3 DEF Request
  <2>2. request' = [request EXCEPT ![r] = q]
    BY <1>1, <1>5 DEF IInv, TypeOK
  <2>3. q.held \subseteq Existing \union {t}
    BY <1>1, <2>1 DEF Remembers
  <2>4. disturbed' \in BOOLEAN
    BY <1>5 DEF IInv, TypeOK
  <2>5. q.step # "grant" \/
          \E e \in Divisions : /\ t = <<Current, e>> /\ q = [request[r] EXCEPT !.todo = @ \ {e}, !.held = @ \union {t}]
                              /\ request[r].step = "grant"
    BY <1>1, <1>3
  <2>. HIDE DEF q, t
  <2>. QED  BY <1>1, <1>3, <1>4, <1>5, <2>1, <2>2, <2>3, <2>4, <2>5, TokenKeeps
<1>6. CASE /\ request' = [request EXCEPT ![r].todo = @ \ {d}]
           /\ missed' = missed \union {d} /\ disturbed' = TRUE
           /\ UNCHANGED tokens
  <2>. DEFINE q == [k EXCEPT !.todo = @ \ {d}]
  <2>1. /\ q \in Request /\ q.step = k.step /\ q.held = k.held /\ q.left = k.left
        /\ q.id = k.id /\ q.was = k.was /\ q.now = k.now /\ q.todo = k.todo \ {d}
    BY DEF Request
  <2>2. request' = [request EXCEPT ![r] = q]
    BY <1>1, <1>6 DEF IInv, TypeOK
  <2>3. Grows
    BY <1>6 DEF Grows
  <2>4. Remembers(k)'
    BY <1>1, <2>3, RemembersGrows
  <2>. HIDE DEF q
  <2>5. Remembers(q)'
    <3>1. q.held \subseteq Existing' /\ (\A x \in q.left : Held(x.value)') /\ q.id \in Ids /\ q.was \in Score
      BY <1>1, <2>1, <2>4 DEF Remembers
    <3>2. \A e \in Divisions \ missed' : Points[e] <= q.now => e \in q.todo \/ <<Current, e>> \in Existing'
      BY <1>1, <1>6, <2>1, <2>4 DEF Remembers
    <3>. QED  BY <3>1, <3>2 DEF Remembers
  <2>6. /\ tokens' \in [Tokens -> Nat] /\ scores' \in [Ids -> Score \union {NoScore}]
        /\ played' \in Nat /\ missed' \subseteq Divisions /\ disturbed' \in BOOLEAN
        /\ \A id \in Ids : scores'[id] = scores[id]
    BY <1>3, <1>4, <1>6 DEF IInv, TypeOK
  <2>. QED  BY <2>1, <2>2, <2>3, <2>5, <2>6, StepKeeps
<1>. QED  BY <1>2, <1>5, <1>6

(* The score that is saved has its tokens.                                 *)
LEMMA SaveScoreKeeps ==
  ASSUME IInv, NEW r \in Requests, SaveScore(r)
  PROVE  IInv'
PROOF
<1>1. PICK k \in Request : k = request[r] /\ Remembers(k) /\ k.step = "grant" /\ k.todo = {}
  BY DEF IInv, TypeOK, SaveScore
<1>. DEFINE q == [k EXCEPT !.step = "next", !.id = None, !.was = NoScore, !.now = 0]
            new == [k.was EXCEPT !.value = k.now]
<1>2. q \in Request /\ q.step = "next" /\ q.held = k.held /\ q.left = k.left
  BY DEF Request, Steps
<1>3. request' = [request EXCEPT ![r] = q]
  BY <1>1 DEF SaveScore, IInv, TypeOK
<1>4. k.id \in Ids /\ k.was \in Score /\ k.now \in Nat
  BY <1>1 DEF Remembers, Request
<1>5. new \in Score /\ new.value = k.now
  BY <1>4 DEF Score
<1>6. Held(k.now)
  BY <1>1 DEF Remembers, Held
<1>7. UNCHANGED <<tokens, played, missed>> /\ disturbed' \in BOOLEAN
  BY DEF SaveScore, IInv, TypeOK
<1>8. Grows
  BY <1>7 DEF Grows
<1>. HIDE DEF q, new
<1>9. Remembers(q)' /\ Held(k.now)'
  <2>1. Remembers(q)
    BY <1>1, <1>2 DEF Remembers
  <2>. QED  BY <1>6, <1>8, <2>1, RemembersGrows, HeldGrows
<1>10. scores' = [scores EXCEPT ![k.id] = new] \/ scores' = scores
  BY <1>1 DEF SaveScore, new
<1>11. /\ scores' \in [Ids -> Score \union {NoScore}]
       /\ \A id \in Ids : scores'[id] = scores[id] \/ scores'[id] = new
  BY <1>4, <1>5, <1>10 DEF IInv, TypeOK
<1>12. \A id \in Ids : scores'[id] = scores[id] \/
          \E value \in Nat : scores'[id].value = value /\ Held(value)'
  BY <1>4, <1>5, <1>9, <1>11
<1>13. tokens' \in [Tokens -> Nat] /\ missed' \subseteq Divisions /\ played' \in Nat
  BY <1>7 DEF IInv, TypeOK
<1>. QED  BY <1>2, <1>3, <1>7, <1>8, <1>9, <1>11, <1>12, <1>13, StepKeeps

LEMMA AnswerKeeps ==
  ASSUME IInv, NEW r \in Requests, Answer(r)
  PROVE  IInv'
PROOF
<1>1. PICK k \in Request : k = request[r]
  BY DEF IInv, TypeOK
<1>2. k.points \in Nat
  BY DEF Request
<1>3. /\ request' = [request EXCEPT ![r] = At("done")]
      /\ UNCHANGED <<tokens, scores, missed>> /\ played' \in Nat /\ disturbed' \in BOOLEAN
  BY <1>1, <1>2 DEF Answer, IInv, TypeOK
<1>. QED  BY <1>3, EndKeeps

LEMMA PageEndsKeeps ==
  ASSUME IInv, NEW r \in Requests, PageEnds(r)
  PROVE  IInv'
PROOF
<1>1. /\ request' = [request EXCEPT ![r] = At("done")]
      /\ UNCHANGED <<tokens, scores, missed>> /\ played' \in Nat /\ disturbed' \in BOOLEAN
  BY DEF PageEnds, IInv, TypeOK
<1>. QED  BY <1>1, EndKeeps

LEMMA CrashKeeps ==
  ASSUME IInv, Crash
  PROVE  IInv'
PROOF
<1>1. /\ At("done") \in Request /\ At("done").step = "done"
      /\ At("done").held = {} /\ At("done").left = {}
  BY Blank DEF Steps
<1>2. UNCHANGED <<tokens, scores, missed, played>> /\ disturbed' = TRUE
  BY DEF Crash
<1>3. \A r \in Requests : request'[r] = At("done") \/ request'[r] = request[r]
  BY DEF Crash
<1>4. TypeOK'
  BY <1>1, <1>2, <1>3 DEF Crash, IInv, TypeOK
<1>5. DivisionsHeld'
  BY <1>2 DEF IInv, DivisionsHeld, Stored, Held, Existing
<1>6. AllRemember'
  <2>. SUFFICES ASSUME NEW r \in Requests PROVE Remembers(request[r])'
    BY DEF AllRemember
  <2>1. Remembers(request'[r])
    BY <1>1, <1>3 DEF IInv, Remembers
  <2>. QED  BY <1>2, <2>1 DEF Remembers, Held, Existing
<1>. QED  BY <1>4, <1>5, <1>6 DEF IInv, AllRemember

-----------------------------------------------------------------------------
(* Theorems. *)

LEMMA InitHolds == Init => IInv
PROOF
<1>. SUFFICES ASSUME Init PROVE IInv
  OBVIOUS
<1>1. /\ At("new") \in Request /\ At("new").step = "new"
      /\ At("new").held = {} /\ At("new").left = {}
  BY Blank DEF Steps
<1>2. TypeOK
  BY <1>1 DEF Init, TypeOK
<1>3. DivisionsHeld
  BY DEF Init, DivisionsHeld, Stored
<1>4. AllRemember
  BY <1>1 DEF Init, AllRemember, Remembers
<1>. QED  BY <1>2, <1>3, <1>4 DEF IInv, AllRemember

LEMMA NextKeeps == IInv /\ [Next]_vars => IInv'
PROOF
<1>. SUFFICES ASSUME IInv, [Next]_vars PROVE IInv'
  OBVIOUS
<1>1. ASSUME NEW r \in Requests, NEW g \in Games, MatchResults(r, g) PROVE IInv'
  BY <1>1, MatchResultsKeeps
<1>2. ASSUME NEW r \in Requests,
             FirstToken(r) \/ FindScores(r) \/ FirstScore(r) \/ NextScore(r) \/ Grant(r)
      PROVE  IInv'
  BY <1>2, FirstTokenKeeps, FindScoresKeeps, FirstScoreKeeps, NextScoreKeeps, GrantKeeps
<1>3. ASSUME NEW r \in Requests, SaveScore(r) \/ Answer(r) PROVE IInv'
  BY <1>3, SaveScoreKeeps, AnswerKeeps
<1>4. ASSUME NEW r \in Requests,
             EventsPage(r) \/ PageToken(r) \/ PageFindScores(r) \/ PageScore(r) \/ PageEnds(r)
      PROVE  IInv'
  BY <1>4, EventsPageKeeps, PageTokenKeeps, PageFindScoresKeeps, PageScoreKeeps, PageEndsKeeps
<1>5. CASE UNCHANGED vars
  BY <1>5 DEF vars, IInv, TypeOK, DivisionsHeld, Stored, Held, Existing, Remembers
<1>. QED  BY <1>1, <1>2, <1>3, <1>4, <1>5, CrashKeeps DEF Next

(* The inductive invariant holds in every reachable state: what a request  *)
(* remembers was stored, and a score at work has its tokens or will have   *)
(* them before it is saved.                                                *)
THEOREM Invariance == Spec => []IInv
PROOF BY InitHolds, NextKeeps, PTL DEF Spec

(* Every variable keeps its type. *)
THEOREM TypeCorrect == Spec => []TypeOK
PROOF
<1>1. IInv => TypeOK
  BY DEF IInv
<1>. QED  BY <1>1, Invariance, PTL

(* Whatever overlaps, fails or ends early, a stored score has the token of *)
(* every division it reached, but for those that could not be created: the *)
(* loop over the divisions comes before the save of the score.             *)
THEOREM DivisionsAreHeld == Spec => []DivisionsHeld
PROOF
<1>1. IInv => DivisionsHeld
  BY DEF IInv
<1>. QED  BY <1>1, Invariance, PTL
-----------------------------------------------------------------------------
(* Undisturbed requests: StandingsAgree. *)

\* The records agree, with no result half saved.
Settled ==
  /\ OneRecord
  /\ \A id \in Stored : scores[id].since + scores[id].value = played
  /\ \A d \in Divisions : <<Current, d>> \in Existing <=> Attained(d)

LEMMA SettledAgrees ==
  ASSUME NEW q, q.step # "grant", Worked(q) = {}
  PROVE  Settled <=> OneRecord /\ Counted(q) /\ DivisionsExact(q)
PROOF BY DEF Settled, Counted, DivisionsExact

LEMMA NoneWorked ==
  ASSUME NEW q, q.step \notin {"next", "grant"} \/ ~ q.ranked
  PROVE  Worked(q) = {}
PROOF BY DEF Worked

LEMMA SameRecords ==
  ASSUME NEW q, Agrees(q), UNCHANGED <<tokens, scores, played>>
  PROVE  Agrees(q)'
PROOF BY DEF Agrees, OneRecord, Counted, DivisionsExact, UpToDate, Worked, Attained, Fresh,
             Existing, Stored

(* A request begins alone, or goes on alone.                               *)
LEMMA AloneAgrees ==
  ASSUME TypeOK, StandingsInv, ~ disturbed, NEW r \in Requests, NEW k, k = request[r],
         k.step \notin {"new", "done"}
  PROVE  Running = {r} /\ Agrees(k)
PROOF BY DEF StandingsInv, AtWork, Running

LEMMA IdleAgrees ==
  ASSUME StandingsInv, ~ disturbed, Running = {}
  PROVE  Settled
PROOF
<1>1. Agrees(At("done"))
  BY DEF StandingsInv, AtWork
<1>2. At("done").step = "done"
  BY DEF At
<1>. QED  BY <1>1, <1>2, SettledAgrees, NoneWorked DEF Agrees

LEMMA AgreesKept ==
  ASSUME TypeOK, StandingsInv, NEW r \in Requests, NEW q, request' = [request EXCEPT ![r] = q],
         ~ disturbed' => /\ ~ disturbed /\ Running \subseteq {r}
                         /\ q.step \notin {"new", "done"} /\ Agrees(q)'
  PROVE  StandingsInv'
PROOF
<1>. SUFFICES ASSUME ~ disturbed'
              PROVE  /\ \A x, other \in Running' : x = other
                     /\ \A p \in AtWork' : Agrees(p)'
  BY DEF StandingsInv
<1>1. Running' = {r} /\ request'[r] = q
  BY DEF Running, TypeOK
<1>2. AtWork' = {q}
  BY <1>1 DEF AtWork
<1>. QED  BY <1>1, <1>2

LEMMA AgreesDone ==
  ASSUME TypeOK, StandingsInv, NEW r \in Requests, request' = [request EXCEPT ![r] = At("done")],
         ~ disturbed' => ~ disturbed /\ Running \subseteq {r} /\ Settled'
  PROVE  StandingsInv'
PROOF
<1>. SUFFICES ASSUME ~ disturbed'
              PROVE  /\ \A x, other \in Running' : x = other
                     /\ \A p \in AtWork' : Agrees(p)'
  BY DEF StandingsInv
<1>0. PICK q : q = At("done")
  OBVIOUS
<1>1. /\ q.step = "done" /\ q.left = {} /\ request'[r] = q
  BY <1>0 DEF At, TypeOK
<1>2. AtWork' = {q} /\ Running' = {}
  BY <1>0, <1>1 DEF AtWork, Running, TypeOK
<1>3. Worked(q)' = {}
  BY <1>1 DEF Worked
<1>4. OneRecord' /\ Counted(q)' /\ DivisionsExact(q)'
  BY <1>1, <1>3 DEF Settled, Counted, DivisionsExact
<1>5. UpToDate(q)'
  BY <1>1 DEF UpToDate
<1>. QED  BY <1>2, <1>4, <1>5 DEF Agrees

(* One token more, and one score more.                                     *)
LEMMA AddToken ==
  ASSUME TypeOK, NEW t \in Tokens, t \notin Existing, CreateToken(t), OneRecord
  PROVE  Existing' = Existing \union {t} /\ \A u \in Tokens : tokens'[u] <= 1
PROOF
<1>1. \A u \in Tokens : tokens'[u] = IF u = t THEN tokens[u] + 1 ELSE tokens[u]
  BY DEF TypeOK, CreateToken
<1>2. tokens[t] = 0
  BY DEF TypeOK, Existing
<1>. QED  BY <1>1, <1>2 DEF Existing, OneRecord, TypeOK

LEMMA AddScore ==
  ASSUME TypeOK, NEW id \in Ids, NEW season \in Seasons, CreateScore(id, season)
  PROVE  /\ id \notin Stored /\ Stored' = Stored \union {id}
         /\ scores'[id].value = 0 /\ scores'[id].season = season /\ scores'[id].since = played
         /\ \A o \in Stored : scores'[o] = scores[o]
         /\ \A d \in Divisions : Attained(d)' <=> Attained(d)
PROOF
<1>. DEFINE new == [season |-> season, value |-> 0, since |-> played]
<1>1. new # NoScore /\ new.value = 0 /\ new.season = season /\ new.since = played
  <2>1. new \in Score
    BY DEF TypeOK, Score
  <2>. QED  BY <2>1, NoScoreIsNone
<1>2. \A o \in Ids : scores'[o] = IF o = id THEN new ELSE scores[o]
  BY DEF CreateScore, TypeOK
<1>. HIDE DEF new
<1>3. id \notin Stored /\ Stored' = Stored \union {id} /\ \A o \in Stored : scores'[o] = scores[o]
  BY <1>1, <1>2 DEF Stored, CreateScore
<1>4. scores'[id] = new
  BY <1>2
<1>5. ASSUME NEW d \in Divisions PROVE ~ (0 >= Points[d])
  BY ArenaAssumption
<1>6. ASSUME NEW d \in Divisions PROVE Attained(d)' <=> Attained(d)
  BY <1>1, <1>3, <1>4, <1>5 DEF Attained
<1>. QED  BY <1>1, <1>3, <1>4, <1>6

(* The look for tokens, with which a request begins.                       *)
LEMMA MatchResultsAgrees ==
  ASSUME IInv, StandingsInv, NEW r \in Requests, NEW g \in Games, MatchResults(r, g)
  PROVE  StandingsInv'
PROOF
<1>t. TypeOK
  BY DEF IInv
<1>1. PICK held \in {Existing, {}}, points \in PointsOf(g) :
        /\ request' = [request EXCEPT ![r] =
             [At(IF held = {} THEN "token" ELSE "scores") EXCEPT
                !.points = points, !.ranked = g.ranked, !.held = held]]
        /\ disturbed' = (disturbed \/ Running # {} \/ held # Existing)
  BY DEF MatchResults
<1>2. PICK q : q = [At(IF held = {} THEN "token" ELSE "scores") EXCEPT
                      !.points = points, !.ranked = g.ranked, !.held = held]
  OBVIOUS
<1>3. /\ q.step = IF held = {} THEN "token" ELSE "scores"
      /\ q.held = held /\ q.left = {}
  BY <1>2 DEF At
<1>4. UNCHANGED <<tokens, scores, played>> /\ request' = [request EXCEPT ![r] = q]
  BY <1>1, <1>2 DEF MatchResults
<1>5. ASSUME ~ disturbed' PROVE ~ disturbed /\ Running \subseteq {r} /\ Agrees(q)'
  <2>1. ~ disturbed /\ Running = {} /\ held = Existing
    BY <1>1, <1>5 DEF IInv, TypeOK
  <2>2. OneRecord /\ Counted(q) /\ DivisionsExact(q)
    BY <1>3, <2>1, IdleAgrees, SettledAgrees, NoneWorked
  <2>3. UpToDate(q)
    BY <1>3, <2>1 DEF UpToDate
  <2>4. Agrees(q)
    BY <2>2, <2>3 DEF Agrees
  <2>. QED  BY <1>4, <2>1, <2>4, SameRecords
<1>. QED  BY <1>t, <1>3, <1>4, <1>5, AgreesKept

LEMMA EventsPageAgrees ==
  ASSUME IInv, StandingsInv, NEW r \in Requests, EventsPage(r)
  PROVE  StandingsInv'
PROOF
<1>t. TypeOK
  BY DEF IInv
<1>1. PICK asked \in Pages, held \in {Existing, {}} :
        /\ request' = [request EXCEPT ![r] = [At("pageTokens") EXCEPT
             !.asked = asked, !.missing = asked \ {t[1] : t \in held}]]
        /\ disturbed' = (disturbed \/ Running # {} \/ held # Existing)
  BY DEF EventsPage
<1>2. PICK q : q = [At("pageTokens") EXCEPT !.asked = asked, !.missing = asked \ {t[1] : t \in held}]
  OBVIOUS
<1>3. q.step = "pageTokens" /\ q.left = {} /\ q.missing = asked \ {t[1] : t \in held}
  BY <1>2 DEF At
<1>4. UNCHANGED <<tokens, scores, played>> /\ request' = [request EXCEPT ![r] = q]
  BY <1>1, <1>2 DEF EventsPage
<1>5. ASSUME ~ disturbed' PROVE ~ disturbed /\ Running \subseteq {r} /\ Agrees(q)'
  <2>1. ~ disturbed /\ Running = {} /\ held = Existing
    BY <1>1, <1>5 DEF IInv, TypeOK
  <2>2. OneRecord /\ Counted(q) /\ DivisionsExact(q)
    BY <1>3, <2>1, IdleAgrees, SettledAgrees, NoneWorked
  <2>3. UpToDate(q)
    BY <1>3, <2>1 DEF UpToDate
  <2>4. Agrees(q)
    BY <2>2, <2>3 DEF Agrees
  <2>. QED  BY <1>4, <2>1, <2>4, SameRecords
<1>. QED  BY <1>t, <1>3, <1>4, <1>5, AgreesKept

LEMMA FirstTokenAgrees ==
  ASSUME IInv, StandingsInv, NEW r \in Requests, FirstToken(r)
  PROVE  StandingsInv'
PROOF
<1>t. TypeOK
  BY DEF IInv
<1>1. PICK k \in Request : k = request[r]
  BY DEF IInv, TypeOK
<1>2. PICK t \in Tokens : t = <<Current, First>>
  BY ArenaAssumption DEF Tokens
<1>3. k.step = "token" /\ UNCHANGED <<scores, played>>
  BY <1>1 DEF FirstToken
<1>4. PICK q : request' = [request EXCEPT ![r] = q] /\ q.step = "scores" /\ q.left = k.left
               /\ (disturbed' \/ (CreateToken(t) /\ q.held = {t} /\ disturbed' = disturbed))
  <2>1. CASE CreateToken(t) /\ UNCHANGED disturbed
             /\ request' = [request EXCEPT ![r].step = "scores", ![r].held = {t}]
    <3>1. PICK q : q = [k EXCEPT !.step = "scores", !.held = {t}]
      OBVIOUS
    <3>2. q.step = "scores" /\ q.left = k.left /\ q.held = {t}
      BY <3>1 DEF Request
    <3>3. request' = [request EXCEPT ![r] = q]
      BY <1>t, <1>1, <2>1, <3>1 DEF TypeOK
    <3>. QED  BY <2>1, <3>2, <3>3
  <2>2. CASE request' = [request EXCEPT ![r].step = "scores"] /\ disturbed' = TRUE
    <3>1. PICK q : q = [k EXCEPT !.step = "scores"]
      OBVIOUS
    <3>. QED  BY <1>t, <1>1, <2>2, <3>1 DEF Request, TypeOK
  <2>. QED  BY <1>2, <2>1, <2>2 DEF FirstToken
<1>5. ASSUME ~ disturbed' PROVE ~ disturbed /\ Running \subseteq {r} /\ Agrees(q)'
  <2>1. ~ disturbed /\ CreateToken(t) /\ q.held = {t}
    BY <1>4, <1>5
  <2>2. Running = {r} /\ Agrees(k)
    BY <1>t, <1>1, <1>3, <2>1, AloneAgrees
  <2>3. Settled /\ Existing = {} /\ \A s \in q.left : Fresh(s.id, s)
    BY <1>3, <1>4, <2>2, SettledAgrees, NoneWorked DEF Agrees, UpToDate
  <2>4. Existing' = {t} /\ \A u \in Tokens : tokens'[u] <= 1
    BY <1>t, <2>1, <2>3, AddToken DEF Settled
  <2>5. \A d \in Divisions : t # <<Current, d>>
    BY <1>2, ArenaAssumption
  <2>6. Settled'
    BY <1>3, <2>3, <2>4, <2>5 DEF Settled, OneRecord, Stored, Attained
  <2>7. OneRecord' /\ Counted(q)' /\ DivisionsExact(q)'
    BY <1>4, <2>6 DEF Settled, Counted, DivisionsExact, Worked
  <2>8. UpToDate(q)'
    BY <1>3, <1>4, <2>1, <2>3, <2>4 DEF UpToDate, Fresh, Stored
  <2>. QED  BY <2>1, <2>2, <2>7, <2>8 DEF Agrees
<1>. QED  BY <1>t, <1>4, <1>5, AgreesKept

LEMMA SnapshotFresh ==
  /\ \A s \in Snapshot(Stored) : Fresh(s.id, s)
  /\ \A id \in Stored : \E s \in Snapshot(Stored) : s.id = id
PROOF
<1>. DEFINE seen(id) == [id |-> id, value |-> scores[id].value,
                         season |-> scores[id].season, since |-> scores[id].since]
<1>1. Snapshot(Stored) = {seen(id) : id \in Stored}
  BY DEF Snapshot
<1>2. ASSUME NEW id \in Stored PROVE seen(id).id = id /\ Fresh(id, seen(id))
  BY DEF Fresh
<1>. HIDE DEF seen
<1>. QED  BY <1>1, <1>2

LEMMA FindScoresAgrees ==
  ASSUME IInv, StandingsInv, NEW r \in Requests, FindScores(r)
  PROVE  StandingsInv'
PROOF
<1>t. TypeOK
  BY DEF IInv
<1>1. PICK k \in Request : k = request[r]
  BY DEF IInv, TypeOK
<1>2. PICK found \in {Stored, {}} :
        /\ request' = [request EXCEPT ![r].step = IF found = {} THEN "score" ELSE "next",
                                      ![r].left = Snapshot(found)]
        /\ disturbed' = (disturbed \/ found # Stored)
  BY DEF FindScores
<1>3. PICK q : q = [k EXCEPT !.step = IF found = {} THEN "score" ELSE "next",
                             !.left = Snapshot(found)]
  OBVIOUS
<1>4. /\ q.step = (IF found = {} THEN "score" ELSE "next") /\ q.left = Snapshot(found)
      /\ q.held = k.held /\ q.ranked = k.ranked
      /\ request' = [request EXCEPT ![r] = q]
  BY <1>t, <1>1, <1>2, <1>3 DEF Request, TypeOK
<1>5. k.step = "scores" /\ UNCHANGED <<tokens, scores, played>>
  BY <1>1 DEF FindScores
<1>6. ASSUME ~ disturbed' PROVE ~ disturbed /\ Running \subseteq {r} /\ Agrees(q)'
  <2>1. ~ disturbed /\ found = Stored
    BY <1>t, <1>2, <1>6 DEF TypeOK
  <2>2. Running = {r} /\ Agrees(k)
    BY <1>t, <1>1, <1>5, <2>1, AloneAgrees
  <2>3. Settled /\ k.held = Existing
    BY <1>5, <2>2, SettledAgrees, NoneWorked DEF Agrees, UpToDate
  <2>4. (\A s \in q.left : Fresh(s.id, s)) /\ \A id \in Stored : \E s \in q.left : s.id = id
    BY <1>4, <2>1, SnapshotFresh
  <2>5. Worked(q) = {}
    BY <1>4, <2>4 DEF Worked
  <2>6. OneRecord /\ Counted(q) /\ DivisionsExact(q)
    BY <1>4, <2>3, <2>5, SettledAgrees
  <2>7. UpToDate(q)
    BY <1>4, <2>1, <2>3, <2>4 DEF UpToDate
  <2>8. Agrees(q)
    BY <2>6, <2>7 DEF Agrees
  <2>. QED  BY <1>5, <2>1, <2>2, <2>8, SameRecords
<1>. QED  BY <1>t, <1>4, <1>6, AgreesKept

LEMMA FirstScoreAgrees ==
  ASSUME IInv, StandingsInv, NEW r \in Requests, FirstScore(r)
  PROVE  StandingsInv'
PROOF
<1>t. TypeOK
  BY DEF IInv
<1>1. PICK k \in Request : k = request[r]
  BY DEF IInv, TypeOK
<1>2. k.step = "score" /\ UNCHANGED <<tokens, played>>
  BY <1>1 DEF FirstScore
<1>3. CASE request' = [request EXCEPT ![r].step = "next"] /\ disturbed' = TRUE
  <2>1. PICK q : q = [k EXCEPT !.step = "next"]
    OBVIOUS
  <2>2. request' = [request EXCEPT ![r] = q]
    BY <1>t, <1>1, <1>3, <2>1 DEF TypeOK
  <2>. QED  BY <1>t, <1>3, <2>2, AgreesKept
<1>4. ASSUME NEW id \in Ids, CreateScore(id, Current), UNCHANGED disturbed,
             request' = [request EXCEPT ![r].step = "next", ![r].left =
               {[id |-> id, value |-> 0, season |-> Current, since |-> played]}]
      PROVE  StandingsInv'
  <2>1. PICK s : s = [id |-> id, value |-> 0, season |-> Current, since |-> played]
    OBVIOUS
  <2>2. PICK q : q = [k EXCEPT !.step = "next", !.left = {s}]
    OBVIOUS
  <2>3. /\ q.step = "next" /\ q.left = {s} /\ q.held = k.held
        /\ request' = [request EXCEPT ![r] = q]
    BY <1>t, <1>1, <1>4, <2>1, <2>2 DEF Request, TypeOK
  <2>4. ASSUME ~ disturbed' PROVE ~ disturbed /\ Running \subseteq {r} /\ Agrees(q)'
    <3>1. ~ disturbed
      BY <1>4, <2>4
    <3>2. Running = {r} /\ Agrees(k)
      BY <1>t, <1>1, <1>2, <3>1, AloneAgrees
    <3>3. Settled /\ k.held = Existing /\ Stored = {}
      BY <1>2, <3>2, SettledAgrees, NoneWorked DEF Agrees, UpToDate
    <3>4. /\ Stored' = {id} /\ scores'[id].value = 0 /\ scores'[id].season = Current
          /\ scores'[id].since = played /\ \A d \in Divisions : Attained(d)' <=> Attained(d)
      BY <1>t, <1>4, <3>3, AddScore, ArenaAssumption
    <3>5. Settled'
      BY <1>t, <1>2, <3>3, <3>4 DEF Settled, OneRecord, Existing, TypeOK
    <3>6. s.id = id /\ Fresh(id, s)'
      BY <2>1, <3>4 DEF Fresh
    <3>7. Worked(q)' = {}
      BY <2>3, <3>4, <3>6 DEF Worked
    <3>8. OneRecord' /\ Counted(q)' /\ DivisionsExact(q)'
      BY <2>3, <3>5, <3>7 DEF Settled, Counted, DivisionsExact
    <3>9. Existing' = Existing
      BY <1>2 DEF Existing
    <3>10. UpToDate(q)'
      BY <2>3, <3>3, <3>6, <3>9 DEF UpToDate
    <3>. QED  BY <3>1, <3>2, <3>8, <3>10 DEF Agrees
  <2>. QED  BY <1>t, <2>3, <2>4, AgreesKept
<1>. QED  BY <1>3, <1>4 DEF FirstScore

(* The next score of the request: it is as it was read, and its divisions  *)
(* are those that are not held.                                            *)
LEMMA NextScoreAgrees ==
  ASSUME IInv, StandingsInv, NEW r \in Requests, NextScore(r)
  PROVE  StandingsInv'
PROOF
<1>t. TypeOK
  BY DEF IInv
<1>1. PICK k \in Request : k = request[r]
  BY DEF IInv, TypeOK
<1>2. k.step = "next" /\ k.ranked /\ UNCHANGED <<tokens, scores, played, disturbed>>
  BY <1>1 DEF NextScore
<1>3. \E s \in k.left : request' = [request EXCEPT ![r].step = "grant", ![r].left = @ \ {s},
        ![r].id = s.id, ![r].was = [season |-> s.season, value |-> s.value, since |-> s.since],
        ![r].now = s.value + request[r].points,
        ![r].todo = {d \in Crossed(s.value, s.value + request[r].points) :
                       <<Current, d>> \notin request[r].held}]
  <2>1. r \in Requests /\ request[r].left = k.left
    BY <1>1
  <2>. QED  BY <2>1, Zenon DEF NextScore
<1>4. PICK s \in k.left : request' = [request EXCEPT ![r].step = "grant", ![r].left = @ \ {s},
        ![r].id = s.id, ![r].was = [season |-> s.season, value |-> s.value, since |-> s.since],
        ![r].now = s.value + request[r].points,
        ![r].todo = {d \in Crossed(s.value, s.value + request[r].points) :
                       <<Current, d>> \notin request[r].held}]
  BY <1>3
<1>5. PICK was, now, todo :
        /\ was = [season |-> s.season, value |-> s.value, since |-> s.since]
        /\ now = s.value + k.points
        /\ todo = {d \in Crossed(s.value, now) : <<Current, d>> \notin k.held}
  OBVIOUS
<1>6. PICK q : q = [k EXCEPT !.step = "grant", !.left = @ \ {s}, !.id = s.id,
                             !.was = was, !.now = now, !.todo = todo]
  OBVIOUS
<1>7. /\ q.step = "grant" /\ q.left = k.left \ {s} /\ q.id = s.id /\ q.was = was
      /\ q.now = now /\ q.todo = todo /\ q.held = k.held /\ q.ranked = k.ranked
      /\ q.points = k.points
  BY <1>6 DEF Request
<1>8. request' = [request EXCEPT ![r] = q]
  BY <1>t, <1>1, <1>4, <1>5, <1>6 DEF TypeOK
<1>9. s \in Seen /\ k.left \subseteq Seen /\ s.value \in Nat /\ k.points \in Nat /\ now \in Nat
  BY <1>5 DEF Request, Seen
<1>10. ASSUME ~ disturbed' PROVE ~ disturbed /\ Running \subseteq {r} /\ Agrees(q)'
  <2>1. ~ disturbed
    BY <1>2, <1>10
  <2>2. Running = {r} /\ Agrees(k)
    BY <1>t, <1>1, <1>2, <2>1, AloneAgrees
  <2>3. k.held = Existing /\ (\A x \in k.left : Fresh(x.id, x)) /\ OneRecord
    BY <1>2, <2>2 DEF Agrees, UpToDate
  <2>4. \A x \in k.left \ {s} : x.id # s.id
    BY <1>9, <2>3 DEF Fresh, Seen
  <2>5. Worked(q) = Worked(k)
    BY <1>2, <1>7 DEF Worked
  <2>6. Counted(q)
    BY <1>7, <2>2, <2>5 DEF Counted, Agrees
  <2>7. Fresh(s.id, was) /\ Fresh(s.id, s) /\ was.value = s.value
    BY <1>5, <2>3 DEF Fresh
  <2>8. \A d \in Divisions : Points[d] \in Nat
    BY ArenaAssumption
  <2>9. \A d \in todo : d \in Divisions /\ Points[d] <= now /\ <<Current, d>> \notin Existing
    BY <1>5, <1>9, <2>3, <2>8 DEF Crossed
  <2>10. \A d \in Divisions : <<Current, d>> \in Existing <=> Attained(d)
    BY <1>2, <2>2 DEF Agrees, DivisionsExact
  <2>11. DivisionsExact(q)
    <3>. SUFFICES ASSUME NEW d \in Divisions, Points[d] <= now, d \notin todo
                  PROVE  <<Current, d>> \in Existing
      BY <1>7, <2>10 DEF DivisionsExact
    <3>1. CASE Points[d] <= s.value
      <4>1. s.id \in Stored /\ scores[s.id].value >= Points[d]
        BY <1>9, <2>7, <2>8, <3>1 DEF Fresh
      <4>. QED  BY <2>10, <4>1 DEF Attained
    <3>2. CASE s.value < Points[d]
      BY <1>5, <1>9, <2>3, <2>8, <3>2 DEF Crossed
    <3>. QED  BY <1>9, <2>8, <3>1, <3>2
  <2>12. UpToDate(q)
    BY <1>2, <1>5, <1>7, <2>3, <2>4, <2>7, <2>9 DEF UpToDate
  <2>13. Agrees(q)
    BY <2>3, <2>6, <2>11, <2>12 DEF Agrees
  <2>. QED  BY <1>2, <2>1, <2>2, <2>13, SameRecords
<1>. QED  BY <1>t, <1>7, <1>8, <1>10, AgreesKept

LEMMA GrantAgrees ==
  ASSUME IInv, StandingsInv, NEW r \in Requests, Grant(r)
  PROVE  StandingsInv'
PROOF
<1>t. TypeOK
  BY DEF IInv
<1>1. PICK k \in Request : k = request[r]
  BY DEF IInv, TypeOK
<1>2. k.step = "grant" /\ UNCHANGED <<scores, played>>
  BY <1>1 DEF Grant
<1>3. PICK d \in k.todo :
        \/ /\ CreateToken(<<Current, d>>) /\ UNCHANGED disturbed
           /\ request' = [request EXCEPT ![r].todo = @ \ {d}, ![r].held = @ \union {<<Current, d>>}]
        \/ /\ request' = [request EXCEPT ![r].todo = @ \ {d}] /\ disturbed' = TRUE
  BY <1>1 DEF Grant
<1>4. CASE request' = [request EXCEPT ![r].todo = @ \ {d}] /\ disturbed' = TRUE
  <2>1. PICK q : q = [k EXCEPT !.todo = @ \ {d}]
    OBVIOUS
  <2>2. request' = [request EXCEPT ![r] = q]
    BY <1>t, <1>1, <1>4, <2>1 DEF TypeOK
  <2>. QED  BY <1>t, <1>4, <2>2, AgreesKept
<1>5. CASE /\ CreateToken(<<Current, d>>) /\ UNCHANGED disturbed
           /\ request' = [request EXCEPT ![r].todo = @ \ {d}, ![r].held = @ \union {<<Current, d>>}]
  <2>0. d \in Divisions /\ <<Current, d>> \in Tokens
    BY ArenaAssumption DEF Request, Tokens
  <2>1. PICK t \in Tokens : t = <<Current, d>> /\ d \in Divisions
    BY <2>0
  <2>2. PICK q : q = [k EXCEPT !.todo = @ \ {d}, !.held = @ \union {t}]
    OBVIOUS
  <2>3. /\ q.step = "grant" /\ q.left = k.left /\ q.id = k.id /\ q.was = k.was /\ q.now = k.now
        /\ q.todo = k.todo \ {d} /\ q.held = k.held \union {t} /\ q.ranked = k.ranked
        /\ q.points = k.points
    BY <1>2, <2>2 DEF Request
  <2>4. request' = [request EXCEPT ![r] = q]
    BY <1>t, <1>1, <1>5, <2>1, <2>2 DEF TypeOK
  <2>5. ASSUME ~ disturbed' PROVE ~ disturbed /\ Running \subseteq {r} /\ Agrees(q)'
    <3>1. ~ disturbed
      BY <1>5, <2>5
    <3>2. Running = {r} /\ Agrees(k)
      BY <1>t, <1>1, <1>2, <3>1, AloneAgrees
    <3>3. k.held = Existing /\ t \notin Existing /\ Points[d] <= k.now /\ OneRecord
      BY <1>2, <2>1, <3>2 DEF Agrees, UpToDate
    <3>4. Existing' = Existing \union {t} /\ \A u \in Tokens : tokens'[u] <= 1
      BY <1>t, <1>5, <2>1, <3>3, AddToken
    <3>5. Stored' = Stored /\ \A e \in Divisions : Attained(e)' <=> Attained(e)
      BY <1>2 DEF Stored, Attained
    <3>6. OneRecord'
      BY <1>2, <3>3, <3>4, <3>5 DEF OneRecord
    <3>7. Counted(q)'
      BY <1>2, <2>3, <3>2, <3>5 DEF Agrees, Counted, Worked
    <3>8. DivisionsExact(q)'
      <4>1. \A e \in Divisions : <<Current, e>> \in Existing <=>
              Attained(e) \/ (Points[e] <= k.now /\ e \notin k.todo)
        BY <1>2, <3>2 DEF Agrees, DivisionsExact
      <4>2. \A e \in Divisions : <<Current, e>> = t <=> e = d
        BY <2>1
      <4>. QED  BY <2>1, <2>3, <3>3, <3>4, <3>5, <4>1, <4>2 DEF DivisionsExact
    <3>9. \A i, x : Fresh(i, x)' <=> Fresh(i, x)
      BY <1>2, <3>5 DEF Fresh
    <3>10. UpToDate(q)'
      <4>1. /\ k.ranked /\ Fresh(k.id, k.was) /\ k.now = k.was.value + k.points
            /\ \A s \in k.left : s.id # k.id /\ Fresh(s.id, s)
            /\ \A e \in k.todo : Points[e] <= k.now /\ <<Current, e>> \notin Existing
        BY <1>2, <3>2 DEF Agrees, UpToDate
      <4>2. \A e \in q.todo : <<Current, e>> \notin Existing'
        BY <2>1, <2>3, <3>4, <4>1
      <4>. QED  BY <2>3, <3>3, <3>4, <3>9, <4>1, <4>2 DEF UpToDate
    <3>. QED  BY <3>1, <3>2, <3>6, <3>7, <3>8, <3>10 DEF Agrees
  <2>. QED  BY <1>t, <2>3, <2>4, <2>5, AgreesKept
<1>. QED  BY <1>3, <1>4, <1>5

(* The score is saved: what it reached is held by now.                     *)
LEMMA SaveScoreAgrees ==
  ASSUME IInv, StandingsInv, NEW r \in Requests, SaveScore(r)
  PROVE  StandingsInv'
PROOF
<1>t. TypeOK
  BY DEF IInv
<1>1. PICK k \in Request : k = request[r]
  BY DEF IInv, TypeOK
<1>2. k.step = "grant" /\ k.todo = {} /\ UNCHANGED <<tokens, played>>
  BY <1>1 DEF SaveScore
<1>3. PICK q : q = [k EXCEPT !.step = "next", !.id = None, !.was = NoScore, !.now = 0]
  OBVIOUS
<1>4. /\ q.step = "next" /\ q.left = k.left /\ q.held = k.held /\ q.ranked = k.ranked
      /\ q.points = k.points
  BY <1>3 DEF Request
<1>5. request' = [request EXCEPT ![r] = q]
  BY <1>t, <1>1, <1>3 DEF SaveScore, TypeOK
<1>6. PICK new : new = [k.was EXCEPT !.value = k.now]
  OBVIOUS
<1>7. disturbed' \/ (disturbed' = disturbed /\ scores' = [scores EXCEPT ![k.id] = new])
  BY <1>1, <1>6 DEF SaveScore
<1>8. /\ k.id \in Ids /\ k.was \in Score /\ k.now \in Nat /\ k.points \in Nat
      /\ new \in Score /\ new.value = k.now /\ new.season = k.was.season /\ new.since = k.was.since
  <2>1. k.id \in Ids /\ k.was \in Score
    BY <1>1, <1>2 DEF IInv, Remembers
  <2>. QED  BY <1>6, <2>1 DEF Request, Score
<1>9. ASSUME ~ disturbed' PROVE ~ disturbed /\ Running \subseteq {r} /\ Agrees(q)'
  <2>1. ~ disturbed /\ \A id \in Ids : scores'[id] = IF id = k.id THEN new ELSE scores[id]
    BY <1>t, <1>7, <1>9 DEF TypeOK
  <2>2. Running = {r} /\ Agrees(k)
    BY <1>t, <1>1, <1>2, <2>1, AloneAgrees
  <2>3. /\ k.ranked /\ Fresh(k.id, k.was) /\ k.now = k.was.value + k.points
        /\ \A s \in k.left : s.id # k.id /\ Fresh(s.id, s)
        /\ k.held = Existing
    BY <1>2, <2>2 DEF Agrees, UpToDate
  <2>4. Stored' = Stored /\ k.id \in Stored
    BY <1>8, <2>1, <2>3, NoScoreIsNone DEF Stored, Fresh
  <2>5. /\ \A id \in Stored \ {k.id} : scores'[id] = scores[id]
        /\ scores'[k.id] = new
        /\ \A id \in Stored : scores[id] \in Score /\ scores'[id].season = scores[id].season
    <3>1. \A id \in Stored : scores[id] \in Score
      BY <1>t DEF Stored, TypeOK
    <3>. QED  BY <1>8, <2>1, <2>3, <3>1 DEF Stored, Fresh
  <2>6. OneRecord'
    BY <1>2, <2>2, <2>4, <2>5 DEF OneRecord, Agrees
  <2>7. Worked(k) = Stored \ ({s.id : s \in k.left} \union {k.id})
        /\ Worked(q)' = Stored \ {s.id : s \in k.left}
    BY <1>2, <1>4, <2>3, <2>4 DEF Worked
  <2>8. Counted(q)'
    <3>. SUFFICES ASSUME NEW id \in Stored
                  PROVE  scores'[id].since + scores'[id].value
                           = IF id \in Worked(q)' THEN played + k.points ELSE played
      BY <1>2, <1>4, <2>4 DEF Counted
    <3>1. scores[id].since + scores[id].value = IF id \in Worked(k) THEN played + k.points ELSE played
      BY <2>2 DEF Agrees, Counted
    <3>2. CASE id # k.id
      BY <2>5, <2>7, <3>1, <3>2
    <3>3. CASE id = k.id
      <4>1. id \in Worked(q)' /\ id \notin Worked(k)
        BY <2>3, <2>7, <3>3
      <4>2. scores[id].since = k.was.since /\ scores[id].value = k.was.value
        BY <2>3, <3>3 DEF Fresh
      <4>3. scores'[id].since = k.was.since /\ scores'[id].value = k.was.value + k.points
        BY <1>8, <2>3, <2>5, <3>3
      <4>4. k.was.since \in Nat /\ k.was.value \in Nat /\ played \in Nat
        BY <1>t, <1>8 DEF Score, TypeOK
      <4>. QED  BY <1>8, <3>1, <4>1, <4>2, <4>3, <4>4
    <3>. QED  BY <3>2, <3>3
  <2>9. DivisionsExact(q)'
    <3>. SUFFICES ASSUME NEW d \in Divisions
                  PROVE  <<Current, d>> \in Existing' <=> Attained(d)'
      BY <1>4 DEF DivisionsExact
    <3>1. <<Current, d>> \in Existing <=> Attained(d) \/ Points[d] <= k.now
      BY <1>2, <2>2 DEF Agrees, DivisionsExact
    <3>2. Existing' = Existing
      BY <1>2 DEF Existing
    <3>3. k.was.value \in Nat /\ Points[d] \in Nat /\ k.was.value <= k.now
      BY <1>8, <2>3, ArenaAssumption DEF Score
    <3>4. ASSUME Attained(d) PROVE Attained(d)'
      <4>1. PICK id \in Stored : scores[id].value >= Points[d]
        BY <3>4 DEF Attained
      <4>2. CASE id = k.id
        <5>1. scores[id].value = k.was.value /\ scores'[id].value = k.now
          BY <1>8, <2>3, <2>5, <4>2 DEF Fresh
        <5>2. scores'[id].value >= Points[d]
          BY <1>8, <3>3, <4>1, <5>1
        <5>. QED  BY <2>4, <5>2 DEF Attained
      <4>3. CASE id # k.id
        BY <2>4, <2>5, <4>1, <4>3 DEF Attained
      <4>. QED  BY <4>2, <4>3
    <3>5. ASSUME Points[d] <= k.now PROVE Attained(d)'
      <4>1. scores'[k.id].value >= Points[d]
        BY <1>8, <2>5, <3>3, <3>5
      <4>. QED  BY <2>4, <4>1 DEF Attained
    <3>6. ASSUME Attained(d)' PROVE Attained(d) \/ Points[d] <= k.now
      <4>1. PICK id \in Stored : scores'[id].value >= Points[d]
        BY <2>4, <3>6 DEF Attained
      <4>2. CASE id = k.id
        BY <1>8, <2>5, <3>3, <4>1, <4>2
      <4>3. CASE id # k.id
        BY <2>5, <4>1, <4>3 DEF Attained
      <4>. QED  BY <4>2, <4>3
    <3>. QED  BY <3>1, <3>2, <3>4, <3>5, <3>6
  <2>10. UpToDate(q)'
    <3>1. Existing' = Existing
      BY <1>2 DEF Existing
    <3>2. \A s \in k.left : Fresh(s.id, s)'
      BY <2>3, <2>4, <2>5 DEF Fresh
    <3>. QED  BY <1>4, <2>3, <3>1, <3>2 DEF UpToDate
  <2>. QED  BY <2>1, <2>2, <2>6, <2>8, <2>9, <2>10 DEF Agrees
<1>. QED  BY <1>t, <1>4, <1>5, <1>9, AgreesKept

(* The answer: every score has the points, or none.                        *)
LEMMA AnswerAgrees ==
  ASSUME IInv, StandingsInv, NEW r \in Requests, Answer(r)
  PROVE  StandingsInv'
PROOF
<1>t. TypeOK
  BY DEF IInv
<1>1. PICK k \in Request : k = request[r]
  BY DEF IInv, TypeOK
<1>2. /\ k.step = "next" /\ (k.ranked => k.left = {}) /\ UNCHANGED <<tokens, scores, disturbed>>
      /\ played' = IF k.ranked THEN played + k.points ELSE played
      /\ request' = [request EXCEPT ![r] = At("done")]
  BY <1>1 DEF Answer
<1>3. ASSUME ~ disturbed' PROVE ~ disturbed /\ Running \subseteq {r} /\ Settled'
  <2>1. ~ disturbed
    BY <1>2, <1>3
  <2>2. Running = {r} /\ Agrees(k)
    BY <1>t, <1>1, <1>2, <2>1, AloneAgrees
  <2>3. \A id \in Stored : scores[id].since + scores[id].value = played'
    <3>1. CASE k.ranked
      <4>1. Worked(k) = Stored
        BY <1>2, <3>1 DEF Worked
      <4>. QED  BY <1>2, <2>2, <3>1, <4>1 DEF Agrees, Counted
    <3>2. CASE ~ k.ranked
      <4>1. Worked(k) = {}
        BY <3>2, NoneWorked
      <4>. QED  BY <1>2, <2>2, <3>2, <4>1 DEF Agrees, Counted
    <3>. QED  BY <3>1, <3>2
  <2>4. OneRecord /\ \A d \in Divisions : <<Current, d>> \in Existing <=> Attained(d)
    BY <1>2, <2>2 DEF Agrees, DivisionsExact
  <2>5. Settled'
    BY <1>2, <2>3, <2>4 DEF Settled, OneRecord, Stored, Existing, Attained
  <2>. QED  BY <2>1, <2>2, <2>5
<1>. QED  BY <1>t, <1>2, <1>3, AgreesDone

(* The page: a first record for the seasons that have none.                *)
LEMMA PageTokenAgrees ==
  ASSUME IInv, StandingsInv, NEW r \in Requests, PageToken(r)
  PROVE  StandingsInv'
PROOF
<1>t. TypeOK
  BY DEF IInv
<1>1. PICK k \in Request : k = request[r]
  BY DEF IInv, TypeOK
<1>2. PICK s \in k.missing :
        /\ request' = [request EXCEPT ![r].missing = @ \ {s}]
        /\ \/ CreateToken(<<s, First>>) /\ UNCHANGED disturbed
           \/ disturbed' = TRUE /\ UNCHANGED tokens
  BY <1>1 DEF PageToken
<1>3. k.step = "pageTokens" /\ UNCHANGED <<scores, played>>
  BY <1>1 DEF PageToken
<1>4. <<s, First>> \in Tokens
  BY DEF Request, Tokens
<1>5. PICK t \in Tokens : t = <<s, First>>
  BY <1>4
<1>6. PICK q : q = [k EXCEPT !.missing = @ \ {s}]
  OBVIOUS
<1>7. q.step = "pageTokens" /\ q.left = k.left /\ q.missing = k.missing \ {s}
  BY <1>3, <1>6 DEF Request
<1>8. request' = [request EXCEPT ![r] = q]
  BY <1>t, <1>1, <1>2, <1>6 DEF TypeOK
<1>9. ASSUME ~ disturbed' PROVE ~ disturbed /\ Running \subseteq {r} /\ Agrees(q)'
  <2>1. ~ disturbed /\ CreateToken(t)
    BY <1>2, <1>5, <1>9
  <2>2. Running = {r} /\ Agrees(k)
    BY <1>t, <1>1, <1>3, <2>1, AloneAgrees
  <2>3. Settled
    BY <1>3, <2>2, SettledAgrees, NoneWorked DEF Agrees
  <2>4. /\ \A u \in Tokens : u[1] \in k.missing => u \notin Existing
        /\ \A x \in k.left : Fresh(x.id, x)
    BY <1>3, <2>2 DEF Agrees, UpToDate
  <2>5. t \notin Existing
    BY <1>5, <2>4
  <2>6. Existing' = Existing \union {t} /\ \A u \in Tokens : tokens'[u] <= 1
    BY <1>t, <2>1, <2>3, <2>5, AddToken DEF Settled
  <2>7. \A d \in Divisions : t # <<Current, d>>
    BY <1>5, ArenaAssumption
  <2>8. Settled'
    BY <1>3, <2>3, <2>6, <2>7 DEF Settled, OneRecord, Stored, Attained
  <2>9. OneRecord' /\ Counted(q)' /\ DivisionsExact(q)'
    BY <1>7, <2>8 DEF Settled, Counted, DivisionsExact, Worked
  <2>10. UpToDate(q)'
    <3>1. \A u \in Tokens : u[1] \in q.missing => u \notin Existing'
      BY <1>5, <1>7, <2>4, <2>6
    <3>. QED  BY <1>3, <1>7, <2>4, <3>1 DEF UpToDate, Fresh, Stored
  <2>. QED  BY <2>1, <2>2, <2>9, <2>10 DEF Agrees
<1>. QED  BY <1>t, <1>7, <1>8, <1>9, AgreesKept

LEMMA PageFindScoresAgrees ==
  ASSUME IInv, StandingsInv, NEW r \in Requests, PageFindScores(r)
  PROVE  StandingsInv'
PROOF
<1>t. TypeOK
  BY DEF IInv
<1>1. PICK k \in Request : k = request[r]
  BY DEF IInv, TypeOK
<1>2. PICK found \in {Stored, {}} :
        /\ request' = [request EXCEPT ![r].step = "pageScores",
             ![r].missing = request[r].asked \ {scores[id].season : id \in found}]
        /\ disturbed' = (disturbed \/ found # Stored)
  BY DEF PageFindScores
<1>3. k.step = "pageTokens" /\ UNCHANGED <<tokens, scores, played>>
  BY <1>1 DEF PageFindScores
<1>4. PICK q : q = [k EXCEPT !.step = "pageScores",
                             !.missing = k.asked \ {scores[id].season : id \in found}]
  OBVIOUS
<1>5. /\ q.step = "pageScores" /\ q.left = k.left
      /\ q.missing = k.asked \ {scores[id].season : id \in found}
  BY <1>4 DEF Request
<1>6. request' = [request EXCEPT ![r] = q]
  BY <1>t, <1>1, <1>2, <1>4 DEF TypeOK
<1>7. ASSUME ~ disturbed' PROVE ~ disturbed /\ Running \subseteq {r} /\ Agrees(q)'
  <2>1. ~ disturbed /\ found = Stored
    BY <1>t, <1>2, <1>7 DEF TypeOK
  <2>2. Running = {r} /\ Agrees(k)
    BY <1>t, <1>1, <1>3, <2>1, AloneAgrees
  <2>3. OneRecord /\ Counted(q) /\ DivisionsExact(q)
    BY <1>3, <1>5, <2>2, SettledAgrees, NoneWorked DEF Agrees
  <2>4. UpToDate(q)
    BY <1>5, <2>1, <2>2 DEF Agrees, UpToDate
  <2>5. Agrees(q)
    BY <2>3, <2>4 DEF Agrees
  <2>. QED  BY <1>3, <2>1, <2>2, <2>5, SameRecords
<1>. QED  BY <1>t, <1>5, <1>6, <1>7, AgreesKept

LEMMA PageScoreAgrees ==
  ASSUME IInv, StandingsInv, NEW r \in Requests, PageScore(r)
  PROVE  StandingsInv'
PROOF
<1>t. TypeOK
  BY DEF IInv
<1>1. PICK k \in Request : k = request[r]
  BY DEF IInv, TypeOK
<1>2. PICK s \in k.missing :
        /\ request' = [request EXCEPT ![r].missing = @ \ {s}]
        /\ \/ \E id \in Ids : CreateScore(id, s) /\ UNCHANGED disturbed
           \/ disturbed' = TRUE /\ UNCHANGED scores
  BY <1>1 DEF PageScore
<1>3. k.step = "pageScores" /\ UNCHANGED <<tokens, played>> /\ s \in Seasons
  BY <1>1 DEF PageScore, Request
<1>4. PICK q : q = [k EXCEPT !.missing = @ \ {s}]
  OBVIOUS
<1>5. q.step = "pageScores" /\ q.left = k.left /\ q.missing = k.missing \ {s}
  BY <1>3, <1>4 DEF Request
<1>6. request' = [request EXCEPT ![r] = q]
  BY <1>t, <1>1, <1>2, <1>4 DEF TypeOK
<1>7. ASSUME ~ disturbed' PROVE ~ disturbed /\ Running \subseteq {r} /\ Agrees(q)'
  <2>1. ~ disturbed
    BY <1>2, <1>7
  <2>0. PICK id \in Ids : CreateScore(id, s)
    BY <1>2, <1>7
  <2>2. Running = {r} /\ Agrees(k)
    BY <1>t, <1>1, <1>3, <2>1, AloneAgrees
  <2>3. Settled
    BY <1>3, <2>2, SettledAgrees, NoneWorked DEF Agrees
  <2>4. /\ \A o \in Stored : scores[o].season \notin k.missing
        /\ \A x \in k.left : Fresh(x.id, x)
    BY <1>3, <2>2 DEF Agrees, UpToDate
  <2>5. /\ id \notin Stored /\ Stored' = Stored \union {id}
        /\ scores'[id].value = 0 /\ scores'[id].season = s /\ scores'[id].since = played
        /\ \A o \in Stored : scores'[o] = scores[o]
        /\ \A d \in Divisions : Attained(d)' <=> Attained(d)
    BY <1>t, <1>3, <2>0, AddScore
  <2>6. \A o \in Stored : scores'[o].season # s
    BY <2>4, <2>5
  <2>7. OneRecord'
    BY <1>3, <2>3, <2>5, <2>6 DEF Settled, OneRecord
  <2>8. \A o \in Stored' : scores'[o].since + scores'[o].value = played'
    BY <1>t, <1>3, <2>3, <2>5 DEF Settled, TypeOK
  <2>9. \A d \in Divisions : <<Current, d>> \in Existing' <=> Attained(d)'
    BY <1>3, <2>3, <2>5 DEF Settled, Existing
  <2>10. OneRecord' /\ Counted(q)' /\ DivisionsExact(q)'
    BY <1>5, <2>7, <2>8, <2>9 DEF Counted, DivisionsExact, Worked
  <2>11. UpToDate(q)'
    BY <1>3, <1>5, <2>4, <2>5 DEF UpToDate, Fresh
  <2>. QED  BY <2>1, <2>2, <2>10, <2>11 DEF Agrees
<1>. QED  BY <1>t, <1>5, <1>6, <1>7, AgreesKept

LEMMA PageEndsAgrees ==
  ASSUME IInv, StandingsInv, NEW r \in Requests, PageEnds(r)
  PROVE  StandingsInv'
PROOF
<1>t. TypeOK
  BY DEF IInv
<1>1. PICK k : k = request[r]
  OBVIOUS
<1>2. /\ k.step = "pageScores" /\ UNCHANGED <<tokens, scores, played, disturbed>>
      /\ request' = [request EXCEPT ![r] = At("done")]
  BY <1>1 DEF PageEnds
<1>3. ASSUME ~ disturbed' PROVE ~ disturbed /\ Running \subseteq {r} /\ Settled'
  <2>1. ~ disturbed
    BY <1>2, <1>3
  <2>2. Running = {r} /\ Agrees(k)
    BY <1>t, <1>1, <1>2, <2>1, AloneAgrees
  <2>3. Settled
    BY <1>2, <2>2, SettledAgrees, NoneWorked DEF Agrees
  <2>4. Settled'
    BY <1>2, <2>3 DEF Settled, OneRecord, Stored, Existing, Attained
  <2>. QED  BY <2>1, <2>2, <2>4
<1>. QED  BY <1>t, <1>2, <1>3, AgreesDone

(* Between requests that nothing disturbed, a season has one score that    *)
(* counts every result since it was stored, each token is stored once, and *)
(* a division is held exactly if some score reached it.                    *)
THEOREM UndisturbedAgree == Spec => []StandingsAgree
PROOF
<1>1. Init => StandingsInv
  <2>. SUFFICES ASSUME Init PROVE StandingsInv
    OBVIOUS
  <2>1. Running = {} /\ Stored = {} /\ Existing = {}
    BY DEF Init, Running, Stored, Existing, At
  <2>2. OneRecord
    BY <2>1 DEF Init, OneRecord
  <2>3. Settled
    BY <2>1, <2>2 DEF Settled, Attained
  <2>4. PICK q : q = At("done") /\ q.step = "done" /\ q.left = {}
    <3>1. At("done").step = "done" /\ At("done").left = {}
      BY DEF At
    <3>. QED  BY <3>1
  <2>5. Agrees(q)
    BY <2>3, <2>4, SettledAgrees, NoneWorked DEF Agrees, UpToDate
  <2>. QED  BY <2>1, <2>4, <2>5 DEF StandingsInv, AtWork
<1>2. IInv /\ StandingsInv /\ [Next]_vars => StandingsInv'
  <2>. SUFFICES ASSUME IInv, StandingsInv, [Next]_vars PROVE StandingsInv'
    OBVIOUS
  <2>1. ASSUME NEW r \in Requests, NEW g \in Games, MatchResults(r, g) PROVE StandingsInv'
    BY <2>1, MatchResultsAgrees
  <2>2. ASSUME NEW r \in Requests,
               FirstToken(r) \/ FindScores(r) \/ FirstScore(r) \/ NextScore(r) \/ Grant(r)
        PROVE  StandingsInv'
    BY <2>2, FirstTokenAgrees, FindScoresAgrees, FirstScoreAgrees, NextScoreAgrees, GrantAgrees
  <2>3. ASSUME NEW r \in Requests, SaveScore(r) \/ Answer(r) PROVE StandingsInv'
    BY <2>3, SaveScoreAgrees, AnswerAgrees
  <2>4. ASSUME NEW r \in Requests,
               EventsPage(r) \/ PageToken(r) \/ PageFindScores(r) \/ PageScore(r) \/ PageEnds(r)
        PROVE  StandingsInv'
    BY <2>4, EventsPageAgrees, PageTokenAgrees, PageFindScoresAgrees, PageScoreAgrees, PageEndsAgrees
  <2>5. CASE Crash
    BY <2>5 DEF Crash, StandingsInv
  <2>6. CASE UNCHANGED vars
    <3>1. ~ disturbed' => /\ AtWork' = AtWork /\ Running' = Running /\ ~ disturbed
      BY <2>6 DEF vars, AtWork, Running
    <3>. QED  BY <2>6, <3>1, SameRecords DEF StandingsInv, vars
  <2>. QED  BY <2>1, <2>2, <2>3, <2>4, <2>5, <2>6 DEF Next
<1>3. IInv /\ StandingsInv => StandingsAgree
  <2>. SUFFICES ASSUME IInv, StandingsInv, ~ disturbed, Running = {}
                PROVE  /\ \A id, other \in Stored : scores[id].season = scores[other].season => id = other
                       /\ \A id \in Stored : scores[id].value = played - scores[id].since
                       /\ \A t \in Tokens : tokens[t] <= 1
                       /\ \A d \in Divisions : <<Current, d>> \in Existing <=>
                            \E id \in Stored : scores[id].value >= Points[d]
    BY DEF StandingsAgree
  <2>1. Settled
    BY IdleAgrees
  <2>2. \A id \in Stored : scores[id].since \in Nat /\ scores[id].value \in Nat
    BY DEF IInv, TypeOK, Stored, Score
  <2>. QED  BY <2>1, <2>2 DEF Settled, OneRecord, Attained
<1>. QED  BY <1>1, <1>2, <1>3, Invariance, PTL DEF Spec
=============================================================================
