-------------------------------- MODULE Arena --------------------------------
(***************************************************************************)
(* Hype scores and divisions of the arena of the backend: the tournament   *)
(* part of the match results (router/remix/server/fortnite/                *)
(* remix_server_fortnite_match.go) and the page of events, which gives     *)
(* every season its first records (router/fortnite/fortnite_events.go).    *)
(* Each request runs in its own goroutine: a step is one call of the store *)
(* (odin, external) with the decision that follows.  There is no lock, a   *)
(* call may fail, and the process may end between any two.                 *)
(*                                                                         *)
(* The records of an account concern nobody else: there is one account.    *)
(* Every score is of type Hype.  The current season is configuration, and  *)
(* does not change while the process runs.                                 *)
(***************************************************************************)
EXTENDS Naturals, FiniteSets

CONSTANTS
  Seasons,     \* those of all clients
  Pages,       \* the seasons a page covers: those up to that of its User-Agent
  Current,     \* CURRENT_VERSION
  Divisions,   \* the divisions above the first
  Points,      \* the points each of them takes
  Games,       \* the results a game server may send
  Placements,  \* the places that give points, with the points of each
  Hype,        \* the points of one elimination
  Ids,         \* bound: score records stored at once
  None,
  Requests     \* bound: the requests that are ever made

First == "first"  \* the first division

ASSUME ArenaAssumption ==
  /\ Current \in Seasons /\ Pages \subseteq SUBSET Seasons /\ First \notin Divisions /\ Hype \in Nat
  /\ Points \in [Divisions -> Nat \ {0}]
  /\ Games \subseteq [kills : Nat, place : Nat, starting : Nat, ranked : BOOLEAN]
  /\ Placements \subseteq Nat \X Nat
  /\ None \notin Ids \union Seasons

Tokens == Seasons \X (Divisions \union {First})
Score == [season : Seasons, value : Nat, since : Nat]
NoScore == [season |-> None, value |-> 0, since |-> 0]

VARIABLES
  tokens,     \* Fortnite_Tournament_Tokens: the records of each token
  scores,     \* Fortnite_Tournament_Scores: the record under each id
  request,    \* what the goroutine of each request knows
  played,     \* history: the points of the results that were answered
  missed,     \* history: the divisions whose token could not be created
  disturbed   \* history: requests overlapped, or a call of the store failed

vars == <<tokens, scores, request, played, missed, disturbed>>

\* What a request does next, in the order of the code.
Steps == {"new", "token", "scores", "score", "next", "grant",
          "pageTokens", "pageScores", "page", "done"}

\* held: event_tokens; left: the scores still to be worked on; id, was and
\* now: the one at work, as read and as it will be saved; todo: the divisions
\* it reaches; asked: the seasons of a page; missing: those without a record.
Seen == [id : Ids, value : Nat, season : Seasons, since : Nat]
Request == [step : Steps, points : Nat, ranked : BOOLEAN, held : SUBSET Tokens,
            left : SUBSET Seen, id : Ids \union {None}, was : Score \union {NoScore},
            now : Nat, todo : SUBSET Divisions,
            asked : SUBSET Seasons, missing : SUBSET Seasons]
At(step) == [step |-> step, points |-> 0, ranked |-> FALSE, held |-> {}, left |-> {},
             id |-> None, was |-> NoScore, now |-> 0, todo |-> {}, asked |-> {}, missing |-> {}]

TypeOK ==
  /\ tokens \in [Tokens -> Nat]
  /\ scores \in [Ids -> Score \union {NoScore}]
  /\ request \in [Requests -> Request]
  /\ played \in Nat /\ missed \subseteq Divisions /\ disturbed \in BOOLEAN

Running == {r \in Requests : request[r].step \notin {"new", "done"}}
Existing == {t \in Tokens : tokens[t] > 0}
Stored == {id \in Ids : scores[id] # NoScore}
-----------------------------------------------------------------------------
Init ==
  /\ tokens = [t \in Tokens |-> 0]
  /\ scores = [id \in Ids |-> NoScore]
  /\ request = [r \in Requests |-> At("new")]
  /\ played = 0 /\ missed = {} /\ disturbed = FALSE

\* The places that a result reaches: the game began with as many players.
Reached(g) == {p \in Placements : g.place <= p[1] /\ g.starting >= p[1]}
\* The first of them counts, in the order of the table.
PlacementPoints(g) ==
  IF Reached(g) = {} THEN {0}
  ELSE {p[2] : p \in {p \in Reached(g) : \A q \in Reached(g) : p[1] <= q[1]}}
PointsOf(g) == {Hype * g.kills + points : points \in PlacementPoints(g)}

\* POSTBroadcastMatchResults up to the look for tokens; one that fails finds
\* none.
MatchResults(r, g) ==
  /\ request[r].step = "new"
  /\ \E held \in {Existing, {}}, points \in PointsOf(g) :
       /\ request' = [request EXCEPT ![r] =
            [At(IF held = {} THEN "token" ELSE "scores") EXCEPT
               !.points = points, !.ranked = g.ranked, !.held = held]]
       /\ disturbed' = (disturbed \/ Running # {} \/ held # Existing)
  /\ UNCHANGED <<tokens, scores, played, missed>>

CreateToken(t) == tokens' = [tokens EXCEPT ![t] = @ + 1]

\* The token of the first division; a failure is logged.
FirstToken(r) ==
  LET t == <<Current, First>> IN
  /\ request[r].step = "token"
  /\ \/ /\ CreateToken(t)
        /\ request' = [request EXCEPT ![r].step = "scores", ![r].held = {t}]
        /\ UNCHANGED disturbed
     \/ /\ request' = [request EXCEPT ![r].step = "scores"]
        /\ disturbed' = TRUE
        /\ UNCHANGED tokens
  /\ UNCHANGED <<scores, played, missed>>

Snapshot(found) == {[id |-> id, value |-> scores[id].value,
                     season |-> scores[id].season, since |-> scores[id].since] : id \in found}

\* The look for scores, of whichever season.
FindScores(r) ==
  /\ request[r].step = "scores"
  /\ \E found \in {Stored, {}} :
       /\ request' = [request EXCEPT ![r].step = IF found = {} THEN "score" ELSE "next",
                                     ![r].left = Snapshot(found)]
       /\ disturbed' = (disturbed \/ found # Stored)
  /\ UNCHANGED <<tokens, scores, played, missed>>

CreateScore(id, season) ==
  /\ scores[id] = NoScore
  /\ scores' = [scores EXCEPT ![id] = [season |-> season, value |-> 0, since |-> played]]

FirstScore(r) ==
  /\ request[r].step = "score"
  /\ \/ \E id \in Ids :
          /\ CreateScore(id, Current)
          /\ request' = [request EXCEPT ![r].step = "next", ![r].left =
               {[id |-> id, value |-> 0, season |-> Current, since |-> played]}]
          /\ UNCHANGED disturbed
     \/ /\ request' = [request EXCEPT ![r].step = "next"]
        /\ disturbed' = TRUE
        /\ UNCHANGED scores
  /\ UNCHANGED <<tokens, played, missed>>

\* The divisions between the old value and the new one.
\* Mutant of Crossed: a division reached exactly is passed over.
CrossedBeyond(was, now) == {d \in Divisions : was < Points[d] /\ now > Points[d]}
Crossed(was, now) == {d \in Divisions : was < Points[d] /\ now >= Points[d]}

\* The next score, in any order of the store.
NextScore(r) ==
  LET q == request[r] IN
  /\ q.step = "next" /\ q.ranked
  /\ \E s \in q.left :
       request' = [request EXCEPT ![r].step = "grant", ![r].left = @ \ {s}, ![r].id = s.id,
         ![r].was = [season |-> s.season, value |-> s.value, since |-> s.since],
         ![r].now = s.value + q.points,
         ![r].todo = {d \in Crossed(s.value, s.value + q.points) : <<Current, d>> \notin q.held}]
  /\ UNCHANGED <<tokens, scores, played, missed, disturbed>>

\* One token, the lowest division first; a failure is logged.
Grant(r) ==
  LET q == request[r] IN
  /\ q.step = "grant"
  /\ \E d \in q.todo :
       /\ \A e \in q.todo : Points[d] <= Points[e]
       /\ \/ /\ CreateToken(<<Current, d>>)
             /\ request' = [request EXCEPT ![r].todo = @ \ {d}, ![r].held = @ \union {<<Current, d>>}]
             /\ UNCHANGED <<missed, disturbed>>
          \/ /\ request' = [request EXCEPT ![r].todo = @ \ {d}]
             /\ missed' = missed \union {d} /\ disturbed' = TRUE
             /\ UNCHANGED tokens
  /\ UNCHANGED <<scores, played>>

\* The score is saved after its tokens; a failure is logged.
\* Mutant of SaveScore: it does not wait for the tokens.
SaveScoreEarly(r) ==
  LET q == request[r] IN
  /\ q.step = "grant"
  /\ scores' = [scores EXCEPT ![q.id] = [q.was EXCEPT !.value = q.now]]
  /\ request' = [request EXCEPT ![r].step = "next", ![r].id = None, ![r].was = NoScore, ![r].now = 0]
  /\ UNCHANGED <<tokens, played, missed, disturbed>>
SaveScore(r) ==
  LET q == request[r] IN
  /\ q.step = "grant" /\ q.todo = {}
  /\ \/ /\ scores' = [scores EXCEPT ![q.id] = [q.was EXCEPT !.value = q.now]]
        /\ UNCHANGED disturbed
     \/ UNCHANGED scores /\ disturbed' = TRUE
  /\ request' = [request EXCEPT ![r].step = "next", ![r].id = None, ![r].was = NoScore, ![r].now = 0]
  /\ UNCHANGED <<tokens, played, missed>>

Answer(r) ==
  LET q == request[r] IN
  /\ q.step = "next" /\ (q.ranked => q.left = {})
  /\ request' = [request EXCEPT ![r] = At("done")]
  /\ played' = IF q.ranked THEN played + q.points ELSE played
  /\ UNCHANGED <<tokens, scores, missed, disturbed>>

\* DownloadEventsViaAccountId up to the look for tokens.
EventsPage(r) ==
  /\ request[r].step = "new"
  /\ \E asked \in Pages, held \in {Existing, {}} :
       /\ request' = [request EXCEPT ![r] = [At("pageTokens") EXCEPT
            !.asked = asked, !.missing = asked \ {t[1] : t \in held}]]
       /\ disturbed' = (disturbed \/ Running # {} \/ held # Existing)
  /\ UNCHANGED <<tokens, scores, played, missed>>

\* A record for each season without one; failures are ignored.
PageToken(r) ==
  /\ request[r].step = "pageTokens"
  /\ \E s \in request[r].missing :
       /\ request' = [request EXCEPT ![r].missing = @ \ {s}]
       /\ \/ CreateToken(<<s, First>>) /\ UNCHANGED disturbed
          \/ disturbed' = TRUE /\ UNCHANGED tokens
  /\ UNCHANGED <<scores, played, missed>>

PageFindScores(r) ==
  /\ request[r].step = "pageTokens" /\ request[r].missing = {}
  /\ \E found \in {Stored, {}} :
       /\ request' = [request EXCEPT ![r].step = "pageScores",
            ![r].missing = request[r].asked \ {scores[id].season : id \in found}]
       /\ disturbed' = (disturbed \/ found # Stored)
  /\ UNCHANGED <<tokens, scores, played, missed>>

PageScore(r) ==
  /\ request[r].step = "pageScores"
  /\ \E s \in request[r].missing :
       /\ request' = [request EXCEPT ![r].missing = @ \ {s}]
       /\ \/ \E id \in Ids : CreateScore(id, s) /\ UNCHANGED disturbed
          \/ disturbed' = TRUE /\ UNCHANGED scores
  /\ UNCHANGED <<tokens, played, missed>>

PageEnds(r) ==
  /\ request[r].step = "pageScores" /\ request[r].missing = {}
  /\ request' = [request EXCEPT ![r] = At("done")]
  /\ UNCHANGED <<tokens, scores, played, missed, disturbed>>

\* The process ends, and with it every request.
Crash ==
  /\ Running # {}
  /\ request' = [r \in Requests |-> IF r \in Running THEN At("done") ELSE request[r]]
  /\ disturbed' = TRUE
  /\ UNCHANGED <<tokens, scores, played, missed>>

Next ==
  \/ \E r \in Requests, g \in Games : MatchResults(r, g)
  \/ \E r \in Requests :
       \/ FirstToken(r) \/ FindScores(r) \/ FirstScore(r) \/ NextScore(r) \/ Grant(r)
       \/ SaveScore(r) \/ Answer(r)
       \/ EventsPage(r) \/ PageToken(r) \/ PageFindScores(r) \/ PageScore(r) \/ PageEnds(r)
  \/ Crash

Spec == Init /\ [][Next]_vars
-----------------------------------------------------------------------------
(* Properties. *)

\* Overlaps, lost saves and crashes notwithstanding, a stored score has the
\* token of every division it reached, but for tokens that could not be
\* created: the tokens go before the score (the loop over divisions).
Held(value) == \A d \in Divisions \ missed : Points[d] <= value => <<Current, d>> \in Existing
DivisionsHeld == \A id \in Stored : Held(scores[id].value)

\* Between requests that nothing disturbed, a season has one score, which
\* counts every result since it was stored, each token is stored once, and a
\* division is held exactly if some score reached it.
StandingsAgree ==
  ~ disturbed /\ Running = {} =>
    /\ \A id, other \in Stored : scores[id].season = scores[other].season => id = other
    /\ \A id \in Stored : scores[id].value = played - scores[id].since
    /\ \A t \in Tokens : tokens[t] <= 1
    /\ \A d \in Divisions : <<Current, d>> \in Existing <=>
         \E id \in Stored : scores[id].value >= Points[d]

\* The inductive invariant: what a request remembers was stored, and a score
\* it is about to save has its tokens, but for those it still creates.
Remembers(q) ==
  /\ q.held \subseteq Existing
  /\ \A s \in q.left : Held(s.value)
  /\ q.step = "grant" =>
       /\ q.id \in Ids /\ q.was \in Score
       /\ \A d \in Divisions \ missed :
            Points[d] <= q.now => d \in q.todo \/ <<Current, d>> \in Existing
IInv == TypeOK /\ DivisionsHeld /\ \A r \in Requests : Remembers(request[r])

\* The scores that a request has brought up to date so far.
Worked(q) ==
  IF q.ranked /\ q.step \in {"next", "grant"}
    THEN Stored \ ({s.id : s \in q.left} \union (IF q.step = "grant" THEN {q.id} ELSE {}))
    ELSE {}
Attained(d) == \E id \in Stored : scores[id].value >= Points[d]
\* A score as a request read it: nobody has changed it since.
Fresh(id, s) ==
  /\ id \in Stored
  /\ scores[id].season = s.season /\ scores[id].value = s.value /\ scores[id].since = s.since

OneRecord ==
  /\ \A id, other \in Stored : scores[id].season = scores[other].season => id = other
  /\ \A t \in Tokens : tokens[t] <= 1
Counted(q) ==
  \A id \in Stored : scores[id].since + scores[id].value =
                       IF id \in Worked(q) THEN played + q.points ELSE played
DivisionsExact(q) ==
  \A d \in Divisions : <<Current, d>> \in Existing <=>
    Attained(d) \/ (q.step = "grant" /\ Points[d] <= q.now /\ d \notin q.todo)
UpToDate(q) ==
  /\ q.step = "token" => Existing = {}
  /\ q.step = "score" => Stored = {}
  /\ q.step \in {"scores", "score", "next", "grant"} => q.held = Existing
  /\ \A s \in q.left : Fresh(s.id, s)
  /\ q.step = "grant" =>
       /\ q.ranked /\ Fresh(q.id, q.was) /\ q.now = q.was.value + q.points
       /\ \A s \in q.left : s.id # q.id
       /\ \A d \in q.todo : Points[d] <= q.now /\ <<Current, d>> \notin Existing
  /\ q.step = "pageTokens" => \A t \in Tokens : t[1] \in q.missing => t \notin Existing
  /\ q.step = "pageScores" => \A id \in Stored : scores[id].season \notin q.missing

\* The strengthening of StandingsAgree: until something is disturbed, one
\* request runs at a time, what it remembers is what is stored, and the
\* records agree up to what it still has to save.
Agrees(q) == OneRecord /\ Counted(q) /\ DivisionsExact(q) /\ UpToDate(q)
AtWork == IF Running = {} THEN {At("done")} ELSE {request[r] : r \in Running}
StandingsInv ==
  ~ disturbed => /\ \A r, other \in Running : r = other
                 /\ \A q \in AtWork : Agrees(q)
=============================================================================
