------------------------------ MODULE Progress ------------------------------
(***************************************************************************)
(* The season of a player on the backend, from version 17 on: the level,   *)
(* the battle stars and the V-Bucks that match results earn (router/remix/ *)
(* server/fortnite/remix_server_fortnite_match.go), the levels and passes  *)
(* that V-Bucks buy, and what stars are exchanged for (router/fortnite/    *)
(* mcp/fortnite_mcp_purchasemultiplecatalogentries.go and fortnite_mcp_    *)
(* exchangegamecurrencyforbattlepassoffer.go).                             *)
(*                                                                         *)
(* Each request runs in its own goroutine.  It reads whole records of the  *)
(* account, season, athena and common_core, and writes them back one after *)
(* the other: a step is one call of the store (odin, external) with the    *)
(* decision that follows.  There is no lock, a call may fail, and the      *)
(* process may end between any two.  The items that are granted on the way *)
(* and the quests are left out.                                            *)
(*                                                                         *)
(* Purchases key the season by the client's User-Agent, results by         *)
(* CURRENT_VERSION: the client is of the current version, and both have    *)
(* one record.  An exchange has at most one offer that gives V-Bucks.      *)
(***************************************************************************)
EXTENDS Integers, FiniteSets

CONSTANTS
  Last,       \* the last level of xp.json
  Total,      \* what the levels before each take together, by xp.json
  Starred,    \* the levels whose reward is battle stars
  FreePass,   \* "granted", "absent" or "broken": what the pass data gives
  Games,      \* the results a game server may send
  Offers,     \* the offers of bp-catalog.json for V-Bucks
  Exchanges,  \* the offers of the pass for stars, and the V-Bucks they give if
              \* the item list knows that currency, else none
  Opening,    \* the V-Bucks at first
  None,
  Requests    \* bound: the requests that are ever made

Game == [xp : Nat, kills : Nat, place : Nat]
Offer == [price : Nat, levels : Nat, pass : BOOLEAN]
Exchange == [cost : Nat, mtx : Nat]

ASSUME ProgressAssumption ==
  /\ Last \in Nat /\ Total \in [1..(Last + 1) -> Nat]
  /\ \A l \in 1..Last : Total[l] <= Total[l + 1]
  /\ FreePass \in {"granted", "absent", "broken"}
  /\ Games \subseteq Game /\ Offers \subseteq Offer /\ Exchanges \subseteq Exchange
  /\ Opening \in Nat

Stars == 5       \* of a level
KillPays == 75   \* V-Bucks
WinPays == 250

\* History, kept in the records: due, the stars the levels are worth; bought,
\* the levels bought; earned, the V-Bucks of the results; spent, the stars
\* spent, and sold, the V-Bucks they were spent on; paid, the levels paid for,
\* and given, the V-Bucks for stars.
Season == [level : Nat, xp : Nat, allXpGained : Nat, purchasedVip : BOOLEAN,
           due : Nat, bought : Nat, earned : Nat]
Athena == [battlestars : Nat, spent : Nat, sold : Nat]
CommonCore == [mtx : Nat, earned : Nat, paid : Nat, given : Nat]

Blank == [level |-> 0, xp |-> 0, allXpGained |-> 0, purchasedVip |-> FALSE,
          due |-> 0, bought |-> 0, earned |-> 0]
Fresh == [Blank EXCEPT !.level = 1]
NoStars == [battlestars |-> 0, spent |-> 0, sold |-> 0]
NoMtx == [mtx |-> 0, earned |-> 0, paid |-> 0, given |-> 0]

VARIABLES
  season,   \* Accounts_Seasons: the record of the current season
  athena,   \* Accounts_Profiles: the stars of athena
  common,   \* Accounts_Profiles: the V-Bucks of common_core
  request,  \* what the goroutine of each request knows
  mishaps   \* history: what disturbed the requests

progressVars == <<season, athena, common, request, mishaps>>

Kinds == {"results", "purchase", "exchange"}
ProgressSteps == {"new", "athena", "common", "season", "pass", "savePass", "levels", "saveLevels",
          "mtx", "saveMtx", "saveCommon", "saveAthena", "saveSeason", "done"}
Request == [kind : Kinds \union {None}, step : ProgressSteps, plan : Game \union Offer \union Exchange \union {None},
            season : Season, athena : Athena, common : CommonCore]
At(step) == [kind |-> None, step |-> step, plan |-> None,
             season |-> Blank, athena |-> NoStars, common |-> NoMtx]

ProgressTypeOK ==
  /\ season \in Season /\ athena \in Athena /\ common \in CommonCore
  /\ request \in [Requests -> Request]
  /\ mishaps \subseteq Kinds \union {"overlap", "unread", "unsaved"}

Running == {r \in Requests : request[r].step \notin {"new", "done"}}
-----------------------------------------------------------------------------
\* The login has created the records.
ProgressInit ==
  /\ season = Fresh /\ athena = NoStars /\ common = [NoMtx EXCEPT !.mtx = Opening]
  /\ request = [r \in Requests |-> At("new")]
  /\ mishaps = {}

Goes(r, q) == request' = [request EXCEPT ![r] = q]
Moves(r, step) == Goes(r, [request[r] EXCEPT !.step = step])
Ends(r) == Goes(r, At("done"))
Mishap(what) == mishaps' = mishaps \union {what}

Begin(r, kind, plan, step) ==
  /\ request[r].step = "new"
  /\ Goes(r, [At(step) EXCEPT !.kind = kind, !.plan = plan])
  /\ mishaps' = IF Running = {} THEN mishaps ELSE mishaps \union {"overlap"}
  /\ UNCHANGED <<season, athena, common>>

POSTBroadcastMatchResults(r, game) == Begin(r, "results", game, "athena")
POSTPurchaseMultipleCatalogEntries(r, offer) == Begin(r, "purchase", offer, "common")
POSTExchangeGameCurrencyForBattlePassOffer(r, exchange) == Begin(r, "exchange", exchange, "athena")

Bought(q) == [q EXCEPT
  !.step = IF q.plan.pass THEN "pass" ELSE "levels",
  !.common = [q.common EXCEPT !.mtx = @ - q.plan.price, !.paid = @ + q.plan.levels],
  !.athena = [q.athena EXCEPT !.battlestars = @ + Stars * q.plan.levels]]
Exchanged(q) == [q EXCEPT
  !.step = IF q.plan.mtx > 0 THEN "mtx" ELSE "saveAthena",
  !.athena = [q.athena EXCEPT !.battlestars = @ - q.plan.cost, !.spent = @ + q.plan.cost,
                              !.sold = @ + q.plan.mtx]]

\* A profile that cannot be read, or funds that do not suffice, end a request.
\* Mutant of ReadAthena: the stars are not compared with the cost.
ReadAthenaUnchecked(r) ==
  LET q == [request[r] EXCEPT !.athena = athena] IN
  /\ q.step = "athena"
  /\ \/ /\ q.kind = "results"
        /\ Goes(r, [q EXCEPT !.step = "common"])
     \/ /\ q.kind = "purchase" /\ q.common.mtx >= q.plan.price
        /\ Goes(r, Bought(q))
     \/ q.kind = "exchange" /\ Goes(r, Exchanged(q))
  /\ UNCHANGED <<season, athena, common, mishaps>>
ReadAthena(r) ==
  LET q == [request[r] EXCEPT !.athena = athena] IN
  /\ q.step = "athena"
  /\ \/ /\ q.kind = "results"
        /\ Goes(r, [q EXCEPT !.step = "common"])
     \/ /\ q.kind = "purchase" /\ q.common.mtx >= q.plan.price
        /\ Goes(r, Bought(q))
     \/ /\ q.kind = "exchange" /\ athena.battlestars >= q.plan.cost
        /\ Goes(r, Exchanged(q))
     \/ Ends(r)
  /\ UNCHANGED <<season, athena, common, mishaps>>

ReadCommon(r) ==
  LET q == [request[r] EXCEPT !.common = common] IN
  /\ q.step = "common"
  /\ \/ Goes(r, [q EXCEPT !.step = IF q.kind = "results" THEN "season" ELSE "athena"])
     \/ Ends(r)
  /\ UNCHANGED <<season, athena, common, mishaps>>

\* The free part of the pass is granted once.
Passed(s) ==
  IF s.purchasedVip \/ FreePass = "absent" THEN s
  ELSE [s EXCEPT !.purchasedVip = TRUE, !.level = @ + 1, !.due = @ + Stars]

Cost(from, to) == IF from = to THEN 0 ELSE Total[to] - Total[from]
\* Where the loop over the levels ends: XP suffices up to there and no further,
\* or xp.json has no such level.
Climbs(level, xp, to) ==
  IF level \in 1..Last
    THEN /\ to \in level..(Last + 1) /\ Cost(level, to) <= xp
         /\ to <= Last => Cost(level, to + 1) > xp
    ELSE to = level

Climbed(s, xp, to) ==
  [s EXCEPT !.level = to, !.xp = @ + xp - Cost(s.level, to), !.allXpGained = @ + xp,
            !.due = @ + IF s.purchasedVip
                          THEN Stars * Cardinality((s.level..(to - 1)) \intersect Starred) ELSE 0]

Pays(game) == KillPays * game.kills + IF game.place = 1 THEN WinPays ELSE 0

\* The results are worked out before anything is saved.  A season that is not
\* found begins anew; the cosmetic of a broken pass is not found, and the
\* handler fails.
FindSeason(r) ==
  LET q == request[r] IN
  /\ q.step = "season"
  /\ \E found \in {season, Fresh} :
       IF FreePass = "broken" /\ ~ found.purchasedVip
       THEN Ends(r) /\ UNCHANGED mishaps
       ELSE \E to \in Passed(found).level..(Passed(found).level + Last) :
            LET s == [Climbed(Passed(found), q.plan.xp, to) EXCEPT !.earned = @ + Pays(q.plan)] IN
            /\ Climbs(Passed(found).level, Passed(found).xp + q.plan.xp, to)
            /\ Goes(r, [q EXCEPT !.step = "saveCommon", !.season = s,
                 !.athena = [q.athena EXCEPT !.battlestars = @ + s.due - found.due],
                 !.common = [q.common EXCEPT !.mtx = @ + Pays(q.plan), !.earned = @ + Pays(q.plan)]])
            /\ IF found = season THEN UNCHANGED mishaps ELSE Mishap("unread")
  /\ UNCHANGED <<season, athena, common>>

\* setBattlePassPurchased and grantLevels read the season again; one that is
\* not found is blank.
FindForPass(r) ==
  /\ request[r].step = "pass"
  /\ \E found \in {season, Blank} :
       /\ Goes(r, [request[r] EXCEPT !.step = "savePass",
                                     !.season = [found EXCEPT !.purchasedVip = TRUE]])
       /\ IF found = season THEN UNCHANGED mishaps ELSE Mishap("unread")
  /\ UNCHANGED <<season, athena, common>>

\* Mutant of FindForLevels: only a pass brings levels.
FindForLevelsOfPass(r) ==
  LET n == IF request[r].plan.pass THEN request[r].plan.levels ELSE 0 IN
  /\ request[r].step = "levels"
  /\ \/ /\ n = 0 /\ Moves(r, "saveCommon") /\ UNCHANGED mishaps
     \/ /\ n > 0
        /\ Goes(r, [request[r] EXCEPT !.step = "saveLevels", !.season =
             [season EXCEPT !.level = @ + n, !.due = @ + Stars * n, !.bought = @ + n]])
        /\ UNCHANGED mishaps
  /\ UNCHANGED <<season, athena, common>>
FindForLevels(r) ==
  LET n == request[r].plan.levels IN
  /\ request[r].step = "levels"
  /\ \/ /\ n = 0 /\ Moves(r, "saveCommon") /\ UNCHANGED mishaps
     \/ /\ n > 0
        /\ \E found \in {season, Blank} :
             /\ Goes(r, [request[r] EXCEPT !.step = "saveLevels", !.season =
                  [found EXCEPT !.level = @ + n, !.due = @ + Stars * n, !.bought = @ + n]])
             /\ IF found = season THEN UNCHANGED mishaps ELSE Mishap("unread")
  /\ UNCHANGED <<season, athena, common>>

\* V-Bucks for stars are saved at once; a common_core that is not found gets none.
FindForMtx(r) ==
  LET q == request[r] IN
  /\ q.step = "mtx"
  /\ \/ /\ Goes(r, [q EXCEPT !.step = "saveMtx", !.common =
             [common EXCEPT !.mtx = @ + q.plan.mtx, !.given = @ + q.plan.mtx]])
        /\ UNCHANGED mishaps
     \/ Moves(r, "saveAthena") /\ Mishap("unsaved")
  /\ UNCHANGED <<season, athena, common>>

\* What follows a save.
\* Mutant of Follows: the season is saved before athena.
FollowsSeasonFirst(kind) ==
  [savePass |-> "levels", saveLevels |-> "saveCommon", saveMtx |-> "saveAthena",
   saveCommon |-> IF kind = "results" THEN "saveSeason" ELSE "saveAthena",
   saveSeason |-> "saveAthena", saveAthena |-> "done"]
Follows(kind) ==
  [savePass |-> "levels", saveLevels |-> "saveCommon", saveMtx |-> "saveAthena",
   saveCommon |-> "saveAthena",
   saveAthena |-> IF kind = "results" THEN "saveSeason" ELSE "done",
   saveSeason |-> "done"]

\* A save that fails ends the results, and is ignored by the other requests.
Unsaved(r, next) ==
  IF request[r].kind = "results" THEN Ends(r) /\ Mishap("results")
  ELSE next /\ Mishap("unsaved")
GoesOn(r) ==
  LET q == request[r] IN
  IF Follows(q.kind)[q.step] = "done" THEN Ends(r) ELSE Moves(r, Follows(q.kind)[q.step])

SaveCommon(r) ==
  /\ request[r].step \in {"saveCommon", "saveMtx"}
  /\ \/ common' = request[r].common /\ GoesOn(r) /\ UNCHANGED mishaps
     \/ UNCHANGED common /\ Unsaved(r, GoesOn(r))
  /\ UNCHANGED <<season, athena>>

SaveAthena(r) ==
  /\ request[r].step = "saveAthena"
  /\ \/ athena' = request[r].athena /\ GoesOn(r) /\ UNCHANGED mishaps
     \/ UNCHANGED athena /\ Unsaved(r, GoesOn(r))
  /\ UNCHANGED <<season, common>>

SaveSeason(r) ==
  /\ request[r].step \in {"saveSeason", "savePass", "saveLevels"}
  /\ \/ season' = request[r].season /\ GoesOn(r) /\ UNCHANGED mishaps
     \/ UNCHANGED season /\ Unsaved(r, GoesOn(r))
  /\ UNCHANGED <<athena, common>>

\* The process ends, and with it every request.
Crash ==
  /\ Running # {}
  /\ request' = [r \in Requests |-> IF r \in Running THEN At("done") ELSE request[r]]
  /\ mishaps' = mishaps \union {request[r].kind : r \in Running}
  /\ UNCHANGED <<season, athena, common>>

ProgressNext ==
  \/ \E r \in Requests :
       \/ \E game \in Games : POSTBroadcastMatchResults(r, game)
       \/ \E offer \in Offers : POSTPurchaseMultipleCatalogEntries(r, offer)
       \/ \E exchange \in Exchanges : POSTExchangeGameCurrencyForBattlePassOffer(r, exchange)
  \/ \E r \in Requests :
       \/ ReadAthena(r) \/ ReadCommon(r) \/ FindSeason(r)
       \/ FindForPass(r) \/ FindForLevels(r) \/ FindForMtx(r)
       \/ SaveCommon(r) \/ SaveAthena(r) \/ SaveSeason(r)
  \/ Crash

ProgressSpec == ProgressInit /\ [][ProgressNext]_progressVars
-----------------------------------------------------------------------------
(* Properties. *)

\* One request at a time, results and exchanges that break off do not take
\* stars that the levels are worth: athena is saved before the season.
StarsCoverLevels ==
  /\ mishaps \subseteq {"results", "exchange"}
  /\ \A r \in Requests : request[r].kind # "purchase"
  => athena.battlestars + athena.spent >= season.due

\* One request at a time, whatever breaks off by a crash, nothing is taken
\* before what it pays for was given: the levels before the V-Bucks, the
\* V-Bucks before the stars, and those of the results before the season.
GivenBeforeTaken ==
  mishaps \subseteq Kinds =>
    /\ common.paid <= season.bought
    /\ athena.sold <= common.given
    /\ season.earned <= common.earned

\* Between requests that nothing disturbed, the three records agree.
RecordsAgree ==
  mishaps = {} /\ Running = {} =>
    /\ athena.battlestars + athena.spent = season.due
    /\ common.paid = season.bought /\ athena.sold = common.given /\ season.earned = common.earned

\* What a request still to be asked or answered goes by is that of its kind.
StepsOf == [results |-> {"athena", "common", "season", "saveCommon", "saveAthena", "saveSeason"},
            purchase |-> {"common", "athena", "pass", "savePass", "levels", "saveLevels",
                          "saveCommon", "saveAthena"},
            exchange |-> {"athena", "mtx", "saveMtx", "saveAthena"}]
PlansOf == [results |-> Games, purchase |-> Offers, exchange |-> Exchanges]
Planned(q) ==
  \/ q = At("new") \/ q = At("done")
  \/ q.kind \in Kinds /\ q.plan \in PlansOf[q.kind] /\ q.step \in StepsOf[q.kind]

Is(q, kind, steps) == q.kind = kind /\ q.step \in steps
\* What a copy of a record says beyond the record as it is stored.
MoreStars(copy, n) == copy.battlestars + copy.spent = athena.battlestars + athena.spent + n
MoreSold(copy, n) == copy.sold = athena.sold + n
MoreMtx(copy, earned, paid, given) ==
  /\ copy.earned = common.earned + earned /\ copy.paid = common.paid + paid
  /\ copy.given = common.given + given
MoreSeason(copy, earned, due, bought) ==
  /\ copy.earned = season.earned + earned /\ copy.due = season.due + due
  /\ copy.bought = season.bought + bought
\* The stars of the season that the results are about to save.
StarsDue(q) == q.season.due - season.due

\* The copies of a request alone at work.
Copies(q) ==
  /\ Is(q, "results", {"common", "season"}) => MoreStars(q.athena, 0) /\ MoreSold(q.athena, 0)
  /\ Is(q, "results", {"season"}) => MoreMtx(q.common, 0, 0, 0)
  /\ Is(q, "results", {"saveCommon"}) => MoreMtx(q.common, Pays(q.plan), 0, 0)
  /\ Is(q, "results", {"saveCommon", "saveAthena"}) => MoreStars(q.athena, StarsDue(q)) /\ MoreSold(q.athena, 0)
  /\ Is(q, "results", {"saveCommon", "saveAthena", "saveSeason"}) =>
       MoreSeason(q.season, Pays(q.plan), StarsDue(q), 0) /\ StarsDue(q) >= 0
  /\ Is(q, "purchase", {"athena"}) => MoreMtx(q.common, 0, 0, 0)
  /\ Is(q, "purchase", {"pass", "savePass", "levels", "saveLevels", "saveCommon"}) =>
       MoreMtx(q.common, 0, q.plan.levels, 0)
  /\ Is(q, "purchase", {"pass", "savePass", "levels", "saveLevels", "saveCommon", "saveAthena"}) =>
       MoreStars(q.athena, Stars * q.plan.levels) /\ MoreSold(q.athena, 0)
  /\ Is(q, "purchase", {"savePass"}) => MoreSeason(q.season, 0, 0, 0)
  /\ Is(q, "purchase", {"saveLevels"}) =>
       MoreSeason(q.season, 0, Stars * q.plan.levels, q.plan.levels)
  /\ Is(q, "exchange", {"mtx", "saveMtx", "saveAthena"}) =>
       MoreStars(q.athena, 0) /\ MoreSold(q.athena, q.plan.mtx)
  /\ Is(q, "exchange", {"saveMtx"}) => MoreMtx(q.common, 0, 0, q.plan.mtx)

\* What a request has given and not yet taken.
LevelsOut(q) == IF Is(q, "purchase", {"saveCommon"}) THEN q.plan.levels ELSE 0
MtxOut(q) == IF Is(q, "exchange", {"saveAthena"}) THEN q.plan.mtx ELSE 0
PayOut(q) == IF Is(q, "results", {"saveAthena", "saveSeason"}) THEN Pays(q.plan) ELSE 0
StarsOut(q) ==
  IF Is(q, "results", {"saveSeason"}) THEN StarsDue(q)
  ELSE IF Is(q, "purchase", {"saveCommon", "saveAthena"}) THEN 0 - Stars * q.plan.levels ELSE 0

\* The books of the records, with what is still out.
Books(q) ==
  /\ season.bought >= common.paid + LevelsOut(q)
  /\ common.given >= athena.sold + MtxOut(q)
  /\ common.earned >= season.earned + PayOut(q)
  /\ mishaps \subseteq {"results", "exchange"} =>
       athena.battlestars + athena.spent >= season.due + StarsOut(q)
  /\ mishaps = {} =>
       /\ season.bought = common.paid + LevelsOut(q)
       /\ common.given = athena.sold + MtxOut(q)
       /\ common.earned = season.earned + PayOut(q)
       /\ athena.battlestars + athena.spent = season.due + StarsOut(q)

\* The inductive invariant: until requests overlap or a call fails unnoticed,
\* one is at work, and the books balance with what it has still to save.
AtWork == IF Running = {} THEN {At("done")} ELSE {request[r] : r \in Running}
ProgressInv ==
  /\ ProgressTypeOK /\ \A r \in Requests : Planned(request[r])
  /\ mishaps \subseteq Kinds =>
       /\ \A r, other \in Running : r = other
       /\ \A q \in AtWork : Copies(q) /\ Books(q)
=============================================================================
