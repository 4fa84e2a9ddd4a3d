------------------------------ MODULE Profiles ------------------------------
(***************************************************************************)
(* The profile commands of the backend (router/fortnite/mcp) that move     *)
(* V-Bucks and items, and the rewards the game server posts.  A command    *)
(* runs in the goroutine of its request: it reads whole records from the   *)
(* store, decides, and writes the whole records back, without a lock.  One *)
(* action is one read or one write of the store (odin, external), with the *)
(* decisions that follow a read; the process may end between any two.      *)
(*                                                                         *)
(* A record carries what the commands decide on: the quantity of           *)
(* Currency:MtxPurchased and the gift boxes of common_core, the items and  *)
(* the seen marks of athena, the level and the pass of the season.         *)
(* Registration creates the currency item, so it is always there.          *)
(***************************************************************************)
EXTENDS Integers, FiniteSets

CONSTANTS
  Accounts,         \* the accounts that have profiles
  Strangers,        \* account ids without profiles
  Items,            \* the cosmetics
  Offers,           \* the offers of the catalog and of bp-catalog.json
  FullLocker,       \* the accounts that redeemed the Full Locker reward
  Opening,          \* the V-Bucks an account starts with
  VBUCKS_PER_KILL,  \* the configured reward
  None,             \* no account, no offer
  Requests          \* bound: the requests that are ever made

Offer == [kind : {"item", "bundle", "pass"}, price : Nat, off : Nat, floor : Nat,
          items : SUBSET Items, pass : BOOLEAN, levels : Nat]

ASSUME ItemsAssumption == IsFiniteSet(Items)
ASSUME OffersAssumption == Offers \subseteq Offer
ASSUME AmountsAssumption == Opening \in Nat /\ VBUCKS_PER_KILL \in Nat
ASSUME AccountsAssumption ==
  /\ FullLocker \subseteq Accounts
  /\ Strangers \intersect Accounts = {}
  /\ None \notin Accounts \union Strangers \union Offers

VARIABLES
  common, athena, season,  \* the records of the store
  job,                     \* what the goroutine of each request knows
  ledger,                  \* history: what the writes of each account were for
  contested                \* history: the records two requests held at once, or
                           \* one request took without having read them

vars == <<common, athena, season, job, ledger, contested>>

GiftBox == {"gift", "pass"}  \* of a gift, of the battle pass

Common == [mtx : Nat, boxes : SUBSET GiftBox]
Athena == [items : SUBSET Items, seen : SUBSET Items]
Season == [level : Nat, vip : BOOLEAN]

Records == {"common_core", "athena", "season"} \X Accounts

\* What the goroutine does next.
Steps == {"new", "athena", "pay", "grant", "vip", "vipSave", "level", "levelSave",
          "send", "receiver", "wrap", "deliver", "credit", "mark", "done"}

Commands == {"Purchase", "Gift", "RemoveGiftBox", "Reward", "MarkItemSeen"}

Job == [step : Steps, command : Commands, who : Accounts \union {None},
        offer : Offers \union {None}, price : Nat, goods : SUBSET Items,
        opened : SUBSET GiftBox, left : SUBSET (Accounts \union Strangers), to : Accounts \union {None},
        cc : Common, at : Athena, season : Season, rcc : Common, rat : Athena]

NoCommon == [mtx |-> 0, boxes |-> {}]
NoAthena == [items |-> {}, seen |-> {}]
NoSeason == [level |-> 0, vip |-> FALSE]

Idle(s) == [step |-> s, command |-> "Purchase", who |-> None, offer |-> None,
            price |-> 0, goods |-> {}, opened |-> {}, left |-> {}, to |-> None,
            cc |-> NoCommon, at |-> NoAthena, season |-> NoSeason,
            rcc |-> NoCommon, rat |-> NoAthena]

Ledger == [spent : Nat, earned : Nat, boxes : SUBSET GiftBox,
           bought : SUBSET Items, levels : Nat, vip : BOOLEAN]

TypeOK ==
  /\ common \in [Accounts -> Common]
  /\ athena \in [Accounts -> Athena]
  /\ season \in [Accounts -> Season]
  /\ job \in [Requests -> Job]
  /\ ledger \in [Accounts -> Ledger]
  /\ contested \in SUBSET Records

Init ==
  /\ common = [a \in Accounts |-> [mtx |-> Opening, boxes |-> {}]]
  /\ athena = [a \in Accounts |-> NoAthena]
  /\ season = [a \in Accounts |-> NoSeason]
  /\ job = [r \in Requests |-> Idle("new")]
  /\ ledger = [a \in Accounts |-> [spent |-> 0, earned |-> 0, boxes |-> {},
                                   bought |-> {}, levels |-> 0, vip |-> FALSE]]
  /\ contested = {}

-----------------------------------------------------------------------------
(* Which records a request has read and not yet written or given up.       *)

OwnCommon == {"athena", "pay", "vip", "vipSave", "level", "levelSave",
              "send", "receiver", "wrap", "deliver", "credit"}
OwnAthena == (OwnCommon \ {"athena", "credit"}) \union {"grant", "mark"}

Holds(j, rec) ==
  \/ rec = <<"common_core", j.who>> /\ j.step \in OwnCommon
  \/ rec = <<"athena", j.who>> /\ j.step \in OwnAthena
  \/ rec = <<"season", j.who>> /\ j.step \in {"vipSave", "levelSave"}
  \/ rec = <<"common_core", j.to>> /\ j.step = "wrap"
  \/ rec = <<"athena", j.to>> /\ j.step \in {"receiver", "wrap", "deliver"}

\* r reads the record rec while others may hold it.
Read(r, rec) ==
  contested' = IF \E q \in Requests \ {r} : Holds(job[q], rec)
               THEN contested \union {rec} ELSE contested

Finish(r) == job' = [job EXCEPT ![r] = Idle("done")]

-----------------------------------------------------------------------------
(* Reading and deciding.                                                   *)

\* The first read of a command, of the profile its URL names: the client
\* sends the commands about V-Bucks to common_core.
FindProfile(r, a) ==
  /\ job[r].step = "new"
  /\ \E c \in Commands \ {"MarkItemSeen"}, o \in Offers,
        left \in SUBSET (Accounts \union Strangers), opened \in SUBSET GiftBox :
       /\ c \in {"RemoveGiftBox", "Reward"} => o = CHOOSE x \in Offers : TRUE
       /\ c = "Gift" <=> left # {}
       /\ c # "RemoveGiftBox" => opened = {}
       /\ job' = [job EXCEPT ![r] =
            [Idle(IF c = "Reward" THEN "credit" ELSE "athena") EXCEPT
              !.command = c, !.who = a, !.left = left, !.opened = opened,
              !.cc = common[a],
              !.offer = IF c \in {"Purchase", "Gift"} THEN o ELSE None]]
  /\ Read(r, <<"common_core", a>>)
  /\ UNCHANGED <<common, athena, season, ledger>>

\* Mutant of Owned: the locker is not looked at.
OwnedNothing(j, locker) == {}

\* What an offer is compared with: a redeemed Full Locker counts for a
\* purchase that is not of a bundle.
Owned(j, locker) ==
  IF j.command = "Purchase" /\ j.offer.kind = "item" /\ j.who \in FullLocker
  THEN Items ELSE locker.items

FinalPrice(o, owned) ==
  LET price == o.price - o.off * Cardinality(o.items \intersect owned)
  IN  IF o.kind # "bundle" THEN o.price
      ELSE IF price < o.floor THEN o.floor ELSE price

Affordable(quantity, price) == price <= quantity

\* Something is left to grant: of an item offer nothing may be owned yet.
Grantable(o, owned) ==
  CASE o.kind = "pass"   -> TRUE
    [] o.kind = "item"   -> o.items # {} /\ o.items \intersect owned = {}
    [] o.kind = "bundle" -> ~ (o.items \subseteq owned)

\* What is granted: of a bundle, the items that are not owned yet.
Goods(o, owned) == IF o.kind = "bundle" THEN o.items \ owned ELSE o.items

\* The command goes on to writing its records.
Accepted(j, locker) ==
  LET o     == j.offer
      owned == Owned(j, locker)
      price == FinalPrice(o, owned)
  IN  [j EXCEPT
        !.step  = IF j.command = "Gift" THEN "send"
                  ELSE IF o.kind # "pass" THEN "pay"
                  ELSE IF o.pass THEN "vip"
                  ELSE IF o.levels > 0 THEN "level" ELSE "pay",
        !.at    = locker,
        !.price = price,
        !.goods = Goods(o, owned)]

\* The offer of a gift comes from the catalog; a pass is not in it.
Acceptable(j, locker) ==
  LET owned == Owned(j, locker)
  IN  /\ j.command = "Gift" => j.offer.kind # "pass"
      /\ Grantable(j.offer, owned)
      /\ Affordable(j.cc.mtx, FinalPrice(j.offer, owned))

\* The second read, of the account's athena, and the decision.
FindAthena(r) ==
  /\ job[r].step = "athena"
  /\ job[r].command \in {"Purchase", "Gift"}
  /\ LET j      == job[r]
         locker == athena[j.who]
     IN  IF Acceptable(j, locker)
         THEN /\ job' = [job EXCEPT ![r] = Accepted(j, locker)]
              /\ Read(r, <<"athena", j.who>>)
         ELSE Finish(r) /\ UNCHANGED contested
  /\ UNCHANGED <<common, athena, season, ledger>>

\* POSTRemoveGiftBox reads both profiles, and writes both.
FindToUnbox(r) ==
  /\ job[r].step = "athena"
  /\ job[r].command = "RemoveGiftBox"
  /\ job' = [job EXCEPT ![r].step = "pay", ![r].at = athena[job[r].who]]
  /\ Read(r, <<"athena", job[r].who>>)
  /\ UNCHANGED <<common, athena, season, ledger>>

-----------------------------------------------------------------------------
(* The season record: the battle pass and its levels.                      *)

\* A read that fails is not noticed: the command goes on with an empty season,
\* and will save it over what is stored.
FindSeason(r) ==
  /\ job[r].step \in {"vip", "level"}
  /\ LET a == job[r].who
         Found(s) == job' = [job EXCEPT ![r].season = s,
                               ![r].step = IF @ = "vip" THEN "vipSave" ELSE "levelSave"]
     IN  \/ Found(season[a]) /\ Read(r, <<"season", a>>)
         \/ Found(NoSeason) /\ contested' = contested \union {<<"season", a>>}
  /\ UNCHANGED <<common, athena, season, ledger>>

\* setBattlePassPurchased
SaveVip(r) ==
  /\ job[r].step = "vipSave"
  /\ LET a == job[r].who
     IN  /\ season' = [season EXCEPT ![a] = [job[r].season EXCEPT !.vip = TRUE]]
         /\ ledger' = [ledger EXCEPT ![a].vip = TRUE]
  /\ job' = [job EXCEPT ![r].step = IF job[r].offer.levels > 0 THEN "level" ELSE "pay",
                        ![r].season = NoSeason]
  /\ UNCHANGED <<common, athena, contested>>

\* grantLevels
SaveLevels(r) ==
  /\ job[r].step = "levelSave"
  /\ LET a == job[r].who
         n == job[r].offer.levels
     IN  /\ season' = [season EXCEPT ![a] = [job[r].season EXCEPT !.level = @ + n]]
         /\ ledger' = [ledger EXCEPT ![a].levels = @ + n]
  /\ job' = [job EXCEPT ![r].step = "pay", ![r].season = NoSeason]
  /\ UNCHANGED <<common, athena, contested>>

-----------------------------------------------------------------------------
(* The receivers of a gift, one after the other.                           *)

\* The account itself is passed over; one that has no profile ends the
\* command, whoever has been given the items by then.
FindReceiver(r, v) ==
  /\ job[r].step = "send"
  /\ v \in job[r].left \ {job[r].who}
  /\ IF v \in Strangers
     THEN Finish(r) /\ UNCHANGED contested
     ELSE /\ job' = [job EXCEPT ![r].step = "receiver", ![r].to = v,
                                ![r].left = @ \ {v}, ![r].rat = athena[v]]
          /\ Read(r, <<"athena", v>>)
  /\ UNCHANGED <<common, athena, season, ledger>>

FindReceiverCommon(r) ==
  /\ job[r].step = "receiver"
  /\ job' = [job EXCEPT ![r].step = "wrap", ![r].rcc = common[job[r].to]]
  /\ Read(r, <<"common_core", job[r].to>>)
  /\ UNCHANGED <<common, athena, season, ledger>>

\* Mutant of Wrapped: the sender's profile goes into the receiver's record.
WrappedSender(j) == [j.cc EXCEPT !.boxes = @ \union {"gift"}]

Wrapped(j) == [j.rcc EXCEPT !.boxes = @ \union {"gift"}]

SaveReceiverCommon(r) ==
  /\ job[r].step = "wrap"
  /\ common' = [common EXCEPT ![job[r].to] = Wrapped(job[r])]
  /\ ledger' = [ledger EXCEPT ![job[r].to].boxes = @ \union {"gift"}]
  /\ job' = [job EXCEPT ![r].step = "deliver", ![r].rcc = NoCommon]
  /\ UNCHANGED <<athena, season, contested>>

\* New items are unseen, and one that was there already is replaced.
Added(locker, goods) ==
  [items |-> locker.items \union goods, seen |-> locker.seen \ goods]

SaveReceiverAthena(r) ==
  /\ job[r].step = "deliver"
  /\ LET j == job[r]
     IN  /\ athena' = [athena EXCEPT ![j.to] = Added(j.rat, j.goods)]
         /\ ledger' = [ledger EXCEPT ![j.to].bought = @ \union j.goods]
  /\ job' = [job EXCEPT ![r].step = "send", ![r].to = None, ![r].rat = NoAthena]
  /\ UNCHANGED <<common, season, contested>>

-----------------------------------------------------------------------------
(* Writing back the account's own records.                                 *)

ReadyToPay(j) == j.step = "pay" \/ (j.step = "send" /\ j.left \subseteq {j.who})

\* The gift boxes after the command: without those it opens, with that of a pass.
Boxes(j, boxes) ==
  (boxes \ j.opened) \union
    (IF j.command = "Purchase" /\ j.offer.pass /\ j.offer.items # {} THEN {"pass"} ELSE {})

\* Mutant of Paid: the quantity stays as it was read.

PaidNothing(j) == [mtx |-> j.cc.mtx, boxes |-> Boxes(j, j.cc.boxes)]

Paid(j) == [mtx |-> j.cc.mtx - j.price, boxes |-> Boxes(j, j.cc.boxes)]

SaveProfile(r) ==
  /\ ReadyToPay(job[r])
  /\ LET j == job[r]
     IN  /\ common' = [common EXCEPT ![j.who] = Paid(j)]
         /\ ledger' = [ledger EXCEPT ![j.who].spent = @ + j.price,
                                     ![j.who].boxes = Boxes(j, @)]
  /\ job' = [job EXCEPT ![r].step = "grant", ![r].cc = NoCommon, ![r].left = {},
                        ![r].opened = {}]
  /\ UNCHANGED <<athena, season, contested>>

\* The goods of a gift are not the account's own.
OwnGoods(j) == IF j.command = "Gift" THEN {} ELSE j.goods

SaveAthena(r) ==
  /\ job[r].step = "grant"
  /\ LET j == job[r]
     IN  /\ athena' = [athena EXCEPT ![j.who] = Added(j.at, OwnGoods(j))]
         /\ ledger' = [ledger EXCEPT ![j.who].bought = @ \union OwnGoods(j)]
  /\ Finish(r)
  /\ UNCHANGED <<common, season, contested>>

\* POSTVbucksPerKill, and POSTWonGame with its own amount.
SaveReward(r) ==
  /\ job[r].step = "credit"
  /\ LET j == job[r]
     IN  /\ common' = [common EXCEPT ![j.who] =
                         [j.cc EXCEPT !.mtx = @ + VBUCKS_PER_KILL]]
         /\ ledger' = [ledger EXCEPT ![j.who].earned = @ + VBUCKS_PER_KILL]
  /\ Finish(r)
  /\ UNCHANGED <<athena, season, contested>>

\* POSTMarkItemSeen on athena: nothing is written when nothing changed.
FindUnseen(r, a) ==
  /\ job[r].step = "new"
  /\ athena[a].items \ athena[a].seen # {}
  /\ job' = [job EXCEPT ![r] = [Idle("mark") EXCEPT
              !.command = "MarkItemSeen", !.who = a, !.at = athena[a]]]
  /\ Read(r, <<"athena", a>>)
  /\ UNCHANGED <<common, athena, season, ledger>>

SaveSeen(r) ==
  /\ job[r].step = "mark"
  /\ LET j == job[r]
     IN  \E i \in j.at.items \ j.at.seen :
           athena' = [athena EXCEPT ![j.who] = [j.at EXCEPT !.seen = @ \union {i}]]
  /\ Finish(r)
  /\ UNCHANGED <<common, season, ledger, contested>>

\* The process ends: the store stays as it is, the requests are gone.
Crash ==
  /\ \E r \in Requests : job[r].step \notin {"new", "done"}
  /\ job' = [r \in Requests |-> IF job[r].step = "new" THEN job[r] ELSE Idle("done")]
  /\ UNCHANGED <<common, athena, season, ledger, contested>>

RequestStep(r) ==
  \/ \E a \in Accounts : FindProfile(r, a) \/ FindUnseen(r, a)
  \/ FindAthena(r) \/ FindToUnbox(r) \/ FindSeason(r) \/ SaveVip(r) \/ SaveLevels(r)
  \/ \E v \in Accounts \union Strangers : FindReceiver(r, v)
  \/ FindReceiverCommon(r) \/ SaveReceiverCommon(r) \/ SaveReceiverAthena(r)
  \/ SaveProfile(r) \/ SaveAthena(r) \/ SaveReward(r) \/ SaveSeen(r)

Next == Crash \/ \E r \in Requests : RequestStep(r)

Spec == Init /\ [][Next]_vars

-----------------------------------------------------------------------------
(* Properties.                                                             *)

(* Whatever reads and writes interleave, lose each other's updates or are  *)
(* cut off by a crash: an account is never charged more than the prices of *)
(* the purchases it saved, nor credited more than its rewards, and it owns *)
(* nothing that was not bought for it.                                     *)
LedgerBounds ==
  \A a \in Accounts :
    /\ common[a].mtx + ledger[a].spent >= Opening
    /\ common[a].mtx <= Opening + ledger[a].earned
    /\ athena[a].items \subseteq ledger[a].bought
    /\ season[a].level <= ledger[a].levels
    /\ season[a].vip => ledger[a].vip

(* As long as no two requests held the same record at once, nor a season   *)
(* was taken for empty because it could not be read, it is exact, with     *)
(* crashes at any point: no reward, purchase, gift, box or level is lost.  *)
ExactUnlessContested ==
  \A a \in Accounts :
    /\ <<"common_core", a>> \notin contested =>
         /\ common[a].mtx + ledger[a].spent = Opening + ledger[a].earned
         /\ common[a].boxes = ledger[a].boxes
    /\ <<"athena", a>> \notin contested => athena[a].items = ledger[a].bought
    /\ <<"season", a>> \notin contested =>
         season[a].level = ledger[a].levels /\ season[a].vip = ledger[a].vip

(* What a purchase was decided on still holds when it is paid, unless the  *)
(* records were contested: the V-Bucks are there, and of what it grants    *)
(* nothing is in the locker yet, so nobody pays twice for an item.         *)
SaleStillGood ==
  \A r \in Requests :
    LET j == job[r]
    IN  j.command = "Purchase" /\ j.step \in {"pay", "grant"} =>
          /\ j.step = "pay" /\ <<"common_core", j.who>> \notin contested
               => j.price <= common[j.who].mtx
          /\ j.offer.kind # "pass" /\ <<"athena", j.who>> \notin contested
               => j.goods \intersect athena[j.who].items = {}

-----------------------------------------------------------------------------
(* Why they hold: what a request knows.                                    *)

Decided == OwnCommon \ {"athena", "credit"}

JobShape(j) ==
  /\ j.step \notin {"new", "done"} => j.who \in Accounts
  /\ j.step \notin {"new", "done"} /\ j.command \in {"Purchase", "Gift"}
       => j.offer \in Offers
  /\ j.step \in {"vip", "vipSave", "level", "levelSave"} => j.command = "Purchase"
  /\ j.step \in {"receiver", "wrap", "deliver"} => j.to \in Accounts \ {j.who}
  /\ j.step = "athena" => j.price = 0
  /\ j.step \in Decided => j.price <= j.cc.mtx
  /\ j.step \in OwnAthena /\ j.command = "Purchase" /\ j.offer.kind # "pass"
       => j.goods \intersect j.at.items = {}

\* What it has read is within the bounds of the ledger l.
JobBounds(j, l) ==
  /\ j.step \in OwnCommon =>
       /\ j.cc.mtx + l[j.who].spent >= Opening
       /\ j.cc.mtx <= Opening + l[j.who].earned
  /\ j.step = "wrap" =>
       /\ j.rcc.mtx + l[j.to].spent >= Opening
       /\ j.rcc.mtx <= Opening + l[j.to].earned
  /\ j.step \in OwnAthena => j.at.items \subseteq l[j.who].bought
  /\ j.step \in {"receiver", "wrap", "deliver"} => j.rat.items \subseteq l[j.to].bought
  /\ j.step \in {"vipSave", "levelSave"} =>
       /\ j.season.level <= l[j.who].levels
       /\ j.season.vip => l[j.who].vip

\* What it has read is still in the records c, a and s, those in k excepted.
JobFresh(j, c, a, s, k) ==
  /\ j.step \in OwnCommon /\ <<"common_core", j.who>> \notin k => j.cc = c[j.who]
  /\ j.step = "wrap" /\ <<"common_core", j.to>> \notin k => j.rcc = c[j.to]
  /\ j.step \in OwnAthena /\ <<"athena", j.who>> \notin k => j.at = a[j.who]
  /\ j.step \in {"receiver", "wrap", "deliver"} /\ <<"athena", j.to>> \notin k
       => j.rat = a[j.to]
  /\ j.step \in {"vipSave", "levelSave"} /\ <<"season", j.who>> \notin k
       => j.season = s[j.who]

JobsShaped  == \A r \in Requests : JobShape(job[r])
JobsBounded == \A r \in Requests : JobBounds(job[r], ledger)
JobsFresh   == \A r \in Requests : JobFresh(job[r], common, athena, season, contested)

SoleHolder ==
  \A r, q \in Requests, rec \in Records :
    r # q /\ Holds(job[r], rec) /\ Holds(job[q], rec) => rec \in contested

(* The inductive invariant: a request knows what was in the records when   *)
(* it read them, and nobody else has written a record it holds unless the  *)
(* record counts as contested.                                             *)
IInv ==
  /\ TypeOK /\ LedgerBounds /\ ExactUnlessContested /\ SoleHolder
  /\ JobsShaped /\ JobsBounded /\ JobsFresh

=============================================================================
