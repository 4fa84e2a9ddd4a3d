--------------------------- MODULE ProfilesProofs ---------------------------
(***************************************************************************)
(* Theorems about the profile commands, for any accounts, items, offers    *)
(* and number of requests, crashes included.                               *)
(***************************************************************************)
EXTENDS Profiles, FiniteSetTheorems, TLAPS

-----------------------------------------------------------------------------
(* What a purchase is charged.                                             *)

(* The price of an offer is a natural number, whatever is owned of it.     *)
LEMMA PriceType ==
  ASSUME NEW o \in Offers, NEW owned \in SUBSET Items
  PROVE  FinalPrice(o, owned) \in Nat
PROOF
<1>1. o \in Offer
  BY OffersAssumption
<1>2. /\ o.price \in Nat /\ o.off \in Nat /\ o.floor \in Nat
      /\ o.items \in SUBSET Items
  BY <1>1 DEF Offer
<1>3. Cardinality(o.items \intersect owned) \in Nat
  <2>1. o.items \intersect owned \subseteq Items
    BY <1>2
  <2>2. IsFiniteSet(o.items \intersect owned)
    BY <2>1, FS_Subset, ItemsAssumption
  <2>. QED  BY <2>2, FS_CardinalityType
<1>4. o.off * Cardinality(o.items \intersect owned) \in Nat
  BY <1>2, <1>3
<1>. QED  BY <1>2, <1>4 DEF FinalPrice

(* A request that goes on from its decision can pay, and of what an offer  *)
(* of the catalog grants the account has nothing.                          *)
LEMMA AcceptedJob ==
  ASSUME NEW j \in Job, NEW locker \in Athena, j.offer \in Offers,
         j.command \in {"Purchase", "Gift"}, Acceptable(j, locker)
  PROVE  LET i == Accepted(j, locker)
         IN  /\ i \in Job
             /\ i.step \in {"send", "pay", "vip", "level"}
             /\ i.step \in {"vip", "level"} => i.command = "Purchase"
             /\ i.command = j.command /\ i.who = j.who /\ i.offer = j.offer
             /\ i.cc = j.cc /\ i.at = locker
             /\ i.price <= i.cc.mtx
             /\ i.command = "Purchase" /\ i.offer.kind # "pass"
                  => i.goods \intersect i.at.items = {}
PROOF
<1>. DEFINE owned == Owned(j, locker)
            price == FinalPrice(j.offer, owned)
            i == Accepted(j, locker)
<1>1. /\ j.offer \in Offer /\ j.offer.items \in SUBSET Items
      /\ j.offer.kind \in {"item", "bundle", "pass"} /\ locker.items \in SUBSET Items
  BY OffersAssumption DEF Offer, Athena
<1>2. owned \in SUBSET Items
  BY <1>1 DEF Owned
<1>3. price \in Nat
  BY <1>2, PriceType
<1>4. price <= j.cc.mtx /\ Grantable(j.offer, owned)
  BY DEF Acceptable, Affordable
<1>5. Goods(j.offer, owned) \in SUBSET Items
  BY <1>1 DEF Goods
<1>6. /\ i.step \in {"send", "pay", "vip", "level"}
      /\ i.step \in {"vip", "level"} => j.command = "Purchase"
      /\ i.command = j.command /\ i.who = j.who /\ i.offer = j.offer
      /\ i.cc = j.cc /\ i.at = locker
      /\ i.price = price /\ i.goods = Goods(j.offer, owned)
  BY DEF Job, Accepted
<1>7. i \in Job
  <2>. HIDE DEF owned, price
  <2>1. j.step \in Steps /\ {"send", "pay", "vip", "level"} \subseteq Steps
    BY DEF Job, Steps
  <2>. QED  BY <1>3, <1>5, <2>1 DEF Job, Accepted, owned, price
<1>8. j.command = "Purchase" /\ j.offer.kind = "item"
        => j.offer.items \intersect locker.items = {}
  BY <1>1, <1>4 DEF Grantable, Owned
<1>9. j.command = "Purchase" /\ j.offer.kind = "bundle" => owned = locker.items
  BY DEF Owned
<1>10. j.command = "Purchase" /\ j.offer.kind # "pass"
         => Goods(j.offer, owned) \intersect locker.items = {}
  BY <1>1, <1>8, <1>9 DEF Goods
<1>. QED  BY <1>4, <1>6, <1>7, <1>10

-----------------------------------------------------------------------------
(* One step of one request.                                                *)

\* What is charged, credited and bought is never taken back.
LedgerGrows ==
  \A a \in Accounts :
    /\ ledger'[a].spent >= ledger[a].spent
    /\ ledger'[a].earned >= ledger[a].earned
    /\ ledger[a].bought \subseteq ledger'[a].bought
    /\ ledger'[a].levels >= ledger[a].levels
    /\ ledger[a].vip => ledger'[a].vip

\* Only records that r holds are written.
WritesHeld(r) ==
  \A a \in Accounts :
    /\ common'[a] # common[a] => Holds(job[r], <<"common_core", a>>)
    /\ athena'[a] # athena[a] => Holds(job[r], <<"athena", a>>)
    /\ season'[a] # season[a] => Holds(job[r], <<"season", a>>)

(* The invariant is kept by a step of r that leaves the other requests     *)
(* alone, writes only records r holds, tells when it comes to hold a       *)
(* record that another holds, and knows afterwards what it must.           *)
LEMMA StepKeeps ==
  ASSUME IInv, NEW r \in Requests, TypeOK',
         \A q \in Requests \ {r} : job'[q] = job[q],
         contested \subseteq contested',
         LedgerGrows,
         \A rec \in Records : Holds(job'[r], rec) =>
           \/ Holds(job[r], rec)
           \/ rec \in contested'
           \/ \A q \in Requests \ {r} : ~ Holds(job[q], rec),
         WritesHeld(r),
         JobShape(job'[r]), JobBounds(job'[r], ledger'),
         JobFresh(job'[r], common', athena', season', contested'),
         LedgerBounds', ExactUnlessContested'
  PROVE  IInv'
PROOF
<1>1. SoleHolder'
  <2>. SUFFICES ASSUME NEW x \in Requests, NEW y \in Requests, NEW rec \in Records,
                       x # y, Holds(job'[x], rec), Holds(job'[y], rec)
                PROVE  rec \in contested'
    BY DEF SoleHolder, Holds
  <2>1. CASE x # r /\ y # r
    <3>1. Holds(job[x], rec) /\ Holds(job[y], rec)
      BY <2>1
    <3>. QED  BY <3>1 DEF IInv, SoleHolder
  <2>2. CASE x = r
    <3>1. Holds(job[y], rec)
      BY <2>2
    <3>2. Holds(job'[r], rec)
      BY <2>2
    <3>. QED  BY <2>2, <3>1, <3>2 DEF IInv, SoleHolder
  <2>3. CASE y = r
    <3>1. Holds(job[x], rec)
      BY <2>3
    <3>2. Holds(job'[r], rec)
      BY <2>3
    <3>. QED  BY <2>3, <3>1, <3>2 DEF IInv, SoleHolder
  <2>. QED  BY <2>1, <2>2, <2>3
<1>2. ASSUME NEW q \in Requests, q # r
      PROVE  /\ JobShape(job'[q]) /\ JobBounds(job'[q], ledger')
             /\ JobFresh(job'[q], common', athena', season', contested')
  <2>. DEFINE j == job[q]
  <2>1. job'[q] = j
    BY <1>2
  <2>2. JobShape(j) /\ JobBounds(j, ledger)
    BY DEF IInv, JobsShaped, JobsBounded
  <2>3. JobFresh(j, common, athena, season, contested)
    BY DEF IInv, JobsFresh
  <2>4. j \in Job
    BY DEF IInv, TypeOK
  <2>5. /\ j.step \in OwnCommon \union OwnAthena \union {"vipSave", "levelSave"}
             => j.who \in Accounts
        /\ j.step \in {"receiver", "wrap", "deliver"} => j.to \in Accounts
    BY <2>2 DEF JobShape, OwnCommon, OwnAthena
  <2>6. JobBounds(j, ledger')
    <3>1. \A a \in Accounts : ledger[a] \in Ledger /\ ledger'[a] \in Ledger
      BY DEF IInv, TypeOK
    <3>2. j.cc.mtx \in Nat /\ j.rcc.mtx \in Nat /\ j.season.level \in Nat
      BY <2>4 DEF Job, Common, Season
    <3>3. /\ j.step \in OwnCommon => j.who \in Accounts
          /\ j.step \in OwnAthena => j.who \in Accounts
          /\ j.step \in {"vipSave", "levelSave"} => j.who \in Accounts
          /\ j.step \in {"receiver", "wrap", "deliver"} => j.to \in Accounts
      BY <2>5
    <3>. HIDE DEF j
    <3>. QED  BY <2>2, <3>1, <3>2, <3>3, AmountsAssumption DEF JobBounds, Ledger, LedgerGrows
  <2>7. ASSUME NEW rec \in Records, Holds(j, rec), rec \notin contested'
        PROVE  ~ Holds(job[r], rec)
    BY <1>2, <2>7 DEF IInv, SoleHolder
  <2>8. JobFresh(j, common', athena', season', contested')
    <3>1. ASSUME j.step \in OwnCommon, <<"common_core", j.who>> \notin contested'
          PROVE  j.cc = common'[j.who]
      <4>1. Holds(j, <<"common_core", j.who>>) /\ <<"common_core", j.who>> \in Records
        BY <2>5, <3>1 DEF Holds, Records
      <4>. QED  BY <2>3, <2>5, <2>7, <3>1, <4>1 DEF JobFresh, WritesHeld
    <3>2. ASSUME j.step = "wrap", <<"common_core", j.to>> \notin contested'
          PROVE  j.rcc = common'[j.to]
      <4>1. Holds(j, <<"common_core", j.to>>) /\ <<"common_core", j.to>> \in Records
        BY <2>5, <3>2 DEF Holds, Records
      <4>. QED  BY <2>3, <2>5, <2>7, <3>2, <4>1 DEF JobFresh, WritesHeld
    <3>3. ASSUME j.step \in OwnAthena, <<"athena", j.who>> \notin contested'
          PROVE  j.at = athena'[j.who]
      <4>1. Holds(j, <<"athena", j.who>>) /\ <<"athena", j.who>> \in Records
        BY <2>5, <3>3 DEF Holds, Records
      <4>. QED  BY <2>3, <2>5, <2>7, <3>3, <4>1 DEF JobFresh, WritesHeld
    <3>4. ASSUME j.step \in {"receiver", "wrap", "deliver"},
                 <<"athena", j.to>> \notin contested'
          PROVE  j.rat = athena'[j.to]
      <4>1. Holds(j, <<"athena", j.to>>) /\ <<"athena", j.to>> \in Records
        BY <2>5, <3>4 DEF Holds, Records
      <4>. QED  BY <2>3, <2>5, <2>7, <3>4, <4>1 DEF JobFresh, WritesHeld
    <3>5. ASSUME j.step \in {"vipSave", "levelSave"}, <<"season", j.who>> \notin contested'
          PROVE  j.season = season'[j.who]
      <4>1. Holds(j, <<"season", j.who>>) /\ <<"season", j.who>> \in Records
        BY <2>5, <3>5 DEF Holds, Records
      <4>. QED  BY <2>3, <2>5, <2>7, <3>5, <4>1 DEF JobFresh, WritesHeld
    <3>. QED  BY <3>1, <3>2, <3>3, <3>4, <3>5 DEF JobFresh
  <2>. HIDE DEF j
  <2>. QED  BY <2>1, <2>2, <2>6, <2>8
<1>3. \A q \in Requests :
        /\ JobShape(job'[q]) /\ JobBounds(job'[q], ledger')
        /\ JobFresh(job'[q], common', athena', season', contested')
  <2>. SUFFICES ASSUME NEW q \in Requests
                PROVE  /\ JobShape(job'[q]) /\ JobBounds(job'[q], ledger')
                       /\ JobFresh(job'[q], common', athena', season', contested')
    OBVIOUS
  <2>1. CASE q # r
    BY <1>2, <2>1
  <2>2. CASE q = r
    <3>. DEFINE i == job'[q]
    <3>1. i = job'[r]
      BY <2>2
    <3>2. JobShape(i) /\ JobBounds(i, ledger')
      BY <3>1
    <3>3. JobFresh(i, common', athena', season', contested')
      BY <3>1
    <3>. QED  BY <3>2, <3>3
  <2>. QED  BY <2>1, <2>2
<1>4. JobsShaped'
  BY <1>3 DEF JobsShaped, JobShape
<1>5. JobsBounded'
  BY <1>3 DEF JobsBounded, JobBounds
<1>6. JobsFresh'
  BY <1>3 DEF JobsFresh, JobFresh
<1>. QED  BY <1>1, <1>4, <1>5, <1>6 DEF IInv

(* A step that reads at most the record new.                               *)
LEMMA ReadKeeps ==
  ASSUME IInv, NEW r \in Requests, NEW new, NEW j \in Job,
         job' = [job EXCEPT ![r] = j],
         UNCHANGED <<common, athena, season, ledger>>,
         contested' = contested \/ (new \in Records /\ Read(r, new)),
         \A rec \in Records : Holds(j, rec) =>
           Holds(job[r], rec) \/ (rec = new /\ Read(r, new)),
         JobShape(j), JobBounds(j, ledger),
         JobFresh(j, common, athena, season, contested)
  PROVE  IInv'
PROOF
<1>1. TypeOK /\ LedgerBounds /\ ExactUnlessContested
  BY DEF IInv
<1>2. contested \subseteq contested' /\ contested' \in SUBSET Records
  BY <1>1 DEF Read, TypeOK
<1>3. TypeOK'
  BY <1>1, <1>2 DEF TypeOK
<1>4. job'[r] = j
  BY <1>1 DEF TypeOK
<1>5. \A q \in Requests \ {r} : job'[q] = job[q]
  BY <1>1 DEF TypeOK
<1>6. \A rec \in Records : Holds(job'[r], rec) =>
        \/ Holds(job[r], rec)
        \/ rec \in contested'
        \/ \A q \in Requests \ {r} : ~ Holds(job[q], rec)
  BY <1>4 DEF Read
<1>7. LedgerGrows
  BY <1>1 DEF LedgerGrows, TypeOK, Ledger
<1>8. LedgerBounds' /\ ExactUnlessContested'
  BY <1>1, <1>2 DEF LedgerBounds, ExactUnlessContested
<1>9. JobFresh(j, common', athena', season', contested')
  BY <1>2 DEF JobFresh
<1>10. JobShape(job'[r]) /\ JobBounds(job'[r], ledger')
  BY <1>4
<1>11. WritesHeld(r)
  BY DEF WritesHeld
<1>. QED  BY StepKeeps, <1>2, <1>3, <1>4, <1>5, <1>6, <1>7, <1>8, <1>9, <1>10, <1>11

-----------------------------------------------------------------------------
(* The reads.                                                              *)

LEMMA IdleType == \A s \in Steps : Idle(s) \in Job
PROOF
  BY DEF Idle, Job, Commands, NoCommon, NoAthena, NoSeason, Common, Athena, Season

(* A request that knows nothing any more.                                  *)
LEMMA FinishKeeps ==
  ASSUME IInv, NEW r \in Requests, Finish(r),
         UNCHANGED <<common, athena, season, ledger, contested>>
  PROVE  IInv'
PROOF
<1>. DEFINE j == Idle("done")
            new == <<"season", None>>
<1>1. j \in Job
  BY IdleType DEF Steps
<1>2. j.step = "done"
  BY DEF Idle
<1>3. job' = [job EXCEPT ![r] = j]
  BY DEF Finish
<1>. HIDE DEF j
<1>4. JobShape(j)
  BY <1>2 DEF JobShape, Decided, OwnCommon, OwnAthena
<1>5. JobBounds(j, ledger)
  BY <1>2 DEF JobBounds, OwnCommon, OwnAthena
<1>6. JobFresh(j, common, athena, season, contested)
  BY <1>2 DEF JobFresh, OwnCommon, OwnAthena
<1>7. \A rec \in Records :
        Holds(j, rec) => Holds(job[r], rec) \/ (rec = new /\ Read(r, new))
  BY <1>2 DEF Holds, OwnCommon, OwnAthena
<1>8. /\ UNCHANGED <<common, athena, season, ledger>>
      /\ contested' = contested \/ (new \in Records /\ Read(r, new))
  OBVIOUS
<1>. HIDE DEF new
<1>. QED  BY ReadKeeps, <1>1, <1>3, <1>4, <1>5, <1>6, <1>7, <1>8

LEMMA FindProfileKeeps ==
  ASSUME IInv, NEW r \in Requests, NEW a \in Accounts, FindProfile(r, a)
  PROVE  IInv'
PROOF
<1>. PICK c \in Commands \ {"MarkItemSeen"}, o \in Offers,
          left \in SUBSET (Accounts \union Strangers), opened \in SUBSET GiftBox :
       job' = [job EXCEPT ![r] =
            [Idle(IF c = "Reward" THEN "credit" ELSE "athena") EXCEPT
              !.command = c, !.who = a, !.left = left, !.opened = opened,
              !.cc = common[a],
              !.offer = IF c \in {"Purchase", "Gift"} THEN o ELSE None]]
  BY DEF FindProfile
<1>. DEFINE s == IF c = "Reward" THEN "credit" ELSE "athena"
            j == [Idle(s) EXCEPT !.command = c, !.who = a, !.left = left,
                    !.opened = opened, !.cc = common[a],
                    !.offer = IF c \in {"Purchase", "Gift"} THEN o ELSE None]
            new == <<"common_core", a>>
<1>1. common[a] \in Common
  BY DEF IInv, TypeOK
<1>2. j \in Job
  <2>1. Idle(s) \in Job
    BY IdleType DEF Steps
  <2>2. c \in Commands /\ a \in Accounts \union {None}
    OBVIOUS
  <2>3. (IF c \in {"Purchase", "Gift"} THEN o ELSE None) \in Offers \union {None}
    OBVIOUS
  <2>. HIDE DEF s
  <2>. QED  BY <1>1, <2>1, <2>2, <2>3 DEF Job
<1>3. /\ j.step \in {"credit", "athena"} /\ j.who = a /\ j.cc = common[a] /\ j.price = 0
      /\ j.command \in {"Purchase", "Gift"} => j.offer \in Offers
  BY DEF Idle
<1>4. Read(r, new) /\ new \in Records /\ UNCHANGED <<common, athena, season, ledger>>
  BY DEF FindProfile, Records
<1>5. job' = [job EXCEPT ![r] = j]
  OBVIOUS
<1>. HIDE DEF j
<1>6. JobShape(j)
  BY <1>3 DEF JobShape, Decided, OwnCommon, OwnAthena
<1>7. JobBounds(j, ledger)
  BY <1>3 DEF IInv, LedgerBounds, JobBounds, OwnCommon, OwnAthena
<1>8. JobFresh(j, common, athena, season, contested)
  BY <1>3 DEF JobFresh, OwnCommon, OwnAthena
<1>9. \A rec \in Records : Holds(j, rec) => rec = new
  BY <1>3 DEF Holds, OwnCommon, OwnAthena
<1>. HIDE DEF new
<1>. QED  BY ReadKeeps, <1>2, <1>4, <1>5, <1>6, <1>7, <1>8, <1>9

LEMMA FindAthenaKeeps ==
  ASSUME IInv, NEW r \in Requests, FindAthena(r)
  PROVE  IInv'
PROOF
<1>. DEFINE i == job[r]
            locker == athena[i.who]
            j == Accepted(i, locker)
            new == <<"athena", i.who>>
<1>1. CASE ~ Acceptable(i, locker)
  <2>1. Finish(r) /\ UNCHANGED <<common, athena, season, ledger, contested>>
    BY <1>1 DEF FindAthena
  <2>. QED  BY <2>1, FinishKeeps
<1>2. CASE Acceptable(i, locker)
  <2>1. /\ job' = [job EXCEPT ![r] = j] /\ Read(r, new)
        /\ UNCHANGED <<common, athena, season, ledger>>
        /\ i.step = "athena" /\ i.command \in {"Purchase", "Gift"}
    BY <1>2 DEF FindAthena
  <2>2. i \in Job /\ JobShape(i) /\ JobBounds(i, ledger)
    BY DEF IInv, TypeOK, JobsShaped, JobsBounded
  <2>3. JobFresh(i, common, athena, season, contested)
    BY DEF IInv, JobsFresh
  <2>4. i.who \in Accounts /\ i.offer \in Offers
    BY <2>1, <2>2 DEF JobShape
  <2>5. locker \in Athena /\ new \in Records
    BY <2>4 DEF IInv, TypeOK, Records
  <2>6. /\ j \in Job
        /\ j.step \in {"send", "pay", "vip", "level"}
        /\ j.step \in {"vip", "level"} => j.command = "Purchase"
        /\ j.command = i.command /\ j.who = i.who /\ j.offer = i.offer
        /\ j.cc = i.cc /\ j.at = locker
        /\ j.price <= j.cc.mtx
        /\ j.command = "Purchase" /\ j.offer.kind # "pass"
             => j.goods \intersect j.at.items = {}
    BY <1>2, <2>1, <2>2, <2>4, <2>5, AcceptedJob
  <2>7. /\ i.cc.mtx + ledger[i.who].spent >= Opening
        /\ i.cc.mtx <= Opening + ledger[i.who].earned
        /\ locker.items \subseteq ledger[i.who].bought
        /\ <<"common_core", i.who>> \notin contested => i.cc = common[i.who]
    BY <2>1, <2>2, <2>3, <2>4 DEF IInv, LedgerBounds, JobBounds, JobFresh, OwnCommon
  <2>8. Holds(i, <<"common_core", i.who>>)
    BY <2>1 DEF Holds, OwnCommon
  <2>9. locker = athena[j.who] /\ new = <<"athena", j.who>>
    BY <2>6
  <2>. HIDE DEF j, locker, new
  <2>10. JobShape(j)
    BY <2>4, <2>6 DEF JobShape, Decided, OwnCommon, OwnAthena
  <2>11. JobBounds(j, ledger)
    BY <2>6, <2>7 DEF JobBounds
  <2>12. JobFresh(j, common, athena, season, contested)
    BY <2>6, <2>7, <2>9 DEF JobFresh
  <2>13. \A rec \in Records : Holds(j, rec) => Holds(i, rec) \/ rec = new
    BY <2>6, <2>8, <2>9 DEF Holds
  <2>. QED  BY ReadKeeps, <2>1, <2>5, <2>6, <2>10, <2>11, <2>12, <2>13
<1>. QED  BY <1>1, <1>2

LEMMA FindToUnboxKeeps ==
  ASSUME IInv, NEW r \in Requests, FindToUnbox(r)
  PROVE  IInv'
PROOF
<1>. DEFINE i == job[r]
            j == [i EXCEPT !.step = "pay", !.at = athena[i.who]]
            new == <<"athena", i.who>>
<1>1. /\ i \in Job /\ JobShape(i) /\ JobBounds(i, ledger)
      /\ JobFresh(i, common, athena, season, contested)
  BY DEF IInv, TypeOK, JobsShaped, JobsBounded, JobsFresh
<1>2. i.step = "athena" /\ i.command = "RemoveGiftBox"
  BY DEF FindToUnbox
<1>3. i.who \in Accounts /\ i.price = 0 /\ i.cc.mtx \in Nat
  BY <1>1, <1>2 DEF JobShape, Job, Common
<1>4. athena[i.who] \in Athena /\ new \in Records
  BY <1>3 DEF IInv, TypeOK, Records
<1>5. j \in Job
  BY <1>1, <1>4 DEF Job, Steps
<1>6. /\ j.step = "pay" /\ j.command = "RemoveGiftBox" /\ j.who = i.who
      /\ j.price = 0 /\ j.cc = i.cc /\ j.at = athena[i.who]
  BY <1>1, <1>2, <1>3 DEF Job
<1>7. job' = [job EXCEPT ![r] = j]
  BY DEF FindToUnbox, IInv, TypeOK
<1>8. Read(r, new) /\ UNCHANGED <<common, athena, season, ledger>>
  BY DEF FindToUnbox
<1>. HIDE DEF j
<1>9. JobShape(j)
  BY <1>3, <1>6 DEF JobShape
<1>10. JobBounds(j, ledger)
  BY <1>1, <1>2, <1>3, <1>6 DEF JobBounds, IInv, LedgerBounds, OwnCommon
<1>11. JobFresh(j, common, athena, season, contested)
  BY <1>1, <1>2, <1>6 DEF JobFresh, OwnCommon
<1>12. \A rec \in Records : Holds(j, rec) => Holds(i, rec) \/ rec = new
  BY <1>2, <1>6 DEF Holds, OwnCommon
<1>. HIDE DEF new
<1>. QED  BY ReadKeeps, <1>4, <1>5, <1>7, <1>8, <1>9, <1>10, <1>11, <1>12

LEMMA FindSeasonKeeps ==
  ASSUME IInv, NEW r \in Requests, FindSeason(r)
  PROVE  IInv'
PROOF
<1>. DEFINE i == job[r]
            s == IF i.step = "vip" THEN "vipSave" ELSE "levelSave"
            new == <<"season", i.who>>
            As(found) == [i EXCEPT !.season = found, !.step = s]
<1>1. /\ i \in Job /\ JobShape(i) /\ JobBounds(i, ledger)
      /\ JobFresh(i, common, athena, season, contested)
  BY DEF IInv, TypeOK, JobsShaped, JobsBounded, JobsFresh
<1>2. i.step \in {"vip", "level"}
  BY DEF FindSeason
<1>3. i.who \in Accounts
  BY <1>1, <1>2 DEF JobShape
<1>4. season[i.who] \in Season /\ NoSeason \in Season /\ new \in Records
  BY <1>3 DEF IInv, TypeOK, Records, NoSeason, Season
<1>5. s \in {"vipSave", "levelSave"}
  OBVIOUS
<1>6. \/ job' = [job EXCEPT ![r] = As(season[i.who])] /\ Read(r, new)
      \/ job' = [job EXCEPT ![r] = As(NoSeason)] /\ contested' = contested \union {new}
  BY DEF FindSeason, IInv, TypeOK
<1>7. UNCHANGED <<common, athena, season, ledger>>
  BY DEF FindSeason
<1>. HIDE DEF s
<1>8. ASSUME NEW found \in Season,
             found.level <= ledger[i.who].levels, found.vip => ledger[i.who].vip
      PROVE  /\ As(found) \in Job
             /\ JobShape(As(found)) /\ JobBounds(As(found), ledger)
             /\ As(found).season = found
             /\ \A k \in SUBSET Records :
                  (new \in k \/ found = season[i.who]) /\ contested \subseteq k =>
                    JobFresh(As(found), common, athena, season, k)
             /\ \A rec \in Records : Holds(As(found), rec) => Holds(i, rec) \/ rec = new
  <2>. DEFINE j == As(found)
  <2>1. j \in Job
    BY <1>1, <1>5 DEF Job, Steps
  <2>2. /\ j.step \in {"vipSave", "levelSave"} /\ j.command = i.command /\ j.who = i.who
        /\ j.price = i.price /\ j.cc = i.cc /\ j.at = i.at /\ j.offer = i.offer
        /\ j.goods = i.goods /\ j.season = found
    BY <1>1, <1>5 DEF Job
  <2>. HIDE DEF j
  <2>3. JobShape(j)
    BY <1>1, <1>2, <1>3, <2>2 DEF JobShape, Decided, OwnCommon, OwnAthena
  <2>4. JobBounds(j, ledger)
    BY <1>1, <1>2, <1>8, <2>2 DEF JobBounds, OwnCommon, OwnAthena
  <2>5. ASSUME NEW k \in SUBSET Records, new \in k \/ found = season[i.who],
               contested \subseteq k
        PROVE  JobFresh(j, common, athena, season, k)
    BY <1>1, <1>2, <2>2, <2>5 DEF JobFresh, OwnCommon, OwnAthena
  <2>6. \A rec \in Records : Holds(j, rec) => Holds(i, rec) \/ rec = new
    BY <1>2, <2>2 DEF Holds, OwnCommon, OwnAthena
  <2>. QED  BY <2>1, <2>2, <2>3, <2>4, <2>5, <2>6 DEF j
<1>9. CASE job' = [job EXCEPT ![r] = As(season[i.who])] /\ Read(r, new)
  <2>. DEFINE j == As(season[i.who])
  <2>1. season[i.who].level <= ledger[i.who].levels /\ (season[i.who].vip => ledger[i.who].vip)
    BY <1>3 DEF IInv, LedgerBounds
  <2>2. contested \in SUBSET Records
    BY DEF IInv, TypeOK
  <2>3. /\ j \in Job /\ JobShape(j) /\ JobBounds(j, ledger)
        /\ JobFresh(j, common, athena, season, contested)
        /\ \A rec \in Records : Holds(j, rec) => Holds(i, rec) \/ rec = new
    BY <1>4, <1>8, <2>1, <2>2
  <2>4. job' = [job EXCEPT ![r] = j] /\ Read(r, new)
    BY <1>9
  <2>. HIDE DEF j, new
  <2>. QED  BY ReadKeeps, <1>4, <1>7, <2>3, <2>4
<1>10. CASE job' = [job EXCEPT ![r] = As(NoSeason)] /\ contested' = contested \union {new}
  <2>. DEFINE j == As(NoSeason)
  <2>1. NoSeason.level <= ledger[i.who].levels /\ ~ NoSeason.vip
    BY <1>3 DEF IInv, TypeOK, Ledger, NoSeason
  <2>2. contested' \in SUBSET Records /\ contested \subseteq contested' /\ new \in contested'
    BY <1>4, <1>10 DEF IInv, TypeOK
  <2>3. /\ j \in Job /\ JobShape(j) /\ JobBounds(j, ledger)
        /\ JobFresh(j, common, athena, season, contested')
        /\ \A rec \in Records : Holds(j, rec) => Holds(i, rec) \/ rec = new
    BY <1>4, <1>8, <2>1, <2>2
  <2>4. job' = [job EXCEPT ![r] = j]
    BY <1>10
  <2>. HIDE DEF j, new, As
  <2>5. TypeOK'
    BY <1>7, <2>2, <2>3, <2>4 DEF IInv, TypeOK
  <2>6. job'[r] = j /\ \A q \in Requests \ {r} : job'[q] = job[q]
    BY <2>4 DEF IInv, TypeOK
  <2>7. \A rec \in Records : Holds(job'[r], rec) => Holds(job[r], rec) \/ rec \in contested'
    BY <2>2, <2>3, <2>6
  <2>8. LedgerGrows
    BY <1>7 DEF LedgerGrows, IInv, TypeOK, Ledger
  <2>9. LedgerBounds' /\ ExactUnlessContested'
    BY <1>7, <2>2 DEF IInv, LedgerBounds, ExactUnlessContested
  <2>10. WritesHeld(r)
    BY <1>7 DEF WritesHeld
  <2>11. JobFresh(j, common', athena', season', contested')
    BY <1>7, <2>3
  <2>12. JobShape(job'[r]) /\ JobBounds(job'[r], ledger')
    BY <1>7, <2>3, <2>6
  <2>. QED
    BY StepKeeps, <2>2, <2>5, <2>6, <2>7, <2>8, <2>9, <2>10, <2>11, <2>12
<1>. HIDE DEF As, new
<1>. QED  BY <1>6, <1>9, <1>10

LEMMA FindReceiverKeeps ==
  ASSUME IInv, NEW r \in Requests, NEW v \in Accounts \union Strangers, FindReceiver(r, v)
  PROVE  IInv'
PROOF
<1>. DEFINE i == job[r]
            j == [i EXCEPT !.step = "receiver", !.to = v, !.left = @ \ {v},
                           !.rat = athena[v]]
            new == <<"athena", v>>
<1>1. CASE v \in Strangers
  <2>1. Finish(r) /\ UNCHANGED <<common, athena, season, ledger, contested>>
    BY <1>1 DEF FindReceiver
  <2>. QED  BY <2>1, FinishKeeps
<1>2. CASE v \notin Strangers
  <2>1. /\ i \in Job /\ JobShape(i) /\ JobBounds(i, ledger)
        /\ JobFresh(i, common, athena, season, contested)
    BY DEF IInv, TypeOK, JobsShaped, JobsBounded, JobsFresh
  <2>2. /\ i.step = "send" /\ v \in Accounts /\ v # i.who
        /\ Read(r, new) /\ UNCHANGED <<common, athena, season, ledger>>
    BY <1>2 DEF FindReceiver
  <2>3. athena[v] \in Athena /\ new \in Records
    BY <2>2 DEF IInv, TypeOK, Records
  <2>4. job' = [job EXCEPT ![r] = j]
    BY <1>2 DEF FindReceiver, IInv, TypeOK
  <2>5. j \in Job
    BY <2>1, <2>2, <2>3 DEF Job, Steps
  <2>6. /\ j.step = "receiver" /\ j.command = i.command /\ j.who = i.who /\ j.to = v
        /\ j.price = i.price /\ j.cc = i.cc /\ j.at = i.at /\ j.offer = i.offer
        /\ j.goods = i.goods /\ j.rat = athena[v]
    BY <2>1 DEF Job
  <2>. HIDE DEF j
  <2>7. JobShape(j)
    BY <2>1, <2>2, <2>6 DEF JobShape, Decided, OwnCommon, OwnAthena
  <2>8. JobBounds(j, ledger)
    BY <2>1, <2>2, <2>6 DEF JobBounds, IInv, LedgerBounds, OwnCommon, OwnAthena
  <2>9. JobFresh(j, common, athena, season, contested)
    BY <2>1, <2>2, <2>6 DEF JobFresh, OwnCommon, OwnAthena
  <2>10. \A rec \in Records : Holds(j, rec) => Holds(i, rec) \/ rec = new
    BY <2>2, <2>6 DEF Holds, OwnCommon, OwnAthena
  <2>. HIDE DEF new
  <2>. QED  BY ReadKeeps, <2>2, <2>3, <2>4, <2>5, <2>7, <2>8, <2>9, <2>10
<1>. QED  BY <1>1, <1>2

LEMMA FindReceiverCommonKeeps ==
  ASSUME IInv, NEW r \in Requests, FindReceiverCommon(r)
  PROVE  IInv'
PROOF
<1>. DEFINE i == job[r]
            j == [i EXCEPT !.step = "wrap", !.rcc = common[i.to]]
            new == <<"common_core", i.to>>
<1>1. /\ i \in Job /\ JobShape(i) /\ JobBounds(i, ledger)
      /\ JobFresh(i, common, athena, season, contested)
  BY DEF IInv, TypeOK, JobsShaped, JobsBounded, JobsFresh
<1>2. /\ i.step = "receiver" /\ Read(r, new)
      /\ UNCHANGED <<common, athena, season, ledger>>
  BY DEF FindReceiverCommon
<1>3. i.who \in Accounts /\ i.to \in Accounts /\ i.to # i.who
  BY <1>1, <1>2 DEF JobShape
<1>4. common[i.to] \in Common /\ new \in Records
  BY <1>3 DEF IInv, TypeOK, Records
<1>5. job' = [job EXCEPT ![r] = j]
  BY DEF FindReceiverCommon, IInv, TypeOK
<1>6. j \in Job
  BY <1>1, <1>4 DEF Job, Steps
<1>7. /\ j.step = "wrap" /\ j.command = i.command /\ j.who = i.who /\ j.to = i.to
      /\ j.price = i.price /\ j.cc = i.cc /\ j.at = i.at /\ j.offer = i.offer
      /\ j.goods = i.goods /\ j.rat = i.rat /\ j.rcc = common[i.to]
  BY <1>1 DEF Job
<1>. HIDE DEF j
<1>8. JobShape(j)
  BY <1>1, <1>2, <1>7 DEF JobShape, Decided, OwnCommon, OwnAthena
<1>9. JobBounds(j, ledger)
  BY <1>1, <1>2, <1>3, <1>7 DEF JobBounds, IInv, LedgerBounds, OwnCommon, OwnAthena
<1>10. JobFresh(j, common, athena, season, contested)
  BY <1>1, <1>2, <1>7 DEF JobFresh, OwnCommon, OwnAthena
<1>11. \A rec \in Records : Holds(j, rec) => Holds(i, rec) \/ rec = new
  BY <1>2, <1>7 DEF Holds, OwnCommon, OwnAthena
<1>. HIDE DEF new
<1>. QED  BY ReadKeeps, <1>2, <1>4, <1>5, <1>6, <1>8, <1>9, <1>10, <1>11

LEMMA FindUnseenKeeps ==
  ASSUME IInv, NEW r \in Requests, NEW a \in Accounts, FindUnseen(r, a)
  PROVE  IInv'
PROOF
<1>. DEFINE j == [Idle("mark") EXCEPT !.command = "MarkItemSeen", !.who = a,
                                      !.at = athena[a]]
            new == <<"athena", a>>
<1>1. /\ Read(r, new) /\ UNCHANGED <<common, athena, season, ledger>>
      /\ job' = [job EXCEPT ![r] = j]
  BY DEF FindUnseen
<1>2. athena[a] \in Athena /\ new \in Records
  BY DEF IInv, TypeOK, Records
<1>3. j \in Job
  <2>1. Idle("mark") \in Job
    BY IdleType DEF Steps
  <2>. QED  BY <1>2, <2>1 DEF Job, Commands
<1>4. j.step = "mark" /\ j.who = a /\ j.at = athena[a] /\ j.command = "MarkItemSeen"
  BY DEF Idle
<1>. HIDE DEF j
<1>5. JobShape(j)
  BY <1>4 DEF JobShape, Decided, OwnCommon
<1>6. JobBounds(j, ledger)
  BY <1>4 DEF JobBounds, IInv, LedgerBounds, OwnCommon
<1>7. JobFresh(j, common, athena, season, contested)
  BY <1>4 DEF JobFresh, OwnCommon
<1>8. \A rec \in Records : Holds(j, rec) => rec = new
  BY <1>4 DEF Holds, OwnCommon, OwnAthena
<1>. HIDE DEF new
<1>. QED  BY ReadKeeps, <1>1, <1>2, <1>3, <1>5, <1>6, <1>7, <1>8

-----------------------------------------------------------------------------
(* The writes.                                                             *)

(* A step that writes records r holds, and holds no others afterwards.     *)
LEMMA WriteKeeps ==
  ASSUME IInv, NEW r \in Requests, NEW j \in Job,
         job' = [job EXCEPT ![r] = j], contested' = contested,
         common' \in [Accounts -> Common], athena' \in [Accounts -> Athena],
         season' \in [Accounts -> Season], ledger' \in [Accounts -> Ledger],
         \A rec \in Records : Holds(j, rec) => Holds(job[r], rec),
         LedgerGrows,
         WritesHeld(r),
         JobShape(j), JobBounds(j, ledger'),
         JobFresh(j, common', athena', season', contested),
         LedgerBounds', ExactUnlessContested'
  PROVE  IInv'
PROOF
<1>1. TypeOK /\ TypeOK'
  BY DEF IInv, TypeOK
<1>2. job'[r] = j /\ \A q \in Requests \ {r} : job'[q] = job[q]
  BY <1>1 DEF TypeOK
<1>3. JobShape(job'[r]) /\ JobBounds(job'[r], ledger')
  BY <1>2
<1>4. JobFresh(job'[r], common', athena', season', contested')
  BY <1>2
<1>5. \A rec \in Records : Holds(job'[r], rec) => Holds(job[r], rec)
  BY <1>2
<1>. QED  BY StepKeeps, <1>1, <1>2, <1>3, <1>4, <1>5

\* r saves for a, in place of the record old that it has read, the record new, and
\* the ledger of a becomes l.
SavesCommon(r, a, old, new, l) ==
  /\ old \in Common /\ new \in Common /\ l \in Ledger
  /\ Holds(job[r], <<"common_core", a>>)
  /\ <<"common_core", a>> \notin contested => old = common[a]
  /\ l.spent >= ledger[a].spent /\ l.earned >= ledger[a].earned
  /\ l.bought = ledger[a].bought /\ l.levels = ledger[a].levels /\ l.vip = ledger[a].vip
  /\ new.mtx + l.spent >= Opening /\ new.mtx <= Opening + l.earned
  /\ old.mtx + ledger[a].spent = Opening + ledger[a].earned
       => new.mtx + l.spent = Opening + l.earned
  /\ old.boxes = ledger[a].boxes => new.boxes = l.boxes
  /\ common' = [common EXCEPT ![a] = new]
  /\ ledger' = [ledger EXCEPT ![a] = l]
  /\ UNCHANGED <<athena, season, contested>>

LEMMA CommonKeeps ==
  ASSUME IInv, NEW r \in Requests, NEW j \in Job, NEW a \in Accounts,
         NEW old, NEW new, NEW l, SavesCommon(r, a, old, new, l),
         job' = [job EXCEPT ![r] = j],
         \A rec \in Records :
           Holds(j, rec) => Holds(job[r], rec) /\ rec # <<"common_core", a>>,
         JobShape(j), JobBounds(j, ledger),
         JobFresh(j, common, athena, season, contested)
  PROVE  IInv'
PROOF
<1>. USE DEF SavesCommon
<1>1. TypeOK /\ ledger[a] \in Ledger
  BY DEF IInv, TypeOK
<1>2. /\ ledger' \in [Accounts -> Ledger] /\ ledger'[a] = l
      /\ \A b \in Accounts : b # a => ledger'[b] = ledger[b]
  BY <1>1 DEF TypeOK
<1>3. /\ common' \in [Accounts -> Common] /\ common'[a] = new
      /\ \A b \in Accounts : b # a => common'[b] = common[b]
  BY <1>1 DEF TypeOK
<1>4. \A b \in Accounts :
        /\ ledger[b].spent \in Nat /\ ledger[b].earned \in Nat /\ ledger[b].levels \in Nat
        /\ ledger'[b].spent \in Nat /\ ledger'[b].earned \in Nat
  BY <1>1, <1>2 DEF TypeOK, Ledger
<1>5. \A b \in Accounts :
        /\ ledger'[b].spent >= ledger[b].spent /\ ledger'[b].earned >= ledger[b].earned
        /\ ledger'[b].bought = ledger[b].bought
        /\ ledger'[b].levels = ledger[b].levels /\ ledger'[b].vip = ledger[b].vip
  BY <1>2, <1>4
<1>6. LedgerGrows
  BY <1>4, <1>5 DEF LedgerGrows
<1>7. WritesHeld(r)
  BY <1>3 DEF WritesHeld
<1>8. /\ j.step \in OwnCommon => j.who \in Accounts
      /\ j.step \in OwnAthena => j.who \in Accounts
      /\ j.step \in {"vipSave", "levelSave"} => j.who \in Accounts
      /\ j.step \in {"receiver", "wrap", "deliver"} => j.to \in Accounts
      /\ j.step = "wrap" => j.to \in Accounts
  BY DEF JobShape, OwnCommon, OwnAthena
<1>9. JobBounds(j, ledger')
  <2>1. j.cc.mtx \in Nat /\ j.rcc.mtx \in Nat
    BY DEF Job, Common
  <2>. QED  BY <1>4, <1>5, <1>8, <2>1, AmountsAssumption DEF JobBounds
<1>10. JobFresh(j, common', athena', season', contested)
  <2>1. /\ j.step \in OwnCommon => j.who # a
        /\ j.step = "wrap" => j.to # a
    BY <1>8 DEF Holds, Records
  <2>. QED  BY <1>3, <1>8, <2>1 DEF JobFresh
<1>11. LedgerBounds'
  <2>1. \A b \in Accounts :
          /\ common'[b].mtx + ledger'[b].spent >= Opening
          /\ common'[b].mtx <= Opening + ledger'[b].earned
    BY <1>2, <1>3 DEF IInv, LedgerBounds
  <2>. QED  BY <1>5, <2>1 DEF IInv, LedgerBounds
<1>12. ExactUnlessContested'
  <2>1. <<"common_core", a>> \notin contested =>
          /\ new.mtx + l.spent = Opening + l.earned
          /\ new.boxes = l.boxes
    BY DEF IInv, ExactUnlessContested
  <2>2. \A b \in Accounts : <<"common_core", b>> \notin contested =>
          /\ common'[b].mtx + ledger'[b].spent = Opening + ledger'[b].earned
          /\ common'[b].boxes = ledger'[b].boxes
    BY <1>2, <1>3, <2>1 DEF IInv, ExactUnlessContested
  <2>3. athena' = athena /\ season' = season /\ contested' = contested
    OBVIOUS
  <2>4. \A b \in Accounts : <<"athena", b>> \notin contested =>
          athena'[b].items = ledger'[b].bought
    BY <1>5, <2>3 DEF IInv, ExactUnlessContested
  <2>5. \A b \in Accounts : ledger'[b].levels = ledger[b].levels /\ ledger'[b].vip = ledger[b].vip
    BY <1>5
  <2>6. \A b \in Accounts : <<"season", b>> \notin contested =>
          season'[b].level = ledger'[b].levels /\ season'[b].vip = ledger'[b].vip
    BY <2>3, <2>5 DEF IInv, ExactUnlessContested
  <2>. QED  BY <2>2, <2>3, <2>4, <2>6 DEF ExactUnlessContested
<1>13. /\ athena' \in [Accounts -> Athena] /\ season' \in [Accounts -> Season]
       /\ contested' = contested
  BY <1>1 DEF TypeOK
<1>14. \A rec \in Records : Holds(j, rec) => Holds(job[r], rec)
  OBVIOUS
<1>. QED  BY WriteKeeps, <1>2, <1>3, <1>6, <1>7, <1>9, <1>10, <1>11, <1>12, <1>13, <1>14

LEMMA SaveProfileKeeps ==
  ASSUME IInv, NEW r \in Requests, SaveProfile(r)
  PROVE  IInv'
PROOF
<1>. DEFINE i == job[r]
            w == i.who
            j == [i EXCEPT !.step = "grant", !.cc = NoCommon, !.left = {}, !.opened = {}]
            b == Boxes(i, ledger[w].boxes)
            l == [ledger[w] EXCEPT !.spent = @ + i.price, !.boxes = b]
<1>1. /\ i \in Job /\ JobShape(i) /\ JobBounds(i, ledger)
      /\ JobFresh(i, common, athena, season, contested)
  BY DEF IInv, TypeOK, JobsShaped, JobsBounded, JobsFresh
<1>2. /\ i.step \in {"pay", "send"}
      /\ common' = [common EXCEPT ![w] = Paid(i)]
      /\ ledger' = [ledger EXCEPT ![w].spent = @ + i.price, ![w].boxes = Boxes(i, @)]
      /\ UNCHANGED <<athena, season, contested>>
  BY DEF SaveProfile, ReadyToPay
<1>3. /\ w \in Accounts /\ i.price \in Nat /\ i.cc \in Common /\ i.cc.mtx \in Nat
      /\ i.price <= i.cc.mtx
  BY <1>1, <1>2 DEF JobShape, Job, Decided, OwnCommon, Common
<1>4. /\ i.cc.mtx + ledger[w].spent >= Opening
      /\ i.cc.mtx <= Opening + ledger[w].earned
      /\ <<"common_core", w>> \notin contested => i.cc = common[w]
      /\ Holds(i, <<"common_core", w>>)
  BY <1>1, <1>2 DEF JobBounds, JobFresh, Holds, OwnCommon
<1>5. /\ ledger[w] \in Ledger /\ ledger[w].spent \in Nat /\ ledger[w].earned \in Nat
      /\ ledger[w].boxes \in SUBSET GiftBox /\ i.cc.boxes \in SUBSET GiftBox
  BY <1>3 DEF IInv, TypeOK, Ledger, Common
<1>6. b \in SUBSET GiftBox /\ Boxes(i, i.cc.boxes) \in SUBSET GiftBox
  BY <1>5 DEF Boxes, GiftBox
<1>7. Paid(i) \in Common /\ Paid(i).mtx = i.cc.mtx - i.price
      /\ Paid(i).boxes = Boxes(i, i.cc.boxes)
  BY <1>3, <1>6 DEF Paid, Common
<1>8. ledger' = [ledger EXCEPT ![w] = l]
  BY <1>2, <1>3 DEF IInv, TypeOK
<1>9. i.cc.boxes = ledger[w].boxes => Paid(i).boxes = b
  BY <1>7
<1>. HIDE DEF b
<1>10. ledger[w].spent + i.price \in Nat
  BY <1>3, <1>5
<1>11. l \in Ledger
  BY <1>5, <1>6, <1>10 DEF Ledger
<1>12. /\ l.spent = ledger[w].spent + i.price /\ l.earned = ledger[w].earned
       /\ l.bought = ledger[w].bought /\ l.levels = ledger[w].levels
       /\ l.vip = ledger[w].vip /\ l.boxes = b
  BY <1>5 DEF Ledger
<1>. HIDE DEF l
<1>13. SavesCommon(r, w, i.cc, Paid(i), l)
  <2>1. /\ l.spent >= ledger[w].spent /\ l.earned >= ledger[w].earned
        /\ Paid(i).mtx + l.spent >= Opening /\ Paid(i).mtx <= Opening + l.earned
        /\ i.cc.mtx + ledger[w].spent = Opening + ledger[w].earned
             => Paid(i).mtx + l.spent = Opening + l.earned
    BY <1>3, <1>4, <1>5, <1>7, <1>12, AmountsAssumption
  <2>2. i.cc.boxes = ledger[w].boxes => Paid(i).boxes = l.boxes
    BY <1>9, <1>12
  <2>. QED  BY <1>2, <1>3, <1>4, <1>7, <1>8, <1>11, <1>12, <2>1, <2>2 DEF SavesCommon
<1>14. j \in Job
  BY <1>1 DEF Job, Steps, NoCommon, Common
<1>15. job' = [job EXCEPT ![r] = j]
  BY DEF SaveProfile, IInv, TypeOK
<1>16. /\ j.step = "grant" /\ j.who = w /\ j.command = i.command /\ j.at = i.at
       /\ j.offer = i.offer /\ j.goods = i.goods
  BY <1>1 DEF Job
<1>. HIDE DEF j
<1>17. JobShape(j)
  BY <1>1, <1>2, <1>3, <1>16 DEF JobShape, Decided, OwnCommon, OwnAthena
<1>18. JobBounds(j, ledger)
  BY <1>1, <1>2, <1>16 DEF JobBounds, OwnCommon, OwnAthena
<1>19. JobFresh(j, common, athena, season, contested)
  BY <1>1, <1>2, <1>16 DEF JobFresh, OwnCommon, OwnAthena
<1>20. \A rec \in Records : Holds(j, rec) => Holds(i, rec) /\ rec # <<"common_core", w>>
  BY <1>2, <1>16 DEF Holds, OwnCommon, OwnAthena
<1>. QED  BY CommonKeeps, <1>3, <1>13, <1>14, <1>15, <1>17, <1>18, <1>19, <1>20

LEMMA SaveReceiverCommonKeeps ==
  ASSUME IInv, NEW r \in Requests, SaveReceiverCommon(r)
  PROVE  IInv'
PROOF
<1>. DEFINE i == job[r]
            v == i.to
            j == [i EXCEPT !.step = "deliver", !.rcc = NoCommon]
            b == ledger[v].boxes \union {"gift"}
            l == [ledger[v] EXCEPT !.boxes = b]
<1>1. /\ i \in Job /\ JobShape(i) /\ JobBounds(i, ledger)
      /\ JobFresh(i, common, athena, season, contested)
  BY DEF IInv, TypeOK, JobsShaped, JobsBounded, JobsFresh
<1>2. /\ i.step = "wrap"
      /\ common' = [common EXCEPT ![v] = Wrapped(i)]
      /\ ledger' = [ledger EXCEPT ![v].boxes = @ \union {"gift"}]
      /\ UNCHANGED <<athena, season, contested>>
  BY DEF SaveReceiverCommon
<1>3. v \in Accounts /\ v # i.who /\ i.who \in Accounts /\ i.rcc \in Common
  BY <1>1, <1>2 DEF JobShape, Job
<1>4. /\ i.rcc.mtx + ledger[v].spent >= Opening
      /\ i.rcc.mtx <= Opening + ledger[v].earned
      /\ <<"common_core", v>> \notin contested => i.rcc = common[v]
      /\ Holds(i, <<"common_core", v>>)
  BY <1>1, <1>2 DEF JobBounds, JobFresh, Holds
<1>5. /\ ledger[v] \in Ledger /\ ledger[v].spent \in Nat /\ ledger[v].earned \in Nat
      /\ ledger[v].boxes \in SUBSET GiftBox
  BY <1>3 DEF IInv, TypeOK, Ledger
<1>6. /\ Wrapped(i) \in Common /\ Wrapped(i).mtx = i.rcc.mtx
      /\ Wrapped(i).boxes = i.rcc.boxes \union {"gift"}
  BY <1>3 DEF Wrapped, Common, GiftBox
<1>7. ledger' = [ledger EXCEPT ![v] = l]
  BY <1>2, <1>3 DEF IInv, TypeOK
<1>8. i.rcc.boxes = ledger[v].boxes => Wrapped(i).boxes = b
  BY <1>5, <1>6 DEF GiftBox
<1>9. b \in SUBSET GiftBox
  BY <1>5 DEF GiftBox
<1>. HIDE DEF b
<1>10. l \in Ledger
  BY <1>5, <1>9 DEF Ledger
<1>11. /\ l.spent = ledger[v].spent /\ l.earned = ledger[v].earned
       /\ l.bought = ledger[v].bought /\ l.levels = ledger[v].levels
       /\ l.vip = ledger[v].vip /\ l.boxes = b
  BY <1>5 DEF Ledger
<1>. HIDE DEF l
<1>12. SavesCommon(r, v, i.rcc, Wrapped(i), l)
  <2>1. /\ l.spent >= ledger[v].spent /\ l.earned >= ledger[v].earned
        /\ Wrapped(i).mtx + l.spent >= Opening /\ Wrapped(i).mtx <= Opening + l.earned
        /\ i.rcc.mtx + ledger[v].spent = Opening + ledger[v].earned
             => Wrapped(i).mtx + l.spent = Opening + l.earned
    BY <1>4, <1>5, <1>6, <1>11
  <2>2. i.rcc.boxes = ledger[v].boxes => Wrapped(i).boxes = l.boxes
    BY <1>8, <1>9, <1>11
  <2>. QED  BY <1>2, <1>3, <1>4, <1>6, <1>7, <1>10, <1>11, <2>1, <2>2 DEF SavesCommon
<1>13. j \in Job
  BY <1>1 DEF Job, Steps, NoCommon, Common
<1>14. job' = [job EXCEPT ![r] = j]
  BY DEF SaveReceiverCommon, IInv, TypeOK
<1>15. /\ j.step = "deliver" /\ j.command = i.command /\ j.who = i.who /\ j.to = v
       /\ j.price = i.price /\ j.cc = i.cc /\ j.at = i.at /\ j.offer = i.offer
       /\ j.goods = i.goods /\ j.rat = i.rat
  BY <1>1 DEF Job
<1>. HIDE DEF j
<1>16. JobShape(j)
  BY <1>1, <1>2, <1>3, <1>15 DEF JobShape, Decided, OwnCommon, OwnAthena
<1>17. JobBounds(j, ledger)
  BY <1>1, <1>2, <1>15 DEF JobBounds, OwnCommon, OwnAthena
<1>18. JobFresh(j, common, athena, season, contested)
  BY <1>1, <1>2, <1>15 DEF JobFresh, OwnCommon, OwnAthena
<1>19. \A rec \in Records : Holds(j, rec) => Holds(i, rec) /\ rec # <<"common_core", v>>
  BY <1>2, <1>3, <1>15 DEF Holds, OwnCommon, OwnAthena
<1>. QED  BY CommonKeeps, <1>3, <1>12, <1>13, <1>14, <1>16, <1>17, <1>18, <1>19

LEMMA SaveRewardKeeps ==
  ASSUME IInv, NEW r \in Requests, SaveReward(r)
  PROVE  IInv'
PROOF
<1>. DEFINE i == job[r]
            w == i.who
            j == Idle("done")
            new == [i.cc EXCEPT !.mtx = @ + VBUCKS_PER_KILL]
            l == [ledger[w] EXCEPT !.earned = @ + VBUCKS_PER_KILL]
<1>1. /\ i \in Job /\ JobShape(i) /\ JobBounds(i, ledger)
      /\ JobFresh(i, common, athena, season, contested)
  BY DEF IInv, TypeOK, JobsShaped, JobsBounded, JobsFresh
<1>2. /\ i.step = "credit"
      /\ common' = [common EXCEPT ![w] = new]
      /\ ledger' = [ledger EXCEPT ![w].earned = @ + VBUCKS_PER_KILL]
      /\ job' = [job EXCEPT ![r] = j]
      /\ UNCHANGED <<athena, season, contested>>
  BY DEF SaveReward, Finish
<1>3. w \in Accounts /\ i.cc \in Common /\ i.cc.mtx \in Nat
  BY <1>1, <1>2 DEF JobShape, Job, Common
<1>4. /\ i.cc.mtx + ledger[w].spent >= Opening
      /\ i.cc.mtx <= Opening + ledger[w].earned
      /\ <<"common_core", w>> \notin contested => i.cc = common[w]
      /\ Holds(i, <<"common_core", w>>)
  BY <1>1, <1>2 DEF JobBounds, JobFresh, Holds, OwnCommon
<1>5. /\ ledger[w] \in Ledger /\ ledger[w].spent \in Nat /\ ledger[w].earned \in Nat
  BY <1>3 DEF IInv, TypeOK, Ledger
<1>6. new \in Common /\ new.mtx = i.cc.mtx + VBUCKS_PER_KILL /\ new.boxes = i.cc.boxes
  BY <1>3, AmountsAssumption DEF Common
<1>7. ledger' = [ledger EXCEPT ![w] = l]
  BY <1>2, <1>3 DEF IInv, TypeOK
<1>8. l \in Ledger
  BY <1>5, AmountsAssumption DEF Ledger
<1>9. /\ l.spent = ledger[w].spent /\ l.earned = ledger[w].earned + VBUCKS_PER_KILL
      /\ l.bought = ledger[w].bought /\ l.levels = ledger[w].levels
      /\ l.vip = ledger[w].vip /\ l.boxes = ledger[w].boxes
  BY <1>5 DEF Ledger
<1>. HIDE DEF l, new
<1>10. SavesCommon(r, w, i.cc, new, l)
  <2>1. /\ l.spent >= ledger[w].spent /\ l.earned >= ledger[w].earned
        /\ new.mtx + l.spent >= Opening /\ new.mtx <= Opening + l.earned
        /\ i.cc.mtx + ledger[w].spent = Opening + ledger[w].earned
             => new.mtx + l.spent = Opening + l.earned
    BY <1>3, <1>4, <1>5, <1>6, <1>9, AmountsAssumption
  <2>. QED  BY <1>2, <1>3, <1>4, <1>6, <1>7, <1>8, <1>9, <2>1 DEF SavesCommon
<1>11. j \in Job /\ j.step = "done"
  BY IdleType DEF Idle, Steps
<1>. HIDE DEF j
<1>12. /\ JobShape(j) /\ JobBounds(j, ledger)
       /\ JobFresh(j, common, athena, season, contested)
       /\ \A rec \in Records :
            Holds(j, rec) => Holds(i, rec) /\ rec # <<"common_core", w>>
  BY <1>11 DEF JobShape, JobBounds, JobFresh, Holds, Decided, OwnCommon, OwnAthena
<1>. QED  BY CommonKeeps, <1>2, <1>3, <1>10, <1>11, <1>12

\* r saves the locker it has read for a, with goods added and entered in the ledger.
SavesLocker(r, a, locker, goods, new) ==
  /\ locker \in Athena /\ goods \in SUBSET Items /\ new \in Athena
  /\ Holds(job[r], <<"athena", a>>)
  /\ locker.items \subseteq ledger[a].bought
  /\ <<"athena", a>> \notin contested => locker = athena[a]
  /\ new.items = locker.items \union goods
  /\ athena' = [athena EXCEPT ![a] = new]
  /\ ledger' = [ledger EXCEPT ![a].bought = @ \union goods]
  /\ UNCHANGED <<common, season, contested>>

LEMMA AthenaKeeps ==
  ASSUME IInv, NEW r \in Requests, NEW j \in Job, NEW a \in Accounts,
         NEW locker, NEW goods, NEW new, SavesLocker(r, a, locker, goods, new),
         job' = [job EXCEPT ![r] = j],
         \A rec \in Records :
           Holds(j, rec) => Holds(job[r], rec) /\ rec # <<"athena", a>>,
         JobShape(j), JobBounds(j, ledger),
         JobFresh(j, common, athena, season, contested)
  PROVE  IInv'
PROOF
<1>. USE DEF SavesLocker
<1>1. TypeOK /\ ledger[a] \in Ledger /\ ledger[a].bought \in SUBSET Items
  BY DEF IInv, TypeOK, Ledger
<1>2. ledger' \in [Accounts -> Ledger]
  <2>. DEFINE e == [ledger[a] EXCEPT !.bought = @ \union goods]
  <2>1. e \in Ledger
    BY <1>1 DEF Ledger
  <2>2. ledger' = [ledger EXCEPT ![a] = e]
    BY <1>1 DEF TypeOK
  <2>. HIDE DEF e
  <2>. QED  BY <1>1, <2>1, <2>2 DEF TypeOK
<1>3. /\ ledger'[a].bought = ledger[a].bought \union goods
      /\ ledger'[a].spent = ledger[a].spent /\ ledger'[a].earned = ledger[a].earned
      /\ ledger'[a].levels = ledger[a].levels /\ ledger'[a].vip = ledger[a].vip
      /\ ledger'[a].boxes = ledger[a].boxes
      /\ \A b \in Accounts : b # a => ledger'[b] = ledger[b]
  BY <1>1 DEF TypeOK, Ledger
<1>4. /\ athena' \in [Accounts -> Athena] /\ athena'[a] = new
      /\ \A b \in Accounts : b # a => athena'[b] = athena[b]
  BY <1>1 DEF TypeOK
<1>5. \A b \in Accounts :
        /\ ledger'[b].spent = ledger[b].spent /\ ledger'[b].earned = ledger[b].earned
        /\ ledger'[b].levels = ledger[b].levels /\ ledger'[b].vip = ledger[b].vip
        /\ ledger'[b].boxes = ledger[b].boxes
        /\ ledger[b].bought \subseteq ledger'[b].bought
  BY <1>3
<1>6. \A b \in Accounts :
        /\ ledger[b].spent \in Nat /\ ledger[b].earned \in Nat /\ ledger[b].levels \in Nat
  BY <1>1 DEF TypeOK, Ledger
<1>7. LedgerGrows
  BY <1>5, <1>6 DEF LedgerGrows
<1>8. WritesHeld(r)
  BY <1>4 DEF WritesHeld
<1>9. JobBounds(j, ledger')
  <2>1. /\ j.step \in OwnCommon => j.who \in Accounts
        /\ j.step \in OwnAthena => j.who \in Accounts
        /\ j.step \in {"vipSave", "levelSave"} => j.who \in Accounts
        /\ j.step \in {"receiver", "wrap", "deliver"} => j.to \in Accounts
    BY DEF JobShape, OwnCommon, OwnAthena
  <2>. QED  BY <1>5, <2>1 DEF JobBounds
<1>10. JobFresh(j, common', athena', season', contested)
  <2>1. /\ j.step \in OwnAthena => j.who \in Accounts
        /\ j.step \in {"receiver", "wrap", "deliver"} => j.to \in Accounts
    BY DEF JobShape, OwnCommon, OwnAthena
  <2>2. /\ j.step \in OwnAthena => j.who # a
        /\ j.step \in {"receiver", "wrap", "deliver"} => j.to # a
    BY <2>1 DEF Holds, Records
  <2>. QED  BY <1>4, <2>1, <2>2 DEF JobFresh
<1>11. LedgerBounds'
  <2>1. \A b \in Accounts : athena'[b].items \subseteq ledger'[b].bought
    BY <1>3, <1>4 DEF IInv, LedgerBounds
  <2>. QED  BY <1>5, <2>1 DEF IInv, LedgerBounds
<1>12. ExactUnlessContested'
  <2>1. <<"athena", a>> \notin contested => athena'[a].items = ledger'[a].bought
    BY <1>3, <1>4 DEF IInv, ExactUnlessContested
  <2>2. \A b \in Accounts : <<"athena", b>> \notin contested =>
          athena'[b].items = ledger'[b].bought
    BY <1>3, <1>4, <2>1 DEF IInv, ExactUnlessContested
  <2>3. \A b \in Accounts : <<"common_core", b>> \notin contested =>
          /\ common'[b].mtx + ledger'[b].spent = Opening + ledger'[b].earned
          /\ common'[b].boxes = ledger'[b].boxes
    BY <1>5 DEF IInv, ExactUnlessContested
  <2>4. \A b \in Accounts : ledger'[b].levels = ledger[b].levels /\ ledger'[b].vip = ledger[b].vip
    BY <1>5
  <2>5. season' = season /\ contested' = contested
    OBVIOUS
  <2>6. \A b \in Accounts : <<"season", b>> \notin contested =>
          season'[b].level = ledger'[b].levels /\ season'[b].vip = ledger'[b].vip
    BY <2>4, <2>5 DEF IInv, ExactUnlessContested
  <2>. QED  BY <2>2, <2>3, <2>5, <2>6 DEF ExactUnlessContested
<1>13. /\ common' \in [Accounts -> Common] /\ season' \in [Accounts -> Season]
       /\ contested' = contested
  BY <1>1 DEF TypeOK
<1>14. \A rec \in Records : Holds(j, rec) => Holds(job[r], rec)
  OBVIOUS
<1>. QED  BY WriteKeeps, <1>2, <1>4, <1>7, <1>8, <1>9, <1>10, <1>11, <1>12, <1>13, <1>14

LEMMA SaveAthenaKeeps ==
  ASSUME IInv, NEW r \in Requests, SaveAthena(r)
  PROVE  IInv'
PROOF
<1>. DEFINE i == job[r]
            w == i.who
            j == Idle("done")
<1>1. /\ i \in Job /\ JobShape(i) /\ JobBounds(i, ledger)
      /\ JobFresh(i, common, athena, season, contested)
  BY DEF IInv, TypeOK, JobsShaped, JobsBounded, JobsFresh
<1>2. /\ i.step = "grant"
      /\ athena' = [athena EXCEPT ![w] = Added(i.at, OwnGoods(i))]
      /\ ledger' = [ledger EXCEPT ![w].bought = @ \union OwnGoods(i)]
      /\ job' = [job EXCEPT ![r] = j]
      /\ UNCHANGED <<common, season, contested>>
  BY DEF SaveAthena, Finish
<1>3. w \in Accounts /\ i.at \in Athena /\ OwnGoods(i) \in SUBSET Items
  BY <1>1, <1>2 DEF JobShape, Job, OwnGoods
<1>4. /\ Added(i.at, OwnGoods(i)) \in Athena
      /\ Added(i.at, OwnGoods(i)).items = i.at.items \union OwnGoods(i)
  BY <1>3 DEF Added, Athena
<1>5. /\ Holds(i, <<"athena", w>>) /\ i.at.items \subseteq ledger[w].bought
      /\ <<"athena", w>> \notin contested => i.at = athena[w]
  BY <1>1, <1>2 DEF Holds, JobBounds, JobFresh, OwnAthena
<1>6. j \in Job /\ j.step = "done"
  BY IdleType DEF Idle, Steps
<1>. HIDE DEF j
<1>7. /\ JobShape(j) /\ JobBounds(j, ledger)
      /\ JobFresh(j, common, athena, season, contested)
      /\ \A rec \in Records :
           Holds(j, rec) => Holds(i, rec) /\ rec # <<"athena", w>>
  BY <1>6 DEF JobShape, JobBounds, JobFresh, Holds, Decided, OwnCommon, OwnAthena
<1>8. SavesLocker(r, w, i.at, OwnGoods(i), Added(i.at, OwnGoods(i)))
  BY <1>2, <1>3, <1>4, <1>5 DEF SavesLocker
<1>. QED  BY AthenaKeeps, <1>2, <1>3, <1>6, <1>7, <1>8

LEMMA SaveReceiverAthenaKeeps ==
  ASSUME IInv, NEW r \in Requests, SaveReceiverAthena(r)
  PROVE  IInv'
PROOF
<1>. DEFINE i == job[r]
            v == i.to
            j == [i EXCEPT !.step = "send", !.to = None, !.rat = NoAthena]
<1>1. /\ i \in Job /\ JobShape(i) /\ JobBounds(i, ledger)
      /\ JobFresh(i, common, athena, season, contested)
  BY DEF IInv, TypeOK, JobsShaped, JobsBounded, JobsFresh
<1>2. /\ i.step = "deliver"
      /\ athena' = [athena EXCEPT ![v] = Added(i.rat, i.goods)]
      /\ ledger' = [ledger EXCEPT ![v].bought = @ \union i.goods]
      /\ UNCHANGED <<common, season, contested>>
  BY DEF SaveReceiverAthena
<1>3. /\ v \in Accounts /\ v # i.who /\ i.who \in Accounts
      /\ i.rat \in Athena /\ i.goods \in SUBSET Items
  BY <1>1, <1>2 DEF JobShape, Job
<1>4. /\ Added(i.rat, i.goods) \in Athena
      /\ Added(i.rat, i.goods).items = i.rat.items \union i.goods
  BY <1>3 DEF Added, Athena
<1>5. /\ Holds(i, <<"athena", v>>) /\ i.rat.items \subseteq ledger[v].bought
      /\ <<"athena", v>> \notin contested => i.rat = athena[v]
  BY <1>1, <1>2 DEF Holds, JobBounds, JobFresh
<1>6. SavesLocker(r, v, i.rat, i.goods, Added(i.rat, i.goods))
  BY <1>2, <1>3, <1>4, <1>5 DEF SavesLocker
<1>7. j \in Job
  BY <1>1 DEF Job, Steps, NoAthena, Athena
<1>8. job' = [job EXCEPT ![r] = j]
  BY DEF SaveReceiverAthena, IInv, TypeOK
<1>9. /\ j.step = "send" /\ j.command = i.command /\ j.who = i.who
      /\ j.price = i.price /\ j.cc = i.cc /\ j.at = i.at /\ j.offer = i.offer
      /\ j.goods = i.goods
  BY <1>1 DEF Job
<1>. HIDE DEF j
<1>10. JobShape(j)
  BY <1>1, <1>2, <1>3, <1>9 DEF JobShape, Decided, OwnCommon, OwnAthena
<1>11. JobBounds(j, ledger)
  BY <1>1, <1>2, <1>9 DEF JobBounds, OwnCommon, OwnAthena
<1>12. JobFresh(j, common, athena, season, contested)
  BY <1>1, <1>2, <1>9 DEF JobFresh, OwnCommon, OwnAthena
<1>13. \A rec \in Records : Holds(j, rec) => Holds(i, rec) /\ rec # <<"athena", v>>
  BY <1>2, <1>3, <1>9 DEF Holds, OwnCommon, OwnAthena
<1>. QED  BY AthenaKeeps, <1>3, <1>6, <1>7, <1>8, <1>10, <1>11, <1>12, <1>13

LEMMA SaveSeenKeeps ==
  ASSUME IInv, NEW r \in Requests, SaveSeen(r)
  PROVE  IInv'
PROOF
<1>. DEFINE i == job[r]
            w == i.who
            j == Idle("done")
<1>1. /\ i \in Job /\ JobShape(i) /\ JobBounds(i, ledger)
      /\ JobFresh(i, common, athena, season, contested)
  BY DEF IInv, TypeOK, JobsShaped, JobsBounded, JobsFresh
<1>2. PICK x \in i.at.items \ i.at.seen :
        athena' = [athena EXCEPT ![w] = [i.at EXCEPT !.seen = @ \union {x}]]
  BY DEF SaveSeen
<1>3. /\ i.step = "mark" /\ job' = [job EXCEPT ![r] = j]
      /\ UNCHANGED <<common, season, ledger, contested>>
  BY DEF SaveSeen, Finish
<1>. DEFINE new == [i.at EXCEPT !.seen = @ \union {x}]
<1>4. w \in Accounts /\ i.at \in Athena
  BY <1>1, <1>3 DEF JobShape, Job
<1>5. new \in Athena /\ new.items = i.at.items \union {}
  BY <1>2, <1>4 DEF Athena
<1>6. /\ Holds(i, <<"athena", w>>) /\ i.at.items \subseteq ledger[w].bought
      /\ <<"athena", w>> \notin contested => i.at = athena[w]
  BY <1>1, <1>3 DEF Holds, JobBounds, JobFresh, OwnAthena
<1>7. ledger' = [ledger EXCEPT ![w].bought = @ \union {}]
  BY <1>3, <1>4 DEF IInv, TypeOK, Ledger
<1>8. SavesLocker(r, w, i.at, {}, new)
  BY <1>2, <1>3, <1>4, <1>5, <1>6, <1>7 DEF SavesLocker
<1>9. j \in Job /\ j.step = "done"
  BY IdleType DEF Idle, Steps
<1>. HIDE DEF j, new
<1>10. /\ JobShape(j) /\ JobBounds(j, ledger)
       /\ JobFresh(j, common, athena, season, contested)
       /\ \A rec \in Records :
            Holds(j, rec) => Holds(i, rec) /\ rec # <<"athena", w>>
  BY <1>9 DEF JobShape, JobBounds, JobFresh, Holds, Decided, OwnCommon, OwnAthena
<1>. QED  BY AthenaKeeps, <1>3, <1>4, <1>8, <1>9, <1>10

\* r saves the season of a, and the ledger of a becomes l.
SavesSeason(r, a, old, new, l) ==
  /\ old \in Season /\ new \in Season /\ l \in Ledger
  /\ Holds(job[r], <<"season", a>>)
  /\ <<"season", a>> \notin contested => old = season[a]
  /\ l.spent = ledger[a].spent /\ l.earned = ledger[a].earned
  /\ l.bought = ledger[a].bought /\ l.boxes = ledger[a].boxes
  /\ l.levels >= ledger[a].levels
  /\ ledger[a].vip => l.vip
  /\ new.level <= l.levels
  /\ new.vip => l.vip
  /\ old.level = ledger[a].levels => new.level = l.levels
  /\ old.vip = ledger[a].vip => new.vip = l.vip
  /\ season' = [season EXCEPT ![a] = new]
  /\ ledger' = [ledger EXCEPT ![a] = l]
  /\ UNCHANGED <<common, athena, contested>>

LEMMA SeasonKeeps ==
  ASSUME IInv, NEW r \in Requests, NEW j \in Job, NEW a \in Accounts,
         NEW old, NEW new, NEW l, SavesSeason(r, a, old, new, l),
         job' = [job EXCEPT ![r] = j],
         \A rec \in Records :
           Holds(j, rec) => Holds(job[r], rec) /\ rec # <<"season", a>>,
         JobShape(j), JobBounds(j, ledger),
         JobFresh(j, common, athena, season, contested)
  PROVE  IInv'
PROOF
<1>. USE DEF SavesSeason
<1>1. TypeOK /\ ledger[a] \in Ledger
  BY DEF IInv, TypeOK
<1>2. /\ ledger' \in [Accounts -> Ledger] /\ ledger'[a] = l
      /\ \A b \in Accounts : b # a => ledger'[b] = ledger[b]
  BY <1>1 DEF TypeOK
<1>3. /\ season' \in [Accounts -> Season] /\ season'[a] = new
      /\ \A b \in Accounts : b # a => season'[b] = season[b]
  BY <1>1 DEF TypeOK
<1>4. \A b \in Accounts :
        /\ ledger[b].spent \in Nat /\ ledger[b].earned \in Nat /\ ledger[b].levels \in Nat
        /\ ledger'[b].levels \in Nat
  BY <1>1, <1>2 DEF TypeOK, Ledger
<1>5. ASSUME NEW b \in Accounts
      PROVE
        /\ ledger'[b].spent = ledger[b].spent /\ ledger'[b].earned = ledger[b].earned
        /\ ledger'[b].bought = ledger[b].bought /\ ledger'[b].boxes = ledger[b].boxes
        /\ ledger'[b].levels >= ledger[b].levels
        /\ ledger[b].vip => ledger'[b].vip
  <2>1. CASE b = a
    BY <1>2, <2>1
  <2>2. CASE b # a
    BY <1>2, <1>4, <2>2
  <2>. QED  BY <2>1, <2>2
<1>6. LedgerGrows
  BY <1>4, <1>5 DEF LedgerGrows
<1>7. WritesHeld(r)
  BY <1>3 DEF WritesHeld
<1>8. /\ j.step \in OwnCommon => j.who \in Accounts
      /\ j.step \in OwnAthena => j.who \in Accounts
      /\ j.step \in {"vipSave", "levelSave"} => j.who \in Accounts
      /\ j.step \in {"receiver", "wrap", "deliver"} => j.to \in Accounts
      /\ j.step = "wrap" => j.to \in Accounts
  BY DEF JobShape, OwnCommon, OwnAthena
<1>9. JobBounds(j, ledger')
  <2>1. j.season.level \in Nat
    BY DEF Job, Season
  <2>. QED  BY <1>4, <1>5, <1>8, <2>1 DEF JobBounds
<1>10. JobFresh(j, common', athena', season', contested)
  <2>1. j.step \in {"vipSave", "levelSave"} => j.who # a
    BY <1>8 DEF Holds, Records
  <2>. QED  BY <1>3, <1>8, <2>1 DEF JobFresh
<1>11. LedgerBounds'
  <2>1. \A b \in Accounts :
          /\ season'[b].level <= ledger'[b].levels
          /\ season'[b].vip => ledger'[b].vip
    BY <1>2, <1>3 DEF IInv, LedgerBounds
  <2>. QED  BY <1>5, <2>1 DEF IInv, LedgerBounds
<1>12. ExactUnlessContested'
  <2>1. <<"season", a>> \notin contested => new.level = l.levels /\ new.vip = l.vip
    BY DEF IInv, ExactUnlessContested
  <2>2. \A b \in Accounts : <<"season", b>> \notin contested =>
          season'[b].level = ledger'[b].levels /\ season'[b].vip = ledger'[b].vip
    BY <1>2, <1>3, <2>1 DEF IInv, ExactUnlessContested
  <2>3. athena' = athena /\ common' = common /\ contested' = contested
    OBVIOUS
  <2>4. \A b \in Accounts : <<"athena", b>> \notin contested =>
          athena'[b].items = ledger'[b].bought
    BY <1>5, <2>3 DEF IInv, ExactUnlessContested
  <2>5. ASSUME NEW b \in Accounts, <<"common_core", b>> \notin contested
        PROVE  /\ common'[b].mtx + ledger'[b].spent = Opening + ledger'[b].earned
               /\ common'[b].boxes = ledger'[b].boxes
    <3>1. /\ common[b].mtx + ledger[b].spent = Opening + ledger[b].earned
          /\ common[b].boxes = ledger[b].boxes
      BY <2>5 DEF IInv, ExactUnlessContested
    <3>2. /\ ledger'[b].spent = ledger[b].spent /\ ledger'[b].earned = ledger[b].earned
          /\ ledger'[b].boxes = ledger[b].boxes /\ common' = common
      BY <1>5, <2>3
    <3>. QED  BY <3>1, <3>2
  <2>. QED  BY <2>2, <2>3, <2>4, <2>5 DEF ExactUnlessContested
<1>13. /\ athena' \in [Accounts -> Athena] /\ common' \in [Accounts -> Common]
       /\ contested' = contested
  BY <1>1 DEF TypeOK
<1>14. \A rec \in Records : Holds(j, rec) => Holds(job[r], rec)
  OBVIOUS
<1>. QED  BY WriteKeeps, <1>2, <1>3, <1>6, <1>7, <1>9, <1>10, <1>11, <1>12, <1>13, <1>14

LEMMA SaveVipKeeps ==
  ASSUME IInv, NEW r \in Requests, SaveVip(r)
  PROVE  IInv'
PROOF
<1>. DEFINE i == job[r]
            w == i.who
            s == IF i.offer.levels > 0 THEN "level" ELSE "pay"
            j == [i EXCEPT !.step = s, !.season = NoSeason]
            new == [i.season EXCEPT !.vip = TRUE]
            l == [ledger[w] EXCEPT !.vip = TRUE]
<1>1. /\ i \in Job /\ JobShape(i) /\ JobBounds(i, ledger)
      /\ JobFresh(i, common, athena, season, contested)
  BY DEF IInv, TypeOK, JobsShaped, JobsBounded, JobsFresh
<1>2. /\ i.step = "vipSave"
      /\ season' = [season EXCEPT ![w] = new]
      /\ ledger' = [ledger EXCEPT ![w].vip = TRUE]
      /\ UNCHANGED <<common, athena, contested>>
  BY DEF SaveVip
<1>3. w \in Accounts /\ i.season \in Season /\ i.command = "Purchase"
  BY <1>1, <1>2 DEF JobShape, Job
<1>4. /\ i.season.level <= ledger[w].levels
      /\ <<"season", w>> \notin contested => i.season = season[w]
      /\ Holds(i, <<"season", w>>)
  BY <1>1, <1>2 DEF JobBounds, JobFresh, Holds
<1>5. ledger[w] \in Ledger /\ ledger[w].levels \in Nat
  BY <1>3 DEF IInv, TypeOK, Ledger
<1>6. new \in Season /\ new.level = i.season.level /\ new.vip = TRUE
  BY <1>3 DEF Season
<1>7. ledger' = [ledger EXCEPT ![w] = l]
  BY <1>2, <1>3 DEF IInv, TypeOK
<1>8. l \in Ledger
  BY <1>5 DEF Ledger
<1>9. /\ l.spent = ledger[w].spent /\ l.earned = ledger[w].earned
      /\ l.bought = ledger[w].bought /\ l.levels = ledger[w].levels
      /\ l.vip = TRUE /\ l.boxes = ledger[w].boxes
  BY <1>5 DEF Ledger
<1>10. /\ i.season.level = ledger[w].levels => new.level = l.levels
       /\ i.season.vip = ledger[w].vip => new.vip = l.vip
       /\ new.level <= l.levels /\ l.levels >= ledger[w].levels
       /\ new.vip => l.vip
       /\ ledger[w].vip => l.vip
  BY <1>4, <1>5, <1>6, <1>9
<1>. HIDE DEF l, new
<1>11. SavesSeason(r, w, i.season, new, l)
  BY <1>2, <1>3, <1>4, <1>5, <1>6, <1>7, <1>8, <1>9, <1>10 DEF SavesSeason
<1>12. s \in {"level", "pay"}
  OBVIOUS
<1>13. job' = [job EXCEPT ![r] = j]
  BY DEF SaveVip, IInv, TypeOK
<1>. HIDE DEF s
<1>14. j \in Job
  BY <1>1, <1>12 DEF Job, Steps, NoSeason, Season
<1>15. /\ j.step = s /\ j.command = i.command /\ j.who = w
       /\ j.price = i.price /\ j.cc = i.cc /\ j.at = i.at /\ j.offer = i.offer
       /\ j.goods = i.goods
  BY <1>1 DEF Job
<1>. HIDE DEF j
<1>16. JobShape(j)
  BY <1>1, <1>2, <1>3, <1>12, <1>15 DEF JobShape, Decided, OwnCommon, OwnAthena
<1>17. JobBounds(j, ledger)
  BY <1>1, <1>2, <1>12, <1>15 DEF JobBounds, OwnCommon, OwnAthena
<1>18. JobFresh(j, common, athena, season, contested)
  BY <1>1, <1>2, <1>12, <1>15 DEF JobFresh, OwnCommon, OwnAthena
<1>19. \A rec \in Records : Holds(j, rec) => Holds(i, rec) /\ rec # <<"season", w>>
  BY <1>2, <1>12, <1>15 DEF Holds, OwnCommon, OwnAthena
<1>. QED  BY SeasonKeeps, <1>3, <1>11, <1>13, <1>14, <1>16, <1>17, <1>18, <1>19

LEMMA SaveLevelsKeeps ==
  ASSUME IInv, NEW r \in Requests, SaveLevels(r)
  PROVE  IInv'
PROOF
<1>. DEFINE i == job[r]
            w == i.who
            n == i.offer.levels
            j == [i EXCEPT !.step = "pay", !.season = NoSeason]
            new == [i.season EXCEPT !.level = @ + n]
            l == [ledger[w] EXCEPT !.levels = @ + n]
<1>1. /\ i \in Job /\ JobShape(i) /\ JobBounds(i, ledger)
      /\ JobFresh(i, common, athena, season, contested)
  BY DEF IInv, TypeOK, JobsShaped, JobsBounded, JobsFresh
<1>2. /\ i.step = "levelSave"
      /\ season' = [season EXCEPT ![w] = new]
      /\ ledger' = [ledger EXCEPT ![w].levels = @ + n]
      /\ UNCHANGED <<common, athena, contested>>
  BY DEF SaveLevels
<1>3. w \in Accounts /\ i.season \in Season /\ i.offer \in Offers /\ i.command = "Purchase"
  BY <1>1, <1>2 DEF JobShape, Job
<1>4. /\ i.season.level <= ledger[w].levels
      /\ i.season.vip => ledger[w].vip
      /\ <<"season", w>> \notin contested => i.season = season[w]
      /\ Holds(i, <<"season", w>>)
  BY <1>1, <1>2 DEF JobBounds, JobFresh, Holds
<1>5. /\ ledger[w] \in Ledger /\ ledger[w].levels \in Nat /\ i.season.level \in Nat
      /\ n \in Nat
  BY <1>3, OffersAssumption DEF IInv, TypeOK, Ledger, Season, Offer
<1>6. ledger' = [ledger EXCEPT ![w] = l]
  BY <1>2, <1>3 DEF IInv, TypeOK
<1>7. job' = [job EXCEPT ![r] = j]
  BY DEF SaveLevels, IInv, TypeOK
<1>. HIDE DEF n
<1>8. new \in Season /\ new.level = i.season.level + n /\ new.vip = i.season.vip
  BY <1>3, <1>5 DEF Season
<1>9. l \in Ledger
  BY <1>5 DEF Ledger
<1>10. /\ l.spent = ledger[w].spent /\ l.earned = ledger[w].earned
       /\ l.bought = ledger[w].bought /\ l.levels = ledger[w].levels + n
       /\ l.vip = ledger[w].vip /\ l.boxes = ledger[w].boxes
  BY <1>5 DEF Ledger
<1>11. /\ i.season.level = ledger[w].levels => new.level = l.levels
       /\ i.season.vip = ledger[w].vip => new.vip = l.vip
       /\ new.vip => l.vip
       /\ ledger[w].vip => l.vip
  BY <1>4, <1>8, <1>10
<1>12. new.level <= l.levels /\ l.levels >= ledger[w].levels
  BY <1>4, <1>5, <1>8, <1>10
<1>. HIDE DEF l, new
<1>13. SavesSeason(r, w, i.season, new, l)
  BY <1>2, <1>3, <1>4, <1>6, <1>8, <1>9, <1>10, <1>11, <1>12 DEF SavesSeason
<1>14. j \in Job
  BY <1>1 DEF Job, Steps, NoSeason, Season
<1>15. /\ j.step = "pay" /\ j.command = i.command /\ j.who = w
       /\ j.price = i.price /\ j.cc = i.cc /\ j.at = i.at /\ j.offer = i.offer
       /\ j.goods = i.goods
  BY <1>1 DEF Job
<1>. HIDE DEF j
<1>16. JobShape(j)
  BY <1>1, <1>2, <1>3, <1>15 DEF JobShape, Decided, OwnCommon, OwnAthena
<1>17. JobBounds(j, ledger)
  BY <1>1, <1>2, <1>15 DEF JobBounds, OwnCommon, OwnAthena
<1>18. JobFresh(j, common, athena, season, contested)
  BY <1>1, <1>2, <1>15 DEF JobFresh, OwnCommon, OwnAthena
<1>19. \A rec \in Records : Holds(j, rec) => Holds(i, rec) /\ rec # <<"season", w>>
  BY <1>2, <1>15 DEF Holds, OwnCommon, OwnAthena
<1>. QED  BY SeasonKeeps, <1>3, <1>7, <1>13, <1>14, <1>16, <1>17, <1>18, <1>19

-----------------------------------------------------------------------------
(* A request that has not begun, or has ended, holds and knows nothing.    *)

LEMMA OutsideHoldsNothing ==
  ASSUME NEW j, j.step \in {"new", "done"}
  PROVE  /\ JobShape(j)
         /\ \A l : JobBounds(j, l)
         /\ \A c, a, s, k : JobFresh(j, c, a, s, k)
         /\ \A rec : ~ Holds(j, rec)
PROOF
<1>1. j.step \notin OwnCommon /\ j.step \notin OwnAthena /\ j.step \notin Decided
  BY DEF OwnCommon, OwnAthena, Decided
<1>. QED  BY <1>1 DEF JobShape, JobBounds, JobFresh, Holds

LEMMA CrashKeeps ==
  ASSUME IInv, Crash
  PROVE  IInv'
PROOF
<1>1. UNCHANGED <<common, athena, season, ledger, contested>>
  BY DEF Crash
<1>2. job' \in [Requests -> Job]
  <2>1. Idle("done") \in Job
    BY IdleType DEF Steps
  <2>. QED  BY <2>1 DEF Crash, IInv, TypeOK
<1>3. ASSUME NEW r \in Requests PROVE job'[r].step \in {"new", "done"}
  BY <1>3 DEF Crash, Idle
<1>4. TypeOK'
  BY <1>1, <1>2 DEF IInv, TypeOK
<1>5. LedgerBounds' /\ ExactUnlessContested'
  BY <1>1 DEF IInv, LedgerBounds, ExactUnlessContested
<1>6. SoleHolder'
  BY <1>3, OutsideHoldsNothing DEF SoleHolder
<1>7. JobsShaped'
  BY <1>3, OutsideHoldsNothing DEF JobsShaped
<1>8. JobsBounded'
  BY <1>3, OutsideHoldsNothing DEF JobsBounded
<1>9. JobsFresh'
  BY <1>3, OutsideHoldsNothing DEF JobsFresh
<1>. QED  BY <1>4, <1>5, <1>6, <1>7, <1>8, <1>9 DEF IInv

-----------------------------------------------------------------------------
(* The theorems.                                                           *)

LEMMA Initially == Init => IInv
PROOF
<1>. SUFFICES ASSUME Init PROVE IInv
  OBVIOUS
<1>1. ASSUME NEW r \in Requests PROVE job[r].step = "new"
  BY <1>1 DEF Init, Idle
<1>2. TypeOK
  <2>1. job \in [Requests -> Job]
    BY IdleType DEF Init, Steps
  <2>2. /\ common \in [Accounts -> Common] /\ athena \in [Accounts -> Athena]
        /\ season \in [Accounts -> Season] /\ ledger \in [Accounts -> Ledger]
    BY AmountsAssumption DEF Init, Common, Athena, Season, Ledger, NoAthena, NoSeason
  <2>3. contested \in SUBSET Records
    BY DEF Init
  <2>. QED  BY <2>1, <2>2, <2>3 DEF TypeOK
<1>3. \A a \in Accounts :
        /\ common[a].mtx = Opening /\ common[a].boxes = {} /\ ledger[a].boxes = {}
        /\ ledger[a].spent = 0 /\ ledger[a].earned = 0 /\ ledger[a].levels = 0
        /\ athena[a].items = {} /\ ledger[a].bought = {} /\ season[a].level = 0
  BY DEF Init, NoAthena, NoSeason
<1>4. \A a \in Accounts : season[a].vip = FALSE /\ ledger[a].vip = FALSE
  BY DEF Init, NoSeason
<1>5. LedgerBounds
  BY <1>3, <1>4, AmountsAssumption DEF LedgerBounds
<1>6. ExactUnlessContested
  BY <1>3, <1>4, AmountsAssumption DEF ExactUnlessContested
<1>7. SoleHolder
  BY <1>1, OutsideHoldsNothing DEF SoleHolder
<1>8. JobsShaped /\ JobsBounded
  BY <1>1, OutsideHoldsNothing DEF JobsShaped, JobsBounded
<1>9. JobsFresh
  BY <1>1, OutsideHoldsNothing DEF JobsFresh
<1>. QED  BY <1>2, <1>5, <1>6, <1>7, <1>8, <1>9 DEF IInv

LEMMA Inductive == IInv /\ [Next]_vars => IInv'
PROOF
<1>. SUFFICES ASSUME IInv, [Next]_vars PROVE IInv'
  OBVIOUS
<1>1. CASE Crash
  BY <1>1, CrashKeeps
<1>2. ASSUME NEW r \in Requests, RequestStep(r) PROVE IInv'
  <2>1. CASE \E a \in Accounts : FindProfile(r, a) \/ FindUnseen(r, a)
    BY <2>1, FindProfileKeeps, FindUnseenKeeps
  <2>2. CASE FindAthena(r)
    BY <2>2, FindAthenaKeeps
  <2>3. CASE FindToUnbox(r)
    BY <2>3, FindToUnboxKeeps
  <2>4. CASE FindSeason(r)
    BY <2>4, FindSeasonKeeps
  <2>5. CASE SaveVip(r)
    BY <2>5, SaveVipKeeps
  <2>6. CASE SaveLevels(r)
    BY <2>6, SaveLevelsKeeps
  <2>7. CASE \E v \in Accounts \union Strangers : FindReceiver(r, v)
    BY <2>7, FindReceiverKeeps
  <2>8. CASE FindReceiverCommon(r)
    BY <2>8, FindReceiverCommonKeeps
  <2>9. CASE SaveReceiverCommon(r)
    BY <2>9, SaveReceiverCommonKeeps
  <2>10. CASE SaveReceiverAthena(r)
    BY <2>10, SaveReceiverAthenaKeeps
  <2>11. CASE SaveProfile(r)
    BY <2>11, SaveProfileKeeps
  <2>12. CASE SaveAthena(r)
    BY <2>12, SaveAthenaKeeps
  <2>13. CASE SaveReward(r)
    BY <2>13, SaveRewardKeeps
  <2>14. CASE SaveSeen(r)
    BY <2>14, SaveSeenKeeps
  <2>. QED  BY <1>2, <2>1, <2>2, <2>3, <2>4, <2>5, <2>6, <2>7, <2>8, <2>9, <2>10,
               <2>11, <2>12, <2>13, <2>14 DEF RequestStep
<1>3. CASE UNCHANGED vars
  <2>1. /\ common' = common /\ athena' = athena /\ season' = season
        /\ job' = job /\ ledger' = ledger /\ contested' = contested
    BY <1>3 DEF vars
  <2>2. TypeOK' /\ LedgerBounds' /\ ExactUnlessContested'
    BY <2>1 DEF IInv, TypeOK, LedgerBounds, ExactUnlessContested
  <2>3. SoleHolder' /\ JobsShaped'
    BY <2>1 DEF IInv, SoleHolder, JobsShaped
  <2>4. JobsBounded' /\ JobsFresh'
    BY <2>1 DEF IInv, JobsBounded, JobsFresh
  <2>. QED  BY <2>2, <2>3, <2>4 DEF IInv
<1>. QED  BY <1>1, <1>2, <1>3 DEF Next

(* The inductive invariant holds: whatever the commands interleave, a      *)
(* request knows what it read, and a record it holds is not written by     *)
(* another unless the two overlapped.                                      *)
THEOREM Invariance == Spec => []IInv
PROOF
<1>. QED  BY Initially, Inductive, PTL DEF Spec

(* The records and what the requests know of them have their types; the    *)
(* V-Bucks of an account are never negative.                               *)
THEOREM TypeCorrect == Spec => []TypeOK
PROOF
<1>1. IInv => TypeOK
  BY DEF IInv
<1>. QED  BY <1>1, Invariance, PTL

(* Lost updates and crashes never charge an account more than what it      *)
(* bought, credit it more than its rewards, or give it what nobody bought. *)
THEOREM WithinLedger == Spec => []LedgerBounds
PROOF
<1>1. IInv => LedgerBounds
  BY DEF IInv
<1>. QED  BY <1>1, Invariance, PTL

(* The records that no two requests held at once lost nothing, though the  *)
(* process may have ended anywhere.                                        *)
THEOREM Exact == Spec => []ExactUnlessContested
PROOF
<1>1. IInv => ExactUnlessContested
  BY DEF IInv
<1>. QED  BY <1>1, Invariance, PTL

(* What the decision of purchase saw holds until it writes: the V-Bucks    *)
(* are there and the goods are not, unless the records were contested.     *)
THEOREM SaleHolds == Spec => []SaleStillGood
PROOF
<1>1. ASSUME IInv PROVE SaleStillGood
  <2>. SUFFICES ASSUME NEW r \in Requests, job[r].command = "Purchase",
                       job[r].step \in {"pay", "grant"}
                PROVE
                  /\ job[r].step = "pay" /\ <<"common_core", job[r].who>> \notin contested
                       => job[r].price <= common[job[r].who].mtx
                  /\ job[r].offer.kind # "pass" /\ <<"athena", job[r].who>> \notin contested
                       => job[r].goods \intersect athena[job[r].who].items = {}
    BY DEF SaleStillGood
  <2>1. JobShape(job[r]) /\ JobFresh(job[r], common, athena, season, contested)
    BY <1>1 DEF IInv, JobsShaped, JobsFresh
  <2>. QED  BY <2>1 DEF JobShape, JobFresh, Decided, OwnCommon, OwnAthena
<1>. QED  BY <1>1, Invariance, PTL

=============================================================================
