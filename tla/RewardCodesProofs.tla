-------------------------- MODULE RewardCodesProofs --------------------------
(***************************************************************************)
(* Theorems about redeeming codes, for any accounts, codes and rewards and *)
(* any number of requests at once.                                         *)
(***************************************************************************)
EXTENDS RewardCodes, Integers, FiniteSetTheorems, TLAPS

(* What is owned stays owned while no record of it is deleted.             *)
LEMMA OwnedStays ==
  ASSUME TypeOK, TypeOK', NEW a \in Accounts, NEW r \in Rewards, Owns(a, r),
         \A k \in AllCodes : records'[<<a, k, r>>] >= records[<<a, k, r>>]
  PROVE  Owns(a, r)'
PROOF
<1>1. PICK k \in AllCodes : records[<<a, k, r>>] > 0
  BY DEF Owns, Holds
<1>2. <<a, k, r>> \in Kinds
  BY DEF Kinds
<1>3. records[<<a, k, r>>] \in Int /\ records'[<<a, k, r>>] \in Int
  BY <1>2, RewardCodesAssumption DEF TypeOK
<1>4. records'[<<a, k, r>>] > 0
  BY <1>1, <1>2, <1>3
<1>. QED  BY <1>4 DEF Owns, Holds

(* The requests that were not told anything yet.                           *)
LEMMA Known ==
  ASSUME NEW step, NEW a, NEW k, NEW worth, NEW todo,
         step \in Steps, a \in Accounts \union {None}, k \in Codes \union {SellAuth, None},
         worth \subseteq Rewards, todo \subseteq Rewards
  PROVE  Knowing(step, a, k, worth, todo) \in Request
PROOF
<1>1. Nothing \in [AllCodes -> Nat]
  BY RewardCodesAssumption DEF Nothing
<1>. QED  BY <1>1 DEF Knowing, Request

LEMMA IdleRequest == Idle \in Request /\ Idle.step = "idle"
PROOF
<1>1. Idle \in Request
  BY Known DEF Idle, Steps
<1>. QED  BY <1>1 DEF Idle, Knowing

(* A request that changes to one that is accounted for keeps the invariant *)
(* while records only grow.                                                *)
LEMMA StepKeeps ==
  ASSUME IInv, NEW c \in Slots, NEW q \in Request, request' = [request EXCEPT ![c] = q],
         codes' \in [Codes -> SUBSET Rewards], expired' \subseteq Codes,
         records' \in [Kinds -> Nat],
         \A kind \in Kinds : records'[kind] >= records[kind],
         redeemers' \in [Codes -> SUBSET Accounts],
         contested' \subseteq Codes \union Accounts,
         Accounted(q)'
  PROVE  IInv'
PROOF
<1>t. TypeOK
  BY DEF IInv
<1>1. TypeOK'
  BY <1>t DEF TypeOK
<1>2. \A d \in Slots : request'[d] = IF d = c THEN q ELSE request[d]
  BY <1>t DEF TypeOK
<1>3. ASSUME NEW d \in Slots PROVE Accounted(request[d])'
  <2>1. CASE d = c
    <3>1. request'[d] = q
      BY <1>2, <2>1
    <3>. QED  BY <3>1 DEF Accounted
  <2>2. CASE d # c
    <3>1. PICK p : p = request[d]
      OBVIOUS
    <3>2. p \in Request /\ request'[d] = p /\ Accounted(p)
      BY <1>t, <1>2, <2>2, <3>1 DEF IInv, TypeOK
    <3>3. ASSUME p.step \in {"grant", "remove"}, NEW r \in p.worth, Owns(p.who, r)
          PROVE  Owns(p.who, r)'
      <4>1. p.who \in Accounts /\ r \in Rewards
        BY <3>2, <3>3 DEF Accounted, Request
      <4>2. \A k \in AllCodes : records'[<<p.who, k, r>>] >= records[<<p.who, k, r>>]
        BY <4>1 DEF Kinds
      <4>. QED  BY <1>t, <1>1, <3>3, <4>1, <4>2, OwnedStays
    <3>4. Accounted(p)'
      BY <3>2, <3>3 DEF Accounted
    <3>. QED  BY <3>2, <3>4 DEF Accounted
  <2>. QED  BY <2>1, <2>2
<1>. QED  BY <1>1, <1>3 DEF IInv

(* So does a request that ends, whether or not it wrote to Remix_Codes.    *)
LEMMA FinishKeeps ==
  ASSUME IInv, NEW c \in Slots, Finish(c), records' = records,
         codes' \in [Codes -> SUBSET Rewards], expired' \subseteq Codes,
         redeemers' \in [Codes -> SUBSET Accounts],
         contested' \subseteq Codes \union Accounts
  PROVE  IInv'
PROOF
<1>t. TypeOK
  BY DEF IInv
<1>1. PICK q : q = Idle
  OBVIOUS
<1>2. q \in Request /\ q.step = "idle"
  BY <1>1, IdleRequest
<1>3. Accounted(q)'
  BY <1>2 DEF Accounted
<1>4. request' = [request EXCEPT ![c] = q]
  BY <1>1 DEF Finish
<1>5. records' \in [Kinds -> Nat] /\ \A kind \in Kinds : records'[kind] >= records[kind]
  BY <1>t, RewardCodesAssumption DEF TypeOK
<1>. QED  BY <1>2, <1>3, <1>4, <1>5, StepKeeps

(* A running request, and who it serves.                                   *)
LEMMA Running ==
  ASSUME IInv, NEW c \in Slots
  PROVE  /\ TypeOK /\ request[c] \in Request /\ Accounted(request[c])
         /\ \A kind \in Kinds : records[kind] >= records[kind]
PROOF BY RewardCodesAssumption DEF IInv, TypeOK

-----------------------------------------------------------------------------
(* The actions. *)

LEMMA CreateCodeKeeps ==
  ASSUME IInv, NEW c \in Slots, NEW k \in Codes, NEW worth \in SUBSET Rewards,
         CreateCode(c, k, worth)
  PROVE  IInv'
PROOF
<1>1. PICK q : q = Knowing("create", None, k, worth, {})
  OBVIOUS
<1>2. q \in Request
  BY <1>1, Known DEF Steps
<1>3. Accounted(q)'
  BY <1>1 DEF Knowing, Accounted
<1>4. /\ request' = [request EXCEPT ![c] = q]
      /\ UNCHANGED <<codes, expired, records, redeemers>>
  BY <1>1 DEF CreateCode
<1>5. TypeOK /\ \A kind \in Kinds : records[kind] >= records[kind]
  BY Running
<1>6. contested' \subseteq Codes \union Accounts
  BY <1>5 DEF CreateCode, TypeOK
<1>. QED  BY <1>2, <1>3, <1>4, <1>5, <1>6, StepKeeps DEF TypeOK

LEMMA RedeemKeeps ==
  ASSUME IInv, NEW c \in Slots, NEW a \in Accounts, NEW k \in Codes, Redeem(c, a, k)
  PROVE  IInv'
PROOF
<1>5. TypeOK /\ \A kind \in Kinds : records[kind] >= records[kind]
  BY Running
<1>1. PICK q : q = Knowing("existing", a, k, codes[k], {})
  OBVIOUS
<1>2. q \in Request
  BY <1>1, <1>5, Known DEF Steps, TypeOK
<1>3. Accounted(q)'
  BY <1>1 DEF Knowing, Accounted
<1>4. /\ request' = [request EXCEPT ![c] = q]
      /\ UNCHANGED <<codes, expired, records, redeemers>>
  BY <1>1 DEF Redeem
<1>6. contested' \subseteq Codes \union Accounts
  BY <1>5 DEF Redeem, TypeOK
<1>. QED  BY <1>2, <1>3, <1>4, <1>5, <1>6, StepKeeps DEF TypeOK

LEMMA GrantFullLockerKeeps ==
  ASSUME IInv, NEW c \in Slots, NEW a \in Accounts, GrantFullLocker(c, a)
  PROVE  IInv'
PROOF
<1>5. TypeOK /\ \A kind \in Kinds : records[kind] >= records[kind]
  BY Running
<1>1. PICK q : q = Knowing("grant", a, SellAuth, {FullLocker}, {FullLocker})
  OBVIOUS
<1>2. q \in Request
  BY <1>1, RewardCodesAssumption, Known DEF Steps
<1>3. Accounted(q)'
  BY <1>1 DEF Knowing, Accounted
<1>4. /\ request' = [request EXCEPT ![c] = q]
      /\ UNCHANGED <<codes, expired, records, redeemers>>
  BY <1>1 DEF GrantFullLocker
<1>6. contested' \subseteq Codes \union Accounts
  BY <1>5 DEF GrantFullLocker, TypeOK
<1>. QED  BY <1>2, <1>3, <1>4, <1>5, <1>6, StepKeeps DEF TypeOK

LEMMA ExistingKeeps ==
  ASSUME IInv, NEW c \in Slots, Existing(c)
  PROVE  IInv'
PROOF
<1>1. /\ request[c].step = "existing" /\ UNCHANGED <<codes, expired, records, redeemers>>
      /\ Goto(c, "owned") \/ Finish(c)
  BY DEF Existing
<1>2. /\ TypeOK /\ request[c] \in Request /\ Accounted(request[c])
      /\ \A kind \in Kinds : records[kind] >= records[kind]
  BY Running
<1>3. contested' \subseteq Codes \union Accounts
  <2>1. request[c].who \in Accounts
    BY <1>1, <1>2 DEF Accounted
  <2>2. contested' = contested \/ contested' = contested \union {request[c].who}
    BY DEF Existing
  <2>. QED  BY <1>2, <2>1, <2>2 DEF TypeOK
<1>4. CASE Finish(c)
  BY <1>1, <1>2, <1>3, <1>4, FinishKeeps DEF TypeOK
<1>5. CASE Goto(c, "owned")
  <2>1. PICK q : q = [request[c] EXCEPT !.step = "owned"]
    OBVIOUS
  <2>2. q \in Request /\ q.step = "owned" /\ q.who = request[c].who /\ q.code = request[c].code
    BY <1>2, <2>1 DEF Request, Steps
  <2>3. Accounted(q)'
    BY <1>1, <1>2, <2>2 DEF Accounted
  <2>4. request' = [request EXCEPT ![c] = q]
    BY <1>5, <2>1 DEF Goto
  <2>. QED  BY <1>1, <1>2, <1>3, <2>2, <2>3, <2>4, StepKeeps DEF TypeOK
<1>. QED  BY <1>1, <1>4, <1>5

(* What is skipped is owned, and what is not is still to be saved.         *)
LEMMA OwnedKeeps ==
  ASSUME IInv, NEW c \in Slots, Owned(c)
  PROVE  IInv'
PROOF
<1>1. request[c].step = "owned" /\ UNCHANGED <<codes, expired, records, redeemers>>
  BY DEF Owned
<1>2. /\ TypeOK /\ request[c] \in Request /\ Accounted(request[c])
      /\ \A kind \in Kinds : records[kind] >= records[kind]
  BY Running
<1>a. request[c].who \in Accounts /\ request[c].code \in Codes
  BY <1>1, <1>2 DEF Accounted
<1>3. contested' \subseteq Codes \union Accounts
  <2>1. contested' = contested \/ contested' = contested \union {request[c].who}
    BY DEF Owned
  <2>. QED  BY <1>2, <1>a, <2>1 DEF TypeOK
<1>4. PICK todo \in SUBSET request[c].worth :
        /\ request' = [request EXCEPT ![c].step = IF todo = {} THEN "remove" ELSE "grant",
                                      ![c].todo = todo]
        /\ request[c].worth \ accountRewards(request[c].who) \subseteq todo
  BY DEF Owned
<1>5. PICK q : q = [request[c] EXCEPT !.step = IF todo = {} THEN "remove" ELSE "grant",
                                      !.todo = todo]
  OBVIOUS
<1>6. /\ q \in Request /\ q.step = (IF todo = {} THEN "remove" ELSE "grant")
      /\ q.who = request[c].who /\ q.code = request[c].code
      /\ q.worth = request[c].worth /\ q.todo = todo /\ q.worth \subseteq Rewards
  BY <1>2, <1>5 DEF Request, Steps
<1>7. \A r \in q.worth : Owns(q.who, r) \/ r \in todo
  BY <1>4, <1>6, Zenon DEF accountRewards, Owns
<1>8. Accounted(q)
  BY <1>6, <1>7, <1>a DEF Accounted
<1>9. Accounted(q)'
  BY <1>1, <1>8 DEF Accounted, Owns, Holds
<1>10. request' = [request EXCEPT ![c] = q]
  BY <1>4, <1>5
<1>. QED  BY <1>1, <1>2, <1>3, <1>6, <1>9, <1>10, StepKeeps DEF TypeOK

LEMMA TakesType ==
  ASSUME IInv, NEW c \in Slots, request[c].step \in {"grant", "remove"}, Takes(c)
  PROVE  redeemers' \in [Codes -> SUBSET Accounts]
PROOF
<1>1. TypeOK /\ request[c].who \in Accounts /\ request[c].code \in Codes \union {SellAuth}
  BY DEF IInv, Accounted
<1>2. CASE request[c].code = SellAuth
  BY <1>1, <1>2 DEF Takes, TypeOK
<1>3. CASE request[c].code # SellAuth
  <2>1. redeemers' = [redeemers EXCEPT ![request[c].code] = @ \union {request[c].who}]
    BY <1>3 DEF Takes
  <2>. QED  BY <1>1, <1>3, <2>1 DEF TypeOK
<1>. QED  BY <1>2, <1>3

LEMMA SaveRewardKeeps ==
  ASSUME IInv, NEW c \in Slots, SaveReward(c)
  PROVE  IInv'
PROOF
<1>1. request[c].step = "grant" /\ UNCHANGED <<codes, expired, contested>> /\ Takes(c)
  BY DEF SaveReward
<1>2. /\ TypeOK /\ request[c] \in Request /\ Accounted(request[c])
  BY Running
<1>a. request[c].who \in Accounts /\ request[c].code \in Codes \union {SellAuth}
  BY <1>1, <1>2 DEF Accounted
<1>3. PICK reward \in request[c].todo :
        /\ records' = [records EXCEPT ![<<request[c].who, request[c].code, reward>>] = @ + 1]
        /\ IF request[c].todo # {reward}
             THEN request' = [request EXCEPT ![c].todo = @ \ {reward}]
             ELSE IF request[c].code = SellAuth THEN Finish(c)
             ELSE request' = [request EXCEPT ![c].todo = {}, ![c].step = "remove"]
  BY DEF SaveReward
<1>4. reward \in Rewards
  BY <1>2, <1>3 DEF Request
<1>. DEFINE kind == <<request[c].who, request[c].code, reward>>
<1>5. kind \in Kinds
  BY <1>a, <1>4 DEF Kinds, AllCodes
<1>6. /\ records' \in [Kinds -> Nat]
      /\ \A other \in Kinds : records'[other] >= records[other]
      /\ records'[kind] > 0
  <2>1. \A other \in Kinds : records[other] \in Nat
    BY <1>2 DEF TypeOK
  <2>2. \A other \in Kinds : records'[other] = IF other = kind THEN records[kind] + 1 ELSE records[other]
    BY <1>2, <1>3 DEF TypeOK
  <2>3. \A other \in Kinds : records'[other] \in Nat /\ records'[other] >= records[other]
    BY <1>3, <1>5, <2>1, <2>2, RewardCodesAssumption
  <2>4. records'[kind] > 0
    BY <1>5, <2>1, <2>2, RewardCodesAssumption
  <2>5. records' \in [Kinds -> Nat]
    BY <1>2, <1>3, <2>3 DEF TypeOK
  <2>. QED  BY <2>3, <2>4, <2>5
<1>. HIDE DEF kind
<1>7. redeemers' \in [Codes -> SUBSET Accounts]
  BY <1>1, TakesType
<1>8. /\ codes' \in [Codes -> SUBSET Rewards] /\ expired' \subseteq Codes
      /\ contested' \subseteq Codes \union Accounts
  BY <1>1, <1>2 DEF TypeOK
<1>9. PICK q : q = IF request[c].todo # {reward} THEN [request[c] EXCEPT !.todo = @ \ {reward}]
                   ELSE IF request[c].code = SellAuth THEN Idle
                   ELSE [request[c] EXCEPT !.todo = {}, !.step = "remove"]
  OBVIOUS
<1>10. request' = [request EXCEPT ![c] = q]
  BY <1>3, <1>9 DEF Finish
<1>11. Idle \in Request /\ Idle.step = "idle"
  BY IdleRequest
<1>12. q \in Request /\
       \/ q.step = "idle"
       \/ /\ q.step \in {"grant", "remove"} /\ (q.step = "remove" => q.code # SellAuth)
          /\ q.who = request[c].who /\ q.code = request[c].code /\ q.worth = request[c].worth
          /\ q.withdrawn = request[c].withdrawn
          /\ q.todo = request[c].todo \ {reward}
          /\ q.step = "remove" => q.todo = {}
  <2>1. CASE request[c].todo # {reward}
    BY <1>1, <1>2, <1>9, <2>1 DEF Request
  <2>2. CASE request[c].todo = {reward} /\ request[c].code = SellAuth
    BY <1>9, <1>11, <2>2
  <2>3. CASE request[c].todo = {reward} /\ request[c].code # SellAuth
    BY <1>1, <1>2, <1>9, <2>3 DEF Request, Steps
  <2>. QED  BY <2>1, <2>2, <2>3
<1>13. PICK a \in Accounts, k \in Codes \union {SellAuth} :
         a = request[c].who /\ k = request[c].code
  BY <1>a
<1>14. TypeOK'
  <2>1. request' \in [Slots -> Request]
    BY <1>2, <1>10, <1>12 DEF TypeOK
  <2>. QED  BY <1>6, <1>7, <1>8, <2>1 DEF TypeOK
<1>15. ASSUME NEW r \in q.worth, q.step \in {"grant", "remove"}
       PROVE  Owns(a, r)' \/ (q.step = "grant" /\ r \in q.todo) \/ (r = FullLocker /\ q.withdrawn)
  <2>1. /\ r \in Rewards
        /\ Owns(a, r) \/ r \in request[c].todo \/ (r = FullLocker /\ q.withdrawn)
    BY <1>1, <1>2, <1>12, <1>13, <1>15 DEF Accounted, Request
  <2>2. CASE Owns(a, r)
    <3>1. \A j \in AllCodes : records'[<<a, j, r>>] >= records[<<a, j, r>>]
      BY <1>6, <2>1 DEF Kinds
    <3>. QED  BY <1>2, <1>14, <2>1, <2>2, <3>1, OwnedStays
  <2>3. CASE r = reward
    <3>1. records'[<<a, k, r>>] > 0
      BY <1>6, <1>13, <2>3 DEF kind
    <3>. QED  BY <3>1 DEF Owns, Holds, AllCodes
  <2>4. CASE r \in request[c].todo /\ r # reward
    BY <1>12, <1>15, <2>4
  <2>. QED  BY <2>1, <2>2, <2>3, <2>4
<1>16. Accounted(q)'
  BY <1>a, <1>12, <1>13, <1>15 DEF Accounted
<1>. QED  BY <1>6, <1>7, <1>8, <1>10, <1>12, <1>16, StepKeeps

LEMMA RemoveCodeKeeps ==
  ASSUME IInv, NEW c \in Slots, RemoveCode(c)
  PROVE  IInv'
PROOF
<1>1. /\ request[c].step = "remove" /\ Finish(c) /\ Takes(c)
      /\ UNCHANGED <<records, contested>>
      /\ codes' = [codes EXCEPT ![request[c].code] = {}]
      /\ expired' = expired \ {request[c].code}
  BY DEF RemoveCode
<1>2. TypeOK
  BY DEF IInv
<1>3. redeemers' \in [Codes -> SUBSET Accounts]
  BY <1>1, TakesType
<1>4. /\ codes' \in [Codes -> SUBSET Rewards] /\ expired' \subseteq Codes
      /\ contested' \subseteq Codes \union Accounts
  BY <1>1, <1>2 DEF TypeOK
<1>. QED  BY <1>1, <1>3, <1>4, FinishKeeps

LEMMA SaveCodeKeeps ==
  ASSUME IInv, NEW c \in Slots, SaveCode(c)
  PROVE  IInv'
PROOF
<1>1. /\ request[c].step = "create" /\ Finish(c) /\ UNCHANGED records
      /\ codes' = [codes EXCEPT ![request[c].code] = request[c].worth]
      /\ expired' = expired \ {request[c].code}
      /\ redeemers' = [redeemers EXCEPT ![request[c].code] = {}]
      /\ \/ contested' = contested \ {request[c].code}
         \/ contested' = contested \union {request[c].code}
  BY DEF SaveCode
<1>2. TypeOK /\ request[c] \in Request /\ request[c].code \in Codes
  BY <1>1 DEF IInv, Accounted, TypeOK
<1>3. request[c].worth \in SUBSET Rewards
  BY <1>2 DEF Request
<1>4. /\ codes' \in [Codes -> SUBSET Rewards] /\ expired' \subseteq Codes
      /\ redeemers' \in [Codes -> SUBSET Accounts]
      /\ contested' \subseteq Codes \union Accounts
  BY <1>1, <1>2, <1>3 DEF TypeOK
<1>. QED  BY <1>1, <1>4, FinishKeeps

LEMMA FailKeeps ==
  ASSUME IInv, NEW c \in Slots, Fail(c)
  PROVE  IInv'
PROOF
<1>1. /\ request[c].step \in {"create", "grant", "remove"} /\ Finish(c)
      /\ UNCHANGED <<codes, expired, records, redeemers>>
      /\ \/ contested' = contested
         \/ request[c].code # SellAuth /\ contested' = contested \union {request[c].code}
  BY DEF Fail
<1>2. TypeOK /\ request[c].code \in Codes \union {SellAuth}
  BY <1>1 DEF IInv, Accounted
<1>3. contested' \subseteq Codes \union Accounts
  BY <1>1, <1>2 DEF TypeOK
<1>. QED  BY <1>1, <1>2, <1>3, FinishKeeps DEF TypeOK

(* An administrator's grant only adds a record.                            *)
LEMMA AdminGrantKeeps ==
  ASSUME IInv, NEW a \in Accounts, POSTGrantFullLocker(a)
  PROVE  IInv'
PROOF
<1>t. TypeOK /\ \A c \in Slots : Accounted(request[c])
  BY DEF IInv
<1>1. PICK kind : kind = <<a, Admin, FullLocker>>
  OBVIOUS
<1>2. kind \in Kinds
  BY <1>1, RewardCodesAssumption DEF Kinds, AllCodes
<1>3. /\ records' = [records EXCEPT ![kind] = @ + 1]
      /\ UNCHANGED <<codes, expired, request, redeemers, contested>>
  BY <1>1 DEF POSTGrantFullLocker
<1>4. \A other \in Kinds : records[other] \in Nat
  BY <1>t DEF TypeOK
<1>5. \A other \in Kinds :
        records'[other] = IF other = kind THEN records[kind] + 1 ELSE records[other]
  BY <1>t, <1>3 DEF TypeOK
<1>6. \A other \in Kinds : records'[other] \in Nat /\ records'[other] >= records[other]
  BY <1>2, <1>4, <1>5
<1>7. TypeOK'
  <2>1. records' \in [Kinds -> Nat]
    BY <1>t, <1>3, <1>6 DEF TypeOK
  <2>. QED  BY <1>t, <1>3, <2>1 DEF TypeOK
<1>8. ASSUME NEW c \in Slots PROVE Accounted(request[c])'
  <2>1. PICK q : q = request[c]
    OBVIOUS
  <2>2. q \in Request /\ request'[c] = q /\ Accounted(q)
    BY <1>t, <1>3, <2>1 DEF TypeOK
  <2>3. ASSUME q.step \in {"grant", "remove"}, NEW r \in q.worth, Owns(q.who, r)
        PROVE  Owns(q.who, r)'
    <3>1. q.who \in Accounts /\ r \in Rewards
      BY <2>2, <2>3 DEF Accounted, Request
    <3>2. \A k \in AllCodes : records'[<<q.who, k, r>>] >= records[<<q.who, k, r>>]
      BY <1>6, <3>1 DEF Kinds
    <3>. QED  BY <1>t, <1>7, <2>3, <3>1, <3>2, OwnedStays
  <2>4. Accounted(q)'
    BY <2>2, <2>3 DEF Accounted
  <2>. QED  BY <2>2, <2>4 DEF Accounted
<1>. QED  BY <1>7, <1>8 DEF IInv

LEMMA WithdrawKeeps ==
  ASSUME IInv, NEW c \in Slots, NEW a \in Accounts, DELETEFullLocker(c, a)
  PROVE  IInv'
PROOF
<1>1. TypeOK /\ \A kind \in Kinds : records[kind] >= records[kind]
  BY Running
<1>2. PICK found : found = [k \in AllCodes |-> records[<<a, k, FullLocker>>]]
  OBVIOUS
<1>3. found \in [AllCodes -> Nat]
  <2>1. \A k \in AllCodes : <<a, k, FullLocker>> \in Kinds
    BY RewardCodesAssumption DEF Kinds
  <2>2. \A k \in AllCodes : records[<<a, k, FullLocker>>] \in Nat
    BY <1>1, <2>1 DEF TypeOK
  <2>. QED  BY <1>2, <2>2
<1>4. PICK asked : asked = Knowing("withdraw", a, None, {}, {})
  OBVIOUS
<1>5. asked \in Request /\ asked.step = "withdraw" /\ asked.who = a
  BY <1>4, Known DEF Steps, Knowing
<1>6. PICK q : q = [asked EXCEPT !.found = found]
  OBVIOUS
<1>7. q \in Request /\ q.step = "withdraw" /\ q.who = a
  BY <1>3, <1>5, <1>6 DEF Request
<1>8. Accounted(q)'
  BY <1>7 DEF Accounted
<1>9. /\ request' = [request EXCEPT ![c] = q]
      /\ UNCHANGED <<codes, expired, records, redeemers, contested>>
  BY <1>2, <1>4, <1>6 DEF DELETEFullLocker
<1>. QED  BY <1>1, <1>7, <1>8, <1>9, StepKeeps DEF TypeOK

(* A deletion: what it does to the requests and to the records.            *)
Deletes(c, a, q, j) ==
  /\ a \in Accounts /\ request[c].step = "withdraw" /\ j \in AllCodes
  /\ q \in Request /\ q.step \in {"idle", "withdraw"} /\ (q.step = "withdraw" => q.who = a)
  /\ UNCHANGED <<codes, expired, redeemers, contested>>
  /\ \/ request' = [request EXCEPT ![c] = q] /\ records' = records
     \/ /\ records[<<a, j, FullLocker>>] > 0
        /\ records' = [records EXCEPT ![<<a, j, FullLocker>>] = @ - 1]
        /\ request' = [d \in Slots |-> IF d = c THEN q ELSE Withdrawn(request[d], a)]

LEMMA DeleteSteps ==
  ASSUME IInv, NEW c \in Slots, DeleteReward(c)
  PROVE  \E a, q, j : Deletes(c, a, q, j)
PROOF
<1>1. PICK p : p = request[c]
  OBVIOUS
<1>2. /\ p.step = "withdraw" /\ p \in Request /\ p.who \in Accounts
      /\ UNCHANGED <<codes, expired, redeemers, contested>>
  BY <1>1 DEF DeleteReward, IInv, TypeOK, Accounted
<1>3. PICK j \in AllCodes :
        /\ p.found[j] > 0
        /\ LET rest == [p.found EXCEPT ![j] = @ - 1]
               after == IF rest = Nothing THEN Idle ELSE [p EXCEPT !.found = rest]
           IN
           \/ request' = [request EXCEPT ![c] = after] /\ UNCHANGED records
           \/ /\ records[<<p.who, j, FullLocker>>] > 0
              /\ records' = [records EXCEPT ![<<p.who, j, FullLocker>>] = @ - 1]
              /\ request' = [d \in Slots |-> IF d = c THEN after ELSE Withdrawn(request[d], p.who)]
  BY <1>1, Zenon DEF DeleteReward, Holds
<1>r. PICK rest : rest = [p.found EXCEPT ![j] = @ - 1]
  OBVIOUS
<1>4. rest \in [AllCodes -> Nat]
  <2>1. p.found \in [AllCodes -> Nat]
    BY <1>2 DEF Request
  <2>2. p.found[j] - 1 \in Nat
    BY <1>3, <2>1
  <2>. QED  BY <1>r, <2>1, <2>2
<1>5. PICK q : q = IF rest = Nothing THEN Idle ELSE [p EXCEPT !.found = rest]
  OBVIOUS
<1>6. q \in Request /\ q.step \in {"idle", "withdraw"} /\ (q.step = "withdraw" => q.who = p.who)
  <2>1. CASE rest = Nothing
    BY <1>5, <2>1, IdleRequest
  <2>2. CASE rest # Nothing
    BY <1>2, <1>4, <1>5, <2>2 DEF Request
  <2>. QED  BY <2>1, <2>2
<1>7. \/ request' = [request EXCEPT ![c] = q] /\ records' = records
      \/ /\ records[<<p.who, j, FullLocker>>] > 0
         /\ records' = [records EXCEPT ![<<p.who, j, FullLocker>>] = @ - 1]
         /\ request' = [d \in Slots |-> IF d = c THEN q ELSE Withdrawn(request[d], p.who)]
  BY <1>3, <1>5, <1>r
<1>8. Deletes(c, p.who, q, j)
  BY <1>1, <1>2, <1>6, <1>7 DEF Deletes
<1>. QED  BY <1>8

(* What a deletion takes is the Full Locker, and the requests past their   *)
(* look are marked with it.                                                *)
LEMMA DeleteRewardKeeps ==
  ASSUME IInv, NEW c \in Slots, DeleteReward(c)
  PROVE  IInv'
PROOF
<1>1. PICK a, q, j : Deletes(c, a, q, j)
  BY DeleteSteps
<1>2. TypeOK /\ \A kind \in Kinds : records[kind] >= records[kind]
  BY Running
<1>3. /\ a \in Accounts /\ j \in AllCodes /\ q \in Request /\ q.step \in {"idle", "withdraw"}
      /\ q.step = "withdraw" => q.who = a
      /\ UNCHANGED <<codes, expired, redeemers, contested>>
  BY <1>1 DEF Deletes
<1>4. Accounted(q)'
  BY <1>3 DEF Accounted
<1>5. CASE request' = [request EXCEPT ![c] = q] /\ records' = records
  BY <1>2, <1>3, <1>4, <1>5, StepKeeps DEF TypeOK
<1>6. CASE /\ records[<<a, j, FullLocker>>] > 0
           /\ records' = [records EXCEPT ![<<a, j, FullLocker>>] = @ - 1]
           /\ request' = [d \in Slots |-> IF d = c THEN q ELSE Withdrawn(request[d], a)]
  <2>1. PICK kind \in Kinds : kind = <<a, j, FullLocker>>
    BY <1>3, RewardCodesAssumption DEF Kinds
  <2>2. \A other \in Kinds :
          records'[other] = IF other = kind THEN records[kind] - 1 ELSE records[other]
    BY <1>2, <1>6, <2>1 DEF TypeOK
  <2>3. \A other \in Kinds : records[other] \in Nat
    BY <1>2 DEF TypeOK
  <2>4. records' \in [Kinds -> Nat]
    <3>1. \A other \in Kinds : records'[other] \in Nat
      BY <1>6, <2>1, <2>2, <2>3
    <3>. QED  BY <1>2, <1>6, <3>1 DEF TypeOK
  <2>5. ASSUME NEW d \in Slots PROVE Withdrawn(request[d], a) \in Request
    BY <1>2 DEF Withdrawn, TypeOK, Request
  <2>6. TypeOK'
    <3>1. request' \in [Slots -> Request]
      BY <1>3, <1>6, <2>5
    <3>. QED  BY <1>2, <1>3, <2>4, <3>1 DEF TypeOK
  <2>7. ASSUME NEW b \in Accounts, NEW r \in Rewards, b # a \/ r # FullLocker, Owns(b, r)
        PROVE  Owns(b, r)'
    <3>1. \A k \in AllCodes : <<b, k, r>> \in Kinds /\ <<b, k, r>> # kind
      BY <2>1, <2>7 DEF Kinds
    <3>2. \A k \in AllCodes : records'[<<b, k, r>>] = records[<<b, k, r>>]
      BY <2>2, <3>1
    <3>. QED  BY <2>7, <3>2 DEF Owns, Holds
  <2>8. ASSUME NEW d \in Slots PROVE Accounted(request[d])'
    <3>1. CASE d = c
      <4>1. request'[d] = q
        BY <1>6, <3>1
      <4>. QED  BY <1>4, <4>1 DEF Accounted
    <3>2. CASE d # c
      <4>1. PICK p \in Request : p = request[d]
        BY <1>2 DEF TypeOK
      <4>2. PICK n : n = Withdrawn(p, a)
        OBVIOUS
      <4>3. request'[d] = n /\ Accounted(p)
        BY <1>6, <3>2, <4>1, <4>2 DEF IInv
      <4>4. /\ n.step = p.step /\ n.who = p.who /\ n.code = p.code /\ n.worth = p.worth
            /\ n.todo = p.todo /\ (p.withdrawn => n.withdrawn)
            /\ p.step \in {"grant", "remove"} /\ p.who = a => n.withdrawn
        BY <4>1, <4>2 DEF Withdrawn, Request
      <4>5. ASSUME n.step \in {"grant", "remove"}, NEW r \in n.worth
            PROVE  \/ Owns(n.who, r)'
                   \/ n.step = "grant" /\ r \in n.todo
                   \/ r = FullLocker /\ n.withdrawn
        <5>1. n.who \in Accounts /\ r \in Rewards
          BY <4>3, <4>4, <4>5 DEF Accounted, Request
        <5>2. \/ Owns(n.who, r)
              \/ n.step = "grant" /\ r \in n.todo
              \/ r = FullLocker /\ n.withdrawn
          BY <4>3, <4>4, <4>5 DEF Accounted
        <5>3. CASE Owns(n.who, r) /\ (n.who # a \/ r # FullLocker)
          BY <2>7, <5>1, <5>3
        <5>4. CASE n.who = a /\ r = FullLocker
          BY <4>4, <4>5, <5>4
        <5>. QED  BY <5>2, <5>3, <5>4
      <4>6. Accounted(n)'
        BY <4>3, <4>4, <4>5 DEF Accounted
      <4>. QED  BY <4>3, <4>6 DEF Accounted
    <3>. QED  BY <3>1, <3>2
  <2>. QED  BY <2>6, <2>8 DEF IInv
<1>. QED  BY <1>1, <1>5, <1>6 DEF Deletes

(* Steps that leave the requests accounted for: Expire, Crash, stuttering. *)
LEMMA OthersKeep ==
  ASSUME IInv, Crash \/ (\E k \in Codes : Expire(k)) \/ UNCHANGED vars
  PROVE  IInv'
PROOF
<1>t. TypeOK /\ \A c \in Slots : Accounted(request[c])
  BY DEF IInv
<1>1. Idle \in Request /\ Idle.step = "idle"
  BY IdleRequest
<1>2. CASE Crash
  <2>1. /\ request' = [c \in Slots |-> Idle]
        /\ UNCHANGED <<codes, expired, records, redeemers>>
        /\ contested' \subseteq contested \union Codes
    BY <1>2 DEF Crash
  <2>2. TypeOK'
    BY <1>t, <1>1, <2>1 DEF TypeOK
  <2>3. \A c \in Slots : request'[c].step = "idle"
    BY <1>1, <2>1
  <2>4. \A c \in Slots : Accounted(request[c])'
    BY <2>3 DEF Accounted
  <2>. QED  BY <2>2, <2>4 DEF IInv
<1>3. CASE ~ Crash
  <2>1. UNCHANGED <<codes, records, request, redeemers, contested>> /\ expired' \subseteq Codes
    BY <1>3, <1>t DEF Expire, vars, TypeOK
  <2>2. TypeOK'
    BY <1>t, <2>1 DEF TypeOK
  <2>3. \A c \in Slots : Accounted(request[c])'
    BY <1>t, <2>1 DEF Accounted, Owns, Holds
  <2>. QED  BY <2>2, <2>3 DEF IInv
<1>. QED  BY <1>2, <1>3

LEMMA InitIInv ==
  ASSUME Init
  PROVE  IInv
PROOF
<1>1. Idle \in Request /\ Idle.step = "idle"
  BY IdleRequest
<1>2. TypeOK
  BY <1>1, RewardCodesAssumption DEF Init, TypeOK
<1>3. \A c \in Slots : request[c].step = "idle"
  BY <1>1 DEF Init
<1>. QED  BY <1>2, <1>3 DEF IInv, Accounted

-----------------------------------------------------------------------------
(* The theorems. *)

(* At every step of every redemption, what the account owns, what is still *)
(* to be saved, and the Full Locker that an administrator has taken since  *)
(* the look, make up what the code was worth.                              *)
THEOREM Invariance == Spec => []IInv
PROOF
<1>1. Init => IInv
  BY InitIInv
<1>2. IInv /\ [Next]_vars => IInv'
  <2>. SUFFICES ASSUME IInv, [Next]_vars PROVE IInv'
    OBVIOUS
  <2>1. ASSUME NEW c \in Slots, NEW k \in Codes, NEW worth \in SUBSET Rewards,
               CreateCode(c, k, worth)
        PROVE  IInv'
    BY <2>1, CreateCodeKeeps
  <2>2. ASSUME NEW c \in Slots, NEW a \in Accounts, NEW k \in Codes, Redeem(c, a, k)
        PROVE  IInv'
    BY <2>2, RedeemKeeps
  <2>3. ASSUME NEW c \in Slots, NEW a \in Accounts, GrantFullLocker(c, a) PROVE IInv'
    BY <2>3, GrantFullLockerKeeps
  <2>4. ASSUME NEW c \in Slots, SaveCode(c) PROVE IInv'
    BY <2>4, SaveCodeKeeps
  <2>5. ASSUME NEW c \in Slots, Existing(c) PROVE IInv'
    BY <2>5, ExistingKeeps
  <2>6. ASSUME NEW c \in Slots, Owned(c) PROVE IInv'
    BY <2>6, OwnedKeeps
  <2>7. ASSUME NEW c \in Slots, SaveReward(c) PROVE IInv'
    BY <2>7, SaveRewardKeeps
  <2>8. ASSUME NEW c \in Slots, RemoveCode(c) PROVE IInv'
    BY <2>8, RemoveCodeKeeps
  <2>9. ASSUME NEW c \in Slots, Fail(c) PROVE IInv'
    BY <2>9, FailKeeps
  <2>10. ASSUME NEW a \in Accounts, POSTGrantFullLocker(a) PROVE IInv'
    BY <2>10, AdminGrantKeeps
  <2>11. ASSUME NEW c \in Slots, NEW a \in Accounts, DELETEFullLocker(c, a) PROVE IInv'
    BY <2>11, WithdrawKeeps
  <2>12. ASSUME NEW c \in Slots, DeleteReward(c) PROVE IInv'
    BY <2>12, DeleteRewardKeeps
  <2>. QED
    BY <2>1, <2>2, <2>3, <2>4, <2>5, <2>6, <2>7, <2>8, <2>9, <2>10, <2>11, <2>12,
       OthersKeep DEF Next
<1>. QED  BY <1>1, <1>2, PTL DEF Spec

(* The records, the codes and the requests keep their types.               *)
THEOREM TypeCorrect == Spec => []TypeOK
PROOF
<1>1. IInv => TypeOK
  BY DEF IInv
<1>. QED  BY <1>1, Invariance, PTL

(* A redemption deletes its code only once the account owns everything the *)
(* code was worth when it was found, whatever runs beside it: all but the  *)
(* Full Locker, if an administrator deleted a record of it meanwhile.      *)
THEOREM Redeemed == Spec => []RedeemedIsOwned
PROOF
<1>1. IInv => RedeemedIsOwned
  BY DEF IInv, RedeemedIsOwned, Accounted
<1>. QED  BY <1>1, Invariance, PTL
-----------------------------------------------------------------------------
(* One account for each code: OneRedeemer. *)

Serves(q, k) == q.code = k /\ q.step \in {"existing", "owned", "grant", "remove"}

(* A step of a request that does not serve a code leaves it as it is.      *)
LEMMA OtherCode ==
  ASSUME TypeOK, NEW c \in Slots, NEW q, \A d \in Slots : request'[d] = IF d = c THEN q ELSE request[d],
         NEW k, CodeServed(k), ~ Serves(request[c], k), ~ Serves(q, k),
         codes'[k] = codes[k], redeemers'[k] = redeemers[k]
  PROVE  CodeServed(k)'
PROOF
<1>1. Serving(k)' = Serving(k) /\ \A d \in Serving(k) : request'[d] = request[d]
  BY DEF Serving, Serves
<1>2. {d \in Serving(k)' : request'[d].step \in {"grant", "remove"}}
        = {d \in Serving(k) : request[d].step \in {"grant", "remove"}}
  BY <1>1
<1>3. {request'[d].who : d \in {e \in Serving(k)' : request'[e].step \in {"grant", "remove"}}}
        = {request[d].who : d \in {e \in Serving(k) : request[e].step \in {"grant", "remove"}}}
  BY <1>1, <1>2
<1>. QED  BY <1>1, <1>3 DEF CodeServed

(* The request that serves an uncontested code goes on with it.            *)
LEMMA OwnCode ==
  ASSUME TypeOK, NEW c \in Slots, NEW q, \A d \in Slots : request'[d] = IF d = c THEN q ELSE request[d],
         NEW k, CodeServed(k), Serves(request[c], k), Serves(q, k), q.who = request[c].who,
         request[c].who \in Accounts,
         request[c].step \in {"grant", "remove"} => q.step \in {"grant", "remove"},
         codes'[k] = codes[k],
         \/ redeemers'[k] = redeemers[k]
         \/ redeemers'[k] = redeemers[k] \union {q.who} /\ q.step \in {"grant", "remove"}
  PROVE  CodeServed(k)'
PROOF
<1>1. c \in Serving(k)
  BY DEF Serving, Serves
<1>2. Serving(k) = {c} /\ codes[k] # {}
  BY <1>1 DEF CodeServed
<1>3. Serving(k)' = {c}
  BY <1>2 DEF Serving, Serves
<1>4. \A d \in Serving(k) : request[d].step \in {"grant", "remove"} => request[d].who = q.who /\ q.step \in {"grant", "remove"}
  BY <1>2
<1>5. redeemers[k] \subseteq {a \in {q.who} : request[c].step \in {"grant", "remove"}}
  BY <1>2, <1>4 DEF CodeServed
<1>6. redeemers'[k] \subseteq {a \in {q.who} : q.step \in {"grant", "remove"}}
  BY <1>5
<1>7. redeemers'[k] \subseteq
        {request'[d].who : d \in {e \in Serving(k)' : request'[e].step \in {"grant", "remove"}}}
  <2>1. CASE q.step \in {"grant", "remove"}
    <3>1. request'[c] = q /\ c \in {e \in Serving(k)' : request'[e].step \in {"grant", "remove"}}
      BY <1>3, <2>1
    <3>2. request'[c].who \in {request'[d].who : d \in {e \in Serving(k)' : request'[e].step \in {"grant", "remove"}}}
      BY <3>1
    <3>3. redeemers'[k] \subseteq {request'[c].who}
      BY <1>6, <3>1
    <3>. QED  BY <3>2, <3>3
  <2>2. CASE q.step \notin {"grant", "remove"}
    BY <1>6, <2>2
  <2>. QED  BY <2>1, <2>2
<1>8. \E a \in Accounts \union {None} : redeemers'[k] \subseteq {a}
  BY <1>6
<1>. QED  BY <1>2, <1>3, <1>7, <1>8 DEF CodeServed

(* Or ends, with the code deleted, or before anybody took from it.         *)
LEMMA OwnCodeEnds ==
  ASSUME TypeOK, NEW c \in Slots, NEW q, \A d \in Slots : request'[d] = IF d = c THEN q ELSE request[d],
         NEW k, CodeServed(k), Serves(request[c], k), ~ Serves(q, k), request[c].who \in Accounts,
         \/ codes'[k] = {} /\ redeemers'[k] = redeemers[k] \union {request[c].who}
         \/ request[c].step \in {"existing", "owned"} /\ redeemers'[k] = redeemers[k]
  PROVE  CodeServed(k)'
PROOF
<1>1. c \in Serving(k)
  BY DEF Serving, Serves
<1>2. Serving(k) = {c} /\ codes[k] # {}
  BY <1>1 DEF CodeServed
<1>3. Serving(k)' = {}
  BY <1>2 DEF Serving, Serves
<1>4. redeemers[k] \subseteq {request[c].who}
  BY <1>2 DEF CodeServed
<1>5. request[c].step \in {"existing", "owned"} => redeemers[k] = {}
  BY <1>2 DEF CodeServed
<1>6. \E a \in Accounts \union {None} : redeemers'[k] \subseteq {a}
  BY <1>4, <1>5
<1>. QED  BY <1>3, <1>5, <1>6 DEF CodeServed

(* A request that starts to serve a code that nobody serves.               *)
LEMMA NewCode ==
  ASSUME TypeOK, NEW c \in Slots, NEW q, \A d \in Slots : request'[d] = IF d = c THEN q ELSE request[d],
         NEW k, CodeServed(k), Serving(k) = {}, Serves(q, k), codes[k] # {},
         codes'[k] = codes[k], redeemers'[k] = redeemers[k]
  PROVE  CodeServed(k)'
PROOF
<1>1. redeemers'[k] = {}
  BY DEF CodeServed
<1>2. Serving(k)' = {c}
  BY DEF Serving, Serves
<1>. QED  BY <1>1, <1>2 DEF CodeServed

(* What one step does to the requests.                                     *)
LEMMA Stepped ==
  ASSUME TypeOK, NEW c \in Slots, NEW q, request' = [request EXCEPT ![c] = q]
  PROVE  \A d \in Slots : request'[d] = IF d = c THEN q ELSE request[d]
PROOF BY DEF TypeOK

LEMMA Ended ==
  ASSUME TypeOK, NEW c \in Slots, Finish(c)
  PROVE  \E q : /\ q = Idle /\ q.step = "idle" /\ \A k : ~ Serves(q, k)
                /\ \A d \in Slots : request'[d] = IF d = c THEN q ELSE request[d]
PROOF
<1>1. Idle.step = "idle"
  BY DEF Idle, Knowing
<1>2. \A d \in Slots : request'[d] = IF d = c THEN Idle ELSE request[d]
  BY DEF Finish, TypeOK
<1>. QED  BY <1>1, <1>2 DEF Serves

LEMMA CreateCodeServed ==
  ASSUME IInv, CodesInv, NEW c \in Slots, NEW j \in Codes, NEW worth, CreateCode(c, j, worth)
  PROVE  CodesInv'
PROOF
<1>t. TypeOK
  BY DEF IInv
<1>1. PICK q : q = Knowing("create", None, j, worth, {})
  OBVIOUS
<1>2. request[c].step = "idle" /\ request' = [request EXCEPT ![c] = q] /\ q.step = "create"
      /\ codes' = codes /\ redeemers' = redeemers /\ contested \subseteq contested'
  BY <1>1 DEF CreateCode, Knowing
<1>3. \A d \in Slots : request'[d] = IF d = c THEN q ELSE request[d]
  BY <1>t, <1>2, Stepped
<1>4. ASSUME NEW k \in Codes \ contested PROVE CodeServed(k)'
  <2>1. CodeServed(k) /\ ~ Serves(request[c], k) /\ ~ Serves(q, k)
    BY <1>2 DEF CodesInv, Serves
  <2>. QED  BY <1>t, <1>2, <1>3, <2>1, OtherCode
<1>. QED  BY <1>2, <1>4 DEF CodesInv

LEMMA SaveCodeServed ==
  ASSUME IInv, CodesInv, NEW c \in Slots, SaveCode(c)
  PROVE  CodesInv'
PROOF
<1>t. TypeOK
  BY DEF IInv
<1>1. PICK j : j = request[c].code
  OBVIOUS
<1>2. /\ request[c].step = "create" /\ Finish(c)
      /\ codes' = [codes EXCEPT ![j] = request[c].worth]
      /\ redeemers' = [redeemers EXCEPT ![j] = {}]
      /\ contested' = IF Serving(j) = {} /\ codes[j] = {} THEN contested \ {j} ELSE contested \union {j}
  BY <1>1 DEF SaveCode
<1>3. j \in Codes
  BY <1>1, <1>2 DEF IInv, Accounted
<1>4. PICK q : /\ q = Idle /\ q.step = "idle" /\ \A k : ~ Serves(q, k)
               /\ \A d \in Slots : request'[d] = IF d = c THEN q ELSE request[d]
  BY <1>t, <1>2, Ended
<1>5. ASSUME NEW k \in Codes \ contested' PROVE CodeServed(k)'
  <2>1. CASE k = j
    <3>1. Serving(k) = {} /\ redeemers'[k] = {}
      BY <1>t, <1>2, <1>5, <2>1 DEF TypeOK
    <3>2. Serving(k)' = {}
      BY <1>4, <3>1 DEF Serving, Serves
    <3>. QED  BY <3>1, <3>2 DEF CodeServed
  <2>2. CASE k # j
    <3>1. k \notin contested /\ codes'[k] = codes[k] /\ redeemers'[k] = redeemers[k]
      BY <1>t, <1>2, <1>5, <2>2 DEF TypeOK
    <3>2. CodeServed(k) /\ ~ Serves(request[c], k)
      BY <1>2, <3>1 DEF CodesInv, Serves
    <3>. QED  BY <1>t, <1>4, <3>1, <3>2, OtherCode
  <2>. QED  BY <2>1, <2>2
<1>. QED  BY <1>5 DEF CodesInv

LEMMA RedeemServed ==
  ASSUME IInv, CodesInv, NEW c \in Slots, NEW a \in Accounts, NEW j \in Codes, Redeem(c, a, j)
  PROVE  CodesInv'
PROOF
<1>t. TypeOK
  BY DEF IInv
<1>1. PICK q : q = Knowing("existing", a, j, codes[j], {})
  OBVIOUS
<1>2. request[c].step = "idle" /\ request' = [request EXCEPT ![c] = q]
      /\ codes' = codes /\ redeemers' = redeemers /\ codes[j] # {}
      /\ contested' = IF Serving(j) = {} THEN contested ELSE contested \union {j}
  BY <1>1 DEF Redeem
<1>3. \A d \in Slots : request'[d] = IF d = c THEN q ELSE request[d]
  BY <1>t, <1>2, Stepped
<1>4. \A k : Serves(q, k) <=> k = j
  BY <1>1 DEF Serves, Knowing
<1>5. ASSUME NEW k \in Codes \ contested' PROVE CodeServed(k)'
  <2>1. CodeServed(k) /\ ~ Serves(request[c], k)
    BY <1>2, <1>5 DEF CodesInv, Serves
  <2>2. CASE k = j
    <3>1. Serving(k) = {}
      BY <1>2, <1>5, <2>2
    <3>2. Serves(q, k) /\ codes[k] # {}
      BY <1>2, <1>4, <2>2
    <3>. QED  BY <1>t, <1>2, <1>3, <2>1, <3>1, <3>2, NewCode
  <2>3. CASE k # j
    <3>1. ~ Serves(q, k)
      BY <1>4, <2>3
    <3>. QED  BY <1>t, <1>2, <1>3, <2>1, <3>1, OtherCode
  <2>. QED  BY <2>2, <2>3
<1>. QED  BY <1>5 DEF CodesInv

LEMMA GrantFullLockerServed ==
  ASSUME IInv, CodesInv, NEW c \in Slots, NEW a \in Accounts, GrantFullLocker(c, a)
  PROVE  CodesInv'
PROOF
<1>t. TypeOK
  BY DEF IInv
<1>1. PICK q : q = Knowing("grant", a, SellAuth, {FullLocker}, {FullLocker})
  OBVIOUS
<1>2. request[c].step = "idle" /\ request' = [request EXCEPT ![c] = q] /\ q.code = SellAuth
      /\ codes' = codes /\ redeemers' = redeemers /\ contested \subseteq contested'
  BY <1>1 DEF GrantFullLocker, Knowing
<1>3. \A d \in Slots : request'[d] = IF d = c THEN q ELSE request[d]
  BY <1>t, <1>2, Stepped
<1>4. ASSUME NEW k \in Codes \ contested PROVE CodeServed(k)'
  <2>1. CodeServed(k) /\ ~ Serves(request[c], k) /\ ~ Serves(q, k)
    BY <1>2, RewardCodesAssumption DEF CodesInv, Serves
  <2>. QED  BY <1>t, <1>2, <1>3, <2>1, OtherCode
<1>. QED  BY <1>2, <1>4 DEF CodesInv

(* A step within a redemption: on to the next step, or its end.            *)
LEMMA WithinServed ==
  ASSUME IInv, CodesInv, NEW c \in Slots, NEW q, request[c].step \in {"existing", "owned", "grant", "remove"},
         \A d \in Slots : request'[d] = IF d = c THEN q ELSE request[d],
         NEW j, j = request[c].code, \A k : Serves(q, k) => k = j,
         \A k \in Codes : k \notin contested' => k \notin contested,
         \A k \in Codes : k # j => codes'[k] = codes[k] /\ redeemers'[k] = redeemers[k],
         j \in Codes \ contested' /\ Serves(q, j) =>
           /\ q.who = request[c].who /\ codes'[j] = codes[j]
           /\ request[c].step \in {"grant", "remove"} => q.step \in {"grant", "remove"}
           /\ \/ redeemers'[j] = redeemers[j]
              \/ redeemers'[j] = redeemers[j] \union {q.who} /\ q.step \in {"grant", "remove"},
         j \in Codes \ contested' /\ ~ Serves(q, j) =>
           \/ codes'[j] = {} /\ redeemers'[j] = redeemers[j] \union {request[c].who}
           \/ request[c].step \in {"existing", "owned"} /\ redeemers'[j] = redeemers[j]
  PROVE  CodesInv'
PROOF
<1>t. TypeOK /\ request[c].who \in Accounts
  BY DEF IInv, Accounted
<1>1. ASSUME NEW k \in Codes \ contested' PROVE CodeServed(k)'
  <2>1. CodeServed(k)
    BY <1>1 DEF CodesInv
  <2>2. CASE k # j
    <3>1. ~ Serves(request[c], k) /\ ~ Serves(q, k)
      BY <2>2 DEF Serves
    <3>2. codes'[k] = codes[k] /\ redeemers'[k] = redeemers[k]
      BY <2>2
    <3>. QED  BY <1>t, <2>1, <3>1, <3>2, OtherCode
  <2>3. CASE k = j /\ Serves(q, k)
    <3>1. Serves(request[c], k)
      BY <2>3 DEF Serves
    <3>2. /\ q.who = request[c].who /\ codes'[k] = codes[k]
          /\ request[c].step \in {"grant", "remove"} => q.step \in {"grant", "remove"}
          /\ \/ redeemers'[k] = redeemers[k]
             \/ redeemers'[k] = redeemers[k] \union {q.who} /\ q.step \in {"grant", "remove"}
      BY <1>1, <2>3
    <3>. QED  BY <1>t, <2>1, <2>3, <3>1, <3>2, OwnCode
  <2>4. CASE k = j /\ ~ Serves(q, k)
    <3>1. Serves(request[c], k)
      BY <2>4 DEF Serves
    <3>2. \/ codes'[k] = {} /\ redeemers'[k] = redeemers[k] \union {request[c].who}
          \/ request[c].step \in {"existing", "owned"} /\ redeemers'[k] = redeemers[k]
      BY <1>1, <2>4
    <3>. QED  BY <1>t, <2>1, <2>4, <3>1, <3>2, OwnCodeEnds
  <2>. QED  BY <2>2, <2>3, <2>4
<1>. QED  BY <1>1 DEF CodesInv

(* A look: the request goes on, or ends with nothing taken.               *)
LEMMA OnwardServed ==
  ASSUME IInv, CodesInv, NEW c \in Slots, NEW q, request[c].step \in {"existing", "owned"},
         \A d \in Slots : request'[d] = IF d = c THEN q ELSE request[d],
         codes' = codes, redeemers' = redeemers, contested \subseteq contested',
         \/ q.step \in {"owned", "grant", "remove"} /\ q.code = request[c].code /\ q.who = request[c].who
         \/ \A k : ~ Serves(q, k)
  PROVE  CodesInv'
PROOF
<1>1. PICK j : j = request[c].code
  OBVIOUS
<1>2. request[c].step \in {"existing", "owned", "grant", "remove"}
  OBVIOUS
<1>3. \A k : Serves(q, k) => k = j
  BY <1>1 DEF Serves
<1>4. \A k \in Codes : k \notin contested' => k \notin contested
  OBVIOUS
<1>5. \A k \in Codes : k # j => codes'[k] = codes[k] /\ redeemers'[k] = redeemers[k]
  OBVIOUS
<1>6. Serves(q, j) => q.who = request[c].who
  OBVIOUS
<1>. QED  BY <1>1, <1>2, <1>3, <1>4, <1>5, <1>6, WithinServed

LEMMA ExistingServed ==
  ASSUME IInv, CodesInv, NEW c \in Slots, Existing(c)
  PROVE  CodesInv'
PROOF
<1>t. TypeOK /\ request[c] \in Request
  BY DEF IInv, TypeOK
<1>1. /\ request[c].step = "existing" /\ codes' = codes /\ redeemers' = redeemers
      /\ contested \subseteq contested' /\ (Goto(c, "owned") \/ Finish(c))
  BY DEF Existing
<1>2. CASE Goto(c, "owned")
  <2>1. PICK q : q = [request[c] EXCEPT !.step = "owned"]
    OBVIOUS
  <2>2. q.step = "owned" /\ q.code = request[c].code /\ q.who = request[c].who
    BY <1>t, <2>1 DEF Request
  <2>3. request' = [request EXCEPT ![c] = q]
    BY <1>2, <1>t, <2>1 DEF Goto, TypeOK
  <2>4. \A d \in Slots : request'[d] = IF d = c THEN q ELSE request[d]
    BY <1>t, <2>3, Stepped
  <2>. QED  BY <1>1, <2>2, <2>4, OnwardServed
<1>3. CASE Finish(c)
  <2>1. PICK q : /\ q = Idle /\ q.step = "idle" /\ \A k : ~ Serves(q, k)
                 /\ \A d \in Slots : request'[d] = IF d = c THEN q ELSE request[d]
    BY <1>t, <1>3, Ended
  <2>. QED  BY <1>1, <2>1, OnwardServed
<1>. QED  BY <1>1, <1>2, <1>3

LEMMA OwnedServed ==
  ASSUME IInv, CodesInv, NEW c \in Slots, Owned(c)
  PROVE  CodesInv'
PROOF
<1>t. TypeOK /\ request[c] \in Request
  BY DEF IInv, TypeOK
<1>1. /\ request[c].step = "owned" /\ codes' = codes /\ redeemers' = redeemers
      /\ contested \subseteq contested'
  BY DEF Owned
<1>2. PICK todo : request' = [request EXCEPT ![c].step = IF todo = {} THEN "remove" ELSE "grant",
                                             ![c].todo = todo]
  BY DEF Owned
<1>3. PICK q : q = [request[c] EXCEPT !.step = IF todo = {} THEN "remove" ELSE "grant", !.todo = todo]
  OBVIOUS
<1>4. q.step \in {"grant", "remove"} /\ q.code = request[c].code /\ q.who = request[c].who
  BY <1>t, <1>3 DEF Request
<1>5. request' = [request EXCEPT ![c] = q]
  BY <1>2, <1>t, <1>3 DEF TypeOK
<1>6. \A d \in Slots : request'[d] = IF d = c THEN q ELSE request[d]
  BY <1>t, <1>5, Stepped
<1>. QED  BY <1>1, <1>4, <1>6, OnwardServed

LEMMA TakesFrom ==
  ASSUME TypeOK, NEW c \in Slots, Takes(c), NEW j, j = request[c].code, j \in Codes \union {SellAuth}
  PROVE  /\ \A k \in Codes : k # j => redeemers'[k] = redeemers[k]
         /\ j \in Codes => redeemers'[j] = redeemers[j] \union {request[c].who}
PROOF BY RewardCodesAssumption DEF Takes, TypeOK

LEMMA SaveRewardServed ==
  ASSUME IInv, CodesInv, NEW c \in Slots, SaveReward(c)
  PROVE  CodesInv'
PROOF
<1>t. TypeOK /\ request[c] \in Request
  BY DEF IInv, TypeOK
<1>1. request[c].step = "grant" /\ codes' = codes /\ contested' = contested /\ Takes(c)
  BY DEF SaveReward
<1>2. PICK j \in Codes \union {SellAuth} : j = request[c].code
  BY <1>1 DEF IInv, Accounted
<1>3. /\ \A k \in Codes : k # j => redeemers'[k] = redeemers[k]
      /\ j \in Codes => redeemers'[j] = redeemers[j] \union {request[c].who}
  BY <1>t, <1>1, <1>2, TakesFrom
<1>4. CASE Finish(c) /\ j = SellAuth
  <2>1. PICK q : /\ q = Idle /\ q.step = "idle" /\ \A k : ~ Serves(q, k)
                 /\ \A d \in Slots : request'[d] = IF d = c THEN q ELSE request[d]
    BY <1>t, <1>4, Ended
  <2>2. j \notin Codes
    BY <1>4, RewardCodesAssumption
  <2>. QED  BY <1>1, <1>2, <1>3, <2>1, <2>2, WithinServed
<1>5. ASSUME NEW q, request' = [request EXCEPT ![c] = q], q.step \in {"grant", "remove"},
             q.code = request[c].code, q.who = request[c].who
      PROVE  CodesInv'
  <2>1. \A d \in Slots : request'[d] = IF d = c THEN q ELSE request[d]
    BY <1>5, <1>t, Stepped
  <2>2. \A k : Serves(q, k) <=> k = j
    BY <1>2, <1>5 DEF Serves
  <2>. QED  BY <1>1, <1>2, <1>3, <1>5, <2>1, <2>2, WithinServed
<1>6. CASE \E reward : request' = [request EXCEPT ![c].todo = @ \ {reward}]
  <2>1. PICK reward : request' = [request EXCEPT ![c].todo = @ \ {reward}]
    BY <1>6
  <2>2. PICK q : q = [request[c] EXCEPT !.todo = @ \ {reward}]
    OBVIOUS
  <2>3. q.step = "grant" /\ q.code = request[c].code /\ q.who = request[c].who
    BY <1>t, <1>1, <2>2 DEF Request
  <2>. QED  BY <1>5, <2>1, <2>2, <2>3
<1>7. CASE request' = [request EXCEPT ![c].todo = {}, ![c].step = "remove"]
  <2>2. PICK q : q = [request[c] EXCEPT !.todo = {}, !.step = "remove"]
    OBVIOUS
  <2>3. q.step = "remove" /\ q.code = request[c].code /\ q.who = request[c].who
    BY <1>t, <2>2 DEF Request
  <2>. QED  BY <1>5, <1>7, <2>2, <2>3
<1>. QED  BY <1>2, <1>4, <1>6, <1>7 DEF SaveReward

LEMMA RemoveCodeServed ==
  ASSUME IInv, CodesInv, NEW c \in Slots, RemoveCode(c)
  PROVE  CodesInv'
PROOF
<1>t. TypeOK
  BY DEF IInv
<1>1. /\ request[c].step = "remove" /\ Finish(c) /\ Takes(c) /\ contested' = contested
      /\ codes' = [codes EXCEPT ![request[c].code] = {}]
  BY DEF RemoveCode
<1>2. PICK j \in Codes : j = request[c].code
  BY <1>1 DEF IInv, Accounted
<1>3. /\ \A k \in Codes : k # j => redeemers'[k] = redeemers[k] /\ codes'[k] = codes[k]
      /\ redeemers'[j] = redeemers[j] \union {request[c].who} /\ codes'[j] = {}
  <2>1. codes' = [codes EXCEPT ![j] = {}]
    BY <1>1, <1>2
  <2>2. \A k \in Codes : codes'[k] = IF k = j THEN {} ELSE codes[k]
    BY <1>t, <2>1 DEF TypeOK
  <2>. QED  BY <1>t, <1>1, <1>2, <2>2, TakesFrom
<1>4. PICK q : /\ q = Idle /\ q.step = "idle" /\ \A k : ~ Serves(q, k)
               /\ \A d \in Slots : request'[d] = IF d = c THEN q ELSE request[d]
  BY <1>t, <1>1, Ended
<1>. QED  BY <1>1, <1>2, <1>3, <1>4, WithinServed

LEMMA FailServed ==
  ASSUME IInv, CodesInv, NEW c \in Slots, Fail(c)
  PROVE  CodesInv'
PROOF
<1>t. TypeOK
  BY DEF IInv
<1>1. /\ request[c].step \in {"create", "grant", "remove"} /\ Finish(c)
      /\ codes' = codes /\ redeemers' = redeemers /\ contested \subseteq contested'
      /\ request[c].step \in {"grant", "remove"} /\ request[c].code # SellAuth =>
           request[c].code \in contested'
  BY DEF Fail
<1>2. PICK q : /\ q = Idle /\ q.step = "idle" /\ \A k : ~ Serves(q, k)
               /\ \A d \in Slots : request'[d] = IF d = c THEN q ELSE request[d]
  BY <1>t, <1>1, Ended
<1>3. ASSUME NEW k \in Codes \ contested' PROVE CodeServed(k)'
  <2>1. CodeServed(k) /\ ~ Serves(request[c], k) /\ ~ Serves(q, k)
    BY <1>1, <1>2, <1>3, RewardCodesAssumption DEF CodesInv, Serves
  <2>. QED  BY <1>t, <1>1, <1>2, <2>1, OtherCode
<1>. QED  BY <1>3 DEF CodesInv

(* Requests that stay where they are for the code leave it as it is.       *)
LEMMA AlikeServed ==
  ASSUME CodesInv, codes' = codes, redeemers' = redeemers, contested' = contested,
         \A d \in Slots : \A k \in Codes :
           /\ Serves(request'[d], k) <=> Serves(request[d], k)
           /\ Serves(request[d], k) =>
                request'[d].who = request[d].who /\ request'[d].step = request[d].step
  PROVE  CodesInv'
PROOF
<1>1. ASSUME NEW k \in Codes \ contested PROVE CodeServed(k)'
  <2>1. Serving(k)' = Serving(k)
    BY DEF Serving, Serves
  <2>2. \A d \in Serving(k) :
          request'[d].who = request[d].who /\ request'[d].step = request[d].step
    BY DEF Serving, Serves
  <2>3. {d \in Serving(k)' : request'[d].step \in {"grant", "remove"}}
          = {d \in Serving(k) : request[d].step \in {"grant", "remove"}}
    BY <2>1, <2>2
  <2>4. {request'[d].who : d \in {e \in Serving(k)' : request'[e].step \in {"grant", "remove"}}}
          = {request[d].who : d \in {e \in Serving(k) : request[e].step \in {"grant", "remove"}}}
    BY <2>2, <2>3
  <2>5. CodeServed(k)
    BY DEF CodesInv
  <2>. QED  BY <2>1, <2>4, <2>5 DEF CodeServed
<1>. QED  BY <1>1 DEF CodesInv

(* So the administrators' requests have nothing to do with codes.          *)
LEMMA AdminServed ==
  ASSUME IInv, CodesInv,
         \/ \E a \in Accounts : POSTGrantFullLocker(a)
         \/ \E c \in Slots : DeleteReward(c) \/ \E a \in Accounts : DELETEFullLocker(c, a)
  PROVE  CodesInv'
PROOF
<1>t. TypeOK
  BY DEF IInv
<1>1. CASE \E a \in Accounts : POSTGrantFullLocker(a)
  <2>1. UNCHANGED <<codes, request, redeemers, contested>>
    BY <1>1 DEF POSTGrantFullLocker
  <2>. QED  BY <2>1, AlikeServed
<1>2. ASSUME NEW c \in Slots, NEW a \in Accounts, DELETEFullLocker(c, a) PROVE CodesInv'
  <2>1. PICK q : q = [Knowing("withdraw", a, None, {}, {}) EXCEPT
                        !.found = [k \in AllCodes |-> records[<<a, k, FullLocker>>]]]
    OBVIOUS
  <2>2. q.step = "withdraw"
    BY <2>1 DEF Knowing
  <2>3. /\ request[c].step = "idle" /\ request' = [request EXCEPT ![c] = q]
        /\ codes' = codes /\ redeemers' = redeemers /\ contested' = contested
    BY <1>2, <2>1 DEF DELETEFullLocker
  <2>4. \A d \in Slots : request'[d] = IF d = c THEN q ELSE request[d]
    BY <1>t, <2>3, Stepped
  <2>5. \A k : ~ Serves(q, k) /\ ~ Serves(request[c], k)
    BY <2>2, <2>3 DEF Serves
  <2>. QED  BY <2>3, <2>4, <2>5, AlikeServed
<1>3. ASSUME NEW c \in Slots, DeleteReward(c) PROVE CodesInv'
  <2>1. PICK a, q, j : Deletes(c, a, q, j)
    BY <1>3, DeleteSteps
  <2>2. /\ request[c].step = "withdraw" /\ q.step \in {"idle", "withdraw"}
        /\ codes' = codes /\ redeemers' = redeemers /\ contested' = contested
    BY <2>1 DEF Deletes
  <2>3. ASSUME NEW d \in Slots
        PROVE  \/ d = c /\ request'[d] = q
               \/ request'[d] = request[d]
               \/ request'[d] = [request[d] EXCEPT !.withdrawn = TRUE]
    BY <1>t, <2>1 DEF Deletes, Withdrawn, TypeOK
  <2>4. ASSUME NEW d \in Slots, NEW k \in Codes
        PROVE  /\ Serves(request'[d], k) <=> Serves(request[d], k)
               /\ Serves(request[d], k) =>
                    request'[d].who = request[d].who /\ request'[d].step = request[d].step
    <3>1. CASE d = c /\ request'[d] = q
      BY <2>2, <3>1 DEF Serves
    <3>2. CASE request'[d] = request[d]
      BY <3>2
    <3>3. CASE request'[d] = [request[d] EXCEPT !.withdrawn = TRUE]
      <4>1. request[d] \in Request
        BY <1>t DEF TypeOK
      <4>2. /\ request'[d].who = request[d].who /\ request'[d].step = request[d].step
            /\ request'[d].code = request[d].code
        BY <3>3, <4>1 DEF Request
      <4>. QED  BY <4>2 DEF Serves
    <3>. QED  BY <2>3, <3>1, <3>2, <3>3
  <2>. QED  BY <2>2, <2>4, AlikeServed
<1>. QED  BY <1>1, <1>2, <1>3

LEMMA OthersServed ==
  ASSUME IInv, CodesInv, Crash \/ (\E k \in Codes : Expire(k)) \/ UNCHANGED vars
  PROVE  CodesInv'
PROOF
<1>1. CASE Crash
  <2>1. request' = [c \in Slots |-> Idle] /\ codes' = codes /\ redeemers' = redeemers
    BY <1>1 DEF Crash
  <2>2. \A k : Serving(k)' = {}
    BY <2>1 DEF Serving, Idle, Knowing
  <2>3. ASSUME NEW k \in Codes \ contested' PROVE CodeServed(k)'
    <3>1. k \notin contested /\ ~ \E c \in Serving(k) : request[c].step \in {"grant", "remove"}
      BY <1>1, <2>3 DEF Crash
    <3>2. CodeServed(k)
      BY <3>1 DEF CodesInv
    <3>3. codes[k] # {} => redeemers[k] = {}
      BY <3>1, <3>2 DEF CodeServed
    <3>. QED  BY <2>1, <2>2, <3>2, <3>3 DEF CodeServed
  <2>. QED  BY <2>3 DEF CodesInv
<1>2. CASE ~ Crash
  <2>1. UNCHANGED <<codes, request, redeemers, contested>>
    BY <1>2 DEF Expire, vars
  <2>. QED  BY <2>1 DEF CodesInv, CodeServed, Serving
<1>. QED  BY <1>1, <1>2

(* A code serves one account, unless redemptions of it overlap or break    *)
(* off (the look for the code, and its deletion as the last step).         *)
THEOREM ServedOnce == Spec => []OneRedeemer
PROOF
<1>1. Init => CodesInv
  BY DEF Init, CodesInv, CodeServed, Serving, Idle, Knowing
<1>2. IInv /\ CodesInv /\ [Next]_vars => CodesInv'
  <2>. SUFFICES ASSUME IInv, CodesInv, [Next]_vars PROVE CodesInv'
    OBVIOUS
  <2>1. ASSUME NEW c \in Slots, NEW k \in Codes, NEW worth \in SUBSET Rewards,
               CreateCode(c, k, worth)
        PROVE  CodesInv'
    BY <2>1, CreateCodeServed
  <2>2. ASSUME NEW c \in Slots, NEW a \in Accounts, NEW k \in Codes, Redeem(c, a, k)
        PROVE  CodesInv'
    BY <2>2, RedeemServed
  <2>3. ASSUME NEW c \in Slots, NEW a \in Accounts, GrantFullLocker(c, a) PROVE CodesInv'
    BY <2>3, GrantFullLockerServed
  <2>4. ASSUME NEW c \in Slots, SaveCode(c) \/ Existing(c) \/ Owned(c) PROVE CodesInv'
    BY <2>4, SaveCodeServed, ExistingServed, OwnedServed
  <2>5. ASSUME NEW c \in Slots, SaveReward(c) \/ RemoveCode(c) \/ Fail(c) PROVE CodesInv'
    BY <2>5, SaveRewardServed, RemoveCodeServed, FailServed
  <2>6. ASSUME \/ \E a \in Accounts : POSTGrantFullLocker(a)
               \/ \E c \in Slots : DeleteReward(c) \/ \E a \in Accounts : DELETEFullLocker(c, a)
        PROVE  CodesInv'
    BY <2>6, AdminServed
  <2>. QED  BY <2>1, <2>2, <2>3, <2>4, <2>5, <2>6, OthersServed DEF Next
<1>3. CodesInv => OneRedeemer
  <2>. SUFFICES ASSUME CodesInv, NEW k \in Codes, k \notin contested
                PROVE  Cardinality(redeemers[k]) <= 1
    BY DEF OneRedeemer
  <2>1. PICK a : redeemers[k] \subseteq {a}
    BY DEF CodesInv, CodeServed
  <2>2. redeemers[k] = {} \/ redeemers[k] = {a}
    BY <2>1
  <2>3. Cardinality({}) = 0 /\ Cardinality({a}) = 1
    BY FS_EmptySet, FS_Singleton
  <2>. QED  BY <2>2, <2>3
<1>. QED  BY <1>1, <1>2, <1>3, Invariance, PTL DEF Spec
-----------------------------------------------------------------------------
(* Records counted against requests: GrantsBounded. *)

(* There are at most as many requests about to save a reward as slots.     *)
LEMMA GrantingFinite ==
  ASSUME NEW a, NEW r
  PROVE  /\ IsFiniteSet(Slots) /\ Cardinality(Slots) \in Nat
         /\ IsFiniteSet(Granting(a, r)) /\ Cardinality(Granting(a, r)) \in Nat
         /\ Cardinality(Granting(a, r)) <= Cardinality(Slots)
PROOF
<1>1. IsFiniteSet(Slots) /\ Granting(a, r) \subseteq Slots
  BY RewardCodesAssumption DEF Granting
<1>. QED  BY <1>1, FS_Subset, FS_CardinalityType

(* With no new record, and no new request about to save one.               *)
LEMMA FewerGranting ==
  ASSUME NEW a, NEW r, SlotsCover(a, r), RecordsOf(a, r)' \subseteq RecordsOf(a, r),
         Granting(a, r)' \subseteq Granting(a, r)
  PROVE  SlotsCover(a, r)'
PROOF
<1>1. IsFiniteSet(Granting(a, r)) /\ Cardinality(Granting(a, r)) \in Nat /\ Cardinality(Slots) \in Nat
  BY GrantingFinite
<1>2. /\ Cardinality(Granting(a, r)') \in Nat
      /\ Cardinality(Granting(a, r)') <= Cardinality(Granting(a, r))
  BY <1>1, FS_Subset, FS_CardinalityType
<1>3. IsFiniteSet(RecordsOf(a, r)) /\ Cardinality(RecordsOf(a, r)) \in Nat
  BY FS_CardinalityType DEF SlotsCover
<1>4. /\ IsFiniteSet(RecordsOf(a, r)') /\ Cardinality(RecordsOf(a, r)') \in Nat
      /\ Cardinality(RecordsOf(a, r)') <= Cardinality(RecordsOf(a, r))
  BY <1>3, FS_Subset, FS_CardinalityType
<1>. QED  BY <1>1, <1>2, <1>3, <1>4 DEF SlotsCover

(* A request that finds no record may decide to save one.                  *)
LEMMA NoRecords ==
  ASSUME TypeOK, NEW a \in Accounts, NEW r \in Rewards, ~ Owns(a, r)
  PROVE  RecordsOf(a, r) = {}
PROOF
<1>1. ASSUME NEW k \in Codes \union {SellAuth} PROVE 1 .. records[<<a, k, r>>] = {}
  <2>1. k \in AllCodes /\ <<a, k, r>> \in Kinds
    BY DEF Kinds, AllCodes
  <2>2. records[<<a, k, r>>] \in Nat /\ ~ (records[<<a, k, r>>] > 0)
    BY <2>1 DEF TypeOK, Owns, Holds
  <2>. QED  BY <2>2
<1>. QED  BY <1>1 DEF RecordsOf

LEMMA FreshGranting ==
  ASSUME TypeOK, NEW a \in Accounts, NEW r \in Rewards, ~ Owns(a, r),
         records' = records, request' \in [Slots -> Request]
  PROVE  SlotsCover(a, r)'
PROOF
<1>0. RecordsOf(a, r) = {}
  BY NoRecords
<1>1. RecordsOf(a, r)' = {}
  BY <1>0 DEF RecordsOf
<1>2. Granting(a, r)' \subseteq Slots /\ IsFiniteSet(Slots)
  BY RewardCodesAssumption DEF Granting
<1>3. /\ Cardinality(Granting(a, r)') \in Nat /\ Cardinality(Slots) \in Nat
      /\ Cardinality(Granting(a, r)') <= Cardinality(Slots)
  BY <1>2, FS_Subset, FS_CardinalityType
<1>4. IsFiniteSet({}) /\ Cardinality({}) = 0
  BY FS_EmptySet
<1>. QED  BY <1>1, <1>3, <1>4 DEF SlotsCover

(* A step of one request that saves no record: an account not yet decided  *)
(* for has none of the reward.                                             *)
LEMMA QuietGrants ==
  ASSUME IInv, GrantsInv, NEW c \in Slots, NEW q \in Request,
         \A d \in Slots : request'[d] = IF d = c THEN q ELSE request[d],
         request' \in [Slots -> Request], records' = records,
         \A a \in Accounts : a \in contested => a \in contested',
         q.step = "grant" => \/ /\ request[c].step = "grant" /\ q.who = request[c].who
                                /\ q.todo \subseteq request[c].todo
                             \/ q.who \in contested'
                             \/ \A r \in q.todo : ~ Owns(q.who, r)
  PROVE  GrantsInv'
PROOF
<1>1. ASSUME NEW a \in Accounts, a \notin contested', NEW r \in Rewards
      PROVE  SlotsCover(a, r)'
  <2>1. TypeOK /\ SlotsCover(a, r)
    BY <1>1 DEF IInv, GrantsInv
  <2>2. RecordsOf(a, r)' = RecordsOf(a, r)
    BY DEF RecordsOf
  <2>3. CASE ~ Owns(a, r)
    BY <2>1, <2>3, FreshGranting
  <2>4. CASE Owns(a, r)
    <3>1. Granting(a, r)' \subseteq Granting(a, r)
      BY <1>1, <2>4 DEF Granting
    <3>. QED  BY <2>1, <2>2, <3>1, FewerGranting
  <2>. QED  BY <2>3, <2>4
<1>. QED  BY <1>1 DEF GrantsInv

(* The pairs of a code and a number that RecordsOf counts.                 *)
PairsOf(f, a, r) == UNION {{k} \X (1 .. f[<<a, k, r>>]) : k \in Codes \union {SellAuth}}

Numbered(f, a, r, x) ==
  \E k \in Codes \union {SellAuth} : \E n : n \in 1 .. f[<<a, k, r>>] /\ x = <<k, n>>

LEMMA InPairs ==
  \A f, a, r, x :
    x \in PairsOf(f, a, r) <=> Numbered(f, a, r, x)
PROOF
<1>. TAKE f, a, r, x
<1>1. ASSUME NEW k, NEW N PROVE x \in {k} \X N <=> \E n \in N : x = <<k, n>>
  <2>1. ASSUME x \in {k} \X N PROVE \E n \in N : x = <<k, n>>
    <3>1. x = <<x[1], x[2]>> /\ x[1] = k /\ x[2] \in N
      BY <2>1
    <3>. QED  BY <3>1
  <2>2. ASSUME NEW n \in N, x = <<k, n>> PROVE x \in {k} \X N
    BY <2>2
  <2>. QED  BY <2>1, <2>2
<1>2. x \in PairsOf(f, a, r)
        <=> \E k \in Codes \union {SellAuth} : x \in {k} \X (1 .. f[<<a, k, r>>])
  BY DEF PairsOf
<1>3. ASSUME x \in PairsOf(f, a, r) PROVE Numbered(f, a, r, x)
  <2>1. PICK k \in Codes \union {SellAuth} : x \in {k} \X (1 .. f[<<a, k, r>>])
    BY <1>2, <1>3
  <2>2. PICK n : n \in 1 .. f[<<a, k, r>>] /\ x = <<k, n>>
    BY <1>1, <2>1
  <2>. QED  BY <2>2 DEF Numbered
<1>4. ASSUME Numbered(f, a, r, x) PROVE x \in PairsOf(f, a, r)
  <2>1. PICK k \in Codes \union {SellAuth}, n \in Int : n \in 1 .. f[<<a, k, r>>] /\ x = <<k, n>>
    BY <1>4 DEF Numbered
  <2>2. x \in {k} \X (1 .. f[<<a, k, r>>])
    BY <1>1, <2>1
  <2>. QED  BY <1>2, <2>2
<1>. QED  BY <1>3, <1>4

(* A save: one more record, and one request less about to save it.         *)
LEMMA SavedRecord ==
  ASSUME TypeOK, NEW a \in Accounts, NEW j \in Codes \union {SellAuth}, NEW r \in Rewards,
         records' = [records EXCEPT ![<<a, j, r>>] = @ + 1]
  PROVE  /\ RecordsOf(a, r)' = RecordsOf(a, r) \union {<<j, records[<<a, j, r>>] + 1>>}
         /\ \A b \in Accounts, s \in Rewards : b # a \/ s # r => RecordsOf(b, s)' = RecordsOf(b, s)
PROOF
<1>1. <<a, j, r>> \in Kinds /\ records[<<a, j, r>>] \in Nat
  BY DEF Kinds, AllCodes, TypeOK
<1>2. ASSUME NEW b \in Accounts, NEW k \in Codes \union {SellAuth}, NEW s \in Rewards
      PROVE  records'[<<b, k, s>>]
               = IF b = a /\ k = j /\ s = r THEN records[<<a, j, r>>] + 1 ELSE records[<<b, k, s>>]
  BY DEF TypeOK, Kinds, AllCodes
<1>3. \A b, s : /\ RecordsOf(b, s) = PairsOf(records, b, s)
               /\ RecordsOf(b, s)' = PairsOf(records', b, s)
  BY DEF RecordsOf, PairsOf
<1>0. PICK g : g = records'
  OBVIOUS
<1>4. PairsOf(g, a, r) = PairsOf(records, a, r) \union {<<j, records[<<a, j, r>>] + 1>>}
  <2>1. ASSUME NEW x
        PROVE  x \in PairsOf(g, a, r)
                 <=> x \in PairsOf(records, a, r) \/ x = <<j, records[<<a, j, r>>] + 1>>
    <3>1. \A k \in Codes \union {SellAuth} : \A n :
            n \in 1 .. g[<<a, k, r>>]
              <=> n \in 1 .. records[<<a, k, r>>] \/ (k = j /\ n = records[<<a, j, r>>] + 1)
      BY <1>0, <1>1, <1>2
    <3>2. ASSUME Numbered(g, a, r, x)
          PROVE  Numbered(records, a, r, x) \/ x = <<j, records[<<a, j, r>>] + 1>>
      BY <3>1, <3>2, Zenon DEF Numbered
    <3>3. ASSUME Numbered(records, a, r, x)
          PROVE  Numbered(g, a, r, x)
      BY <3>1, <3>3, Zenon DEF Numbered
    <3>6. records[<<a, j, r>>] + 1 \in 1 .. g[<<a, j, r>>]
      BY <1>0, <1>1, <1>2
    <3>7. Numbered(g, a, r, <<j, records[<<a, j, r>>] + 1>>)
      BY <3>6 DEF Numbered
    <3>. QED  BY <3>2, <3>3, <3>7, InPairs
  <2>. QED  BY <2>1
<1>5. ASSUME NEW b \in Accounts, NEW s \in Rewards, b # a \/ s # r
      PROVE  PairsOf(g, b, s) = PairsOf(records, b, s)
  <2>1. \A k \in Codes \union {SellAuth} : g[<<b, k, s>>] = records[<<b, k, s>>]
    BY <1>0, <1>2, <1>5
  <2>. QED  BY <2>1, Zenon DEF PairsOf
<1>. QED  BY <1>0, <1>3, <1>4, <1>5

LEMMA SaveRewardGrants ==
  ASSUME IInv, GrantsInv, NEW c \in Slots, SaveReward(c)
  PROVE  GrantsInv'
PROOF
<1>t. TypeOK /\ request[c] \in Request
  BY DEF IInv, TypeOK
<1>1. PICK a \in Accounts, j \in Codes \union {SellAuth} :
        request[c].who = a /\ request[c].code = j /\ request[c].step = "grant"
  BY DEF SaveReward, IInv, Accounted
<1>2. PICK r \in request[c].todo :
        /\ records' = [records EXCEPT ![<<a, j, r>>] = @ + 1]
        /\ \/ request' = [request EXCEPT ![c].todo = @ \ {r}]
           \/ Finish(c)
           \/ request' = [request EXCEPT ![c].todo = {}, ![c].step = "remove"]
  BY <1>1 DEF SaveReward
<1>3. r \in Rewards /\ contested' = contested
  BY <1>t DEF Request, SaveReward
<1>4. /\ \A d \in Slots \ {c} : request'[d] = request[d]
      /\ request'[c].step = "grant" =>
           request'[c].who = a /\ request'[c].todo = request[c].todo \ {r}
  BY <1>t, <1>1, <1>2 DEF Finish, Idle, Knowing, TypeOK, Request
<1>5. \A b, s : Granting(b, s)' \subseteq Granting(b, s)
  BY <1>1, <1>4 DEF Granting
<1>6. c \in Granting(a, r) /\ Granting(a, r)' \subseteq Granting(a, r) \ {c}
  <2>1. c \in Granting(a, r)
    BY <1>1, <1>2 DEF Granting
  <2>2. c \notin Granting(a, r)'
    BY <1>4 DEF Granting
  <2>. QED  BY <1>5, <2>1, <2>2
<1>7. /\ RecordsOf(a, r)' = RecordsOf(a, r) \union {<<j, records[<<a, j, r>>] + 1>>}
      /\ \A b \in Accounts, s \in Rewards : b # a \/ s # r => RecordsOf(b, s)' = RecordsOf(b, s)
  <2>1. TypeOK /\ a \in Accounts /\ j \in Codes \union {SellAuth} /\ r \in Rewards
        /\ records' = [records EXCEPT ![<<a, j, r>>] = records[<<a, j, r>>] + 1]
    BY <1>t, <1>2, <1>3
  <2>. QED  BY ONLY <2>1, SavedRecord, Zenon
<1>8. ASSUME a \notin contested PROVE SlotsCover(a, r)'
  <2>1. SlotsCover(a, r)
    BY <1>3, <1>8 DEF GrantsInv
  <2>2. /\ IsFiniteSet(RecordsOf(a, r)) /\ Cardinality(RecordsOf(a, r)) \in Nat
        /\ IsFiniteSet(Granting(a, r)) /\ Cardinality(Granting(a, r)) \in Nat
        /\ Cardinality(Slots) \in Nat
    BY <2>1, GrantingFinite, FS_CardinalityType DEF SlotsCover
  <2>3. /\ IsFiniteSet(RecordsOf(a, r)') /\ Cardinality(RecordsOf(a, r)') \in Nat
        /\ Cardinality(RecordsOf(a, r)') <= Cardinality(RecordsOf(a, r)) + 1
    <3>1. PICK x, S : S = RecordsOf(a, r) /\ x = <<j, records[<<a, j, r>>] + 1>>
      OBVIOUS
    <3>2. RecordsOf(a, r)' = S \union {x} /\ IsFiniteSet(S)
      BY <1>7, <2>2, <3>1
    <3>3. /\ IsFiniteSet(S \union {x}) /\ Cardinality(S \union {x}) \in Nat
          /\ Cardinality(S \union {x}) <= Cardinality(S) + 1
      <4>1. /\ IsFiniteSet(S \union {x})
            /\ Cardinality(S \union {x}) = IF x \in S THEN Cardinality(S) ELSE Cardinality(S) + 1
        BY <3>2, FS_AddElement, Zenon
      <4>2. Cardinality(S) \in Nat
        BY <2>2, <3>1
      <4>. QED  BY <4>1, <4>2
    <3>. QED  BY <3>1, <3>2, <3>3
  <2>4. /\ IsFiniteSet(Granting(a, r) \ {c})
        /\ Cardinality(Granting(a, r) \ {c}) = Cardinality(Granting(a, r)) - 1
    BY <1>6, <2>2, FS_RemoveElement
  <2>5. /\ Cardinality(Granting(a, r)') \in Nat
        /\ Cardinality(Granting(a, r)') <= Cardinality(Granting(a, r)) - 1
    BY <1>6, <2>4, FS_Subset, FS_CardinalityType
  <2>. QED  BY <2>1, <2>2, <2>3, <2>5 DEF SlotsCover
<1>9. ASSUME NEW b \in Accounts, b \notin contested, NEW s \in Rewards, b # a \/ s # r
      PROVE  SlotsCover(b, s)'
  <2>1. SlotsCover(b, s) /\ RecordsOf(b, s)' = RecordsOf(b, s)
    BY <1>7, <1>9 DEF GrantsInv
  <2>. QED  BY <1>5, <2>1, FewerGranting
<1>. QED  BY <1>3, <1>8, <1>9 DEF GrantsInv

LEMMA LookGrants ==
  ASSUME IInv, GrantsInv, NEW c \in Slots, Existing(c) \/ Owned(c)
  PROVE  GrantsInv'
PROOF
<1>t. TypeOK /\ request[c] \in Request /\ TypeOK'
  BY ExistingKeeps, OwnedKeeps DEF IInv, TypeOK
<1>r. request' \in [Slots -> Request] /\ records' = records /\ contested \subseteq contested'
  BY <1>t DEF TypeOK, Existing, Owned
<1>1. PICK q : q = request'[c]
  OBVIOUS
<1>2. q \in Request /\ \A d \in Slots : request'[d] = IF d = c THEN q ELSE request[d]
  BY <1>t, <1>r, <1>1 DEF Existing, Owned, Goto, Finish, TypeOK
<1>3. CASE Existing(c)
  <2>1. q.step # "grant"
    BY <1>t, <1>1, <1>3 DEF Existing, Goto, Finish, Idle, Knowing, TypeOK, Request
  <2>. QED  BY <1>r, <1>2, <2>1, QuietGrants
<1>4. CASE Owned(c)
  <2>1. PICK todo : /\ request' = [request EXCEPT
                         ![c].step = IF todo = {} THEN "remove" ELSE "grant", ![c].todo = todo]
                    /\ \/ todo = request[c].worth \ accountRewards(request[c].who)
                       \/ request[c].who \in contested'
    BY <1>4 DEF Owned
  <2>2. q.todo = todo /\ q.who = request[c].who
    BY <1>t, <1>1, <2>1 DEF TypeOK, Request
  <2>3. q.who \in contested' \/ \A r \in q.todo : ~ Owns(q.who, r)
    BY <1>2, <2>1, <2>2 DEF accountRewards, Owns, Request
  <2>. QED  BY <1>r, <1>2, <2>3, QuietGrants
<1>. QED  BY <1>3, <1>4

LEMMA WebhookGrants ==
  ASSUME IInv, GrantsInv, NEW c \in Slots, NEW a \in Accounts, GrantFullLocker(c, a)
  PROVE  GrantsInv'
PROOF
<1>t. TypeOK /\ TypeOK'
  BY GrantFullLockerKeeps DEF IInv
<1>1. PICK q : q = Knowing("grant", a, SellAuth, {FullLocker}, {FullLocker})
  OBVIOUS
<1>2. /\ request' \in [Slots -> Request] /\ records' = records /\ contested \subseteq contested'
      /\ \A d \in Slots : request'[d] = IF d = c THEN q ELSE request[d]
  BY <1>t, <1>1 DEF GrantFullLocker, TypeOK
<1>3. q \in Request
  BY <1>2
<1>4. q.who \in contested' \/ \A r \in q.todo : ~ Owns(q.who, r)
  BY <1>1, RewardCodesAssumption DEF Knowing, GrantFullLocker, accountRewards, Owns
<1>. QED  BY <1>2, <1>3, <1>4, QuietGrants

(* An administrator adds no record that counts, and may take some away.    *)
LEMMA AdminGrants ==
  ASSUME IInv, GrantsInv,
         \/ \E a \in Accounts : POSTGrantFullLocker(a)
         \/ \E c \in Slots : DeleteReward(c) \/ \E a \in Accounts : DELETEFullLocker(c, a)
  PROVE  GrantsInv'
PROOF
<1>t. TypeOK
  BY DEF IInv
<1>1. ASSUME contested' = contested,
             \A b \in Accounts, k \in Codes \union {SellAuth}, s \in Rewards :
               \A n : n \in 1 .. records'[<<b, k, s>>] => n \in 1 .. records[<<b, k, s>>],
             \A b, s : Granting(b, s)' \subseteq Granting(b, s)
      PROVE  GrantsInv'
  <2>1. ASSUME NEW b \in Accounts, b \notin contested, NEW s \in Rewards PROVE SlotsCover(b, s)'
    <3>1. PICK g : g = records'
      OBVIOUS
    <3>2. ASSUME NEW x, Numbered(g, b, s, x) PROVE Numbered(records, b, s, x)
      BY <1>1, <3>1, <3>2, Zenon DEF Numbered
    <3>3. PairsOf(g, b, s) \subseteq PairsOf(records, b, s)
      BY <3>2, InPairs
    <3>4. RecordsOf(b, s)' \subseteq RecordsOf(b, s)
      BY <3>1, <3>3 DEF RecordsOf, PairsOf
    <3>. QED  BY <1>1, <2>1, <3>4, FewerGranting DEF GrantsInv
  <2>. QED  BY <1>1, <2>1 DEF GrantsInv
<1>2. ASSUME NEW a \in Accounts, POSTGrantFullLocker(a) PROVE GrantsInv'
  <2>1. ASSUME NEW b \in Accounts, NEW k \in Codes \union {SellAuth}, NEW s \in Rewards
        PROVE  records'[<<b, k, s>>] = records[<<b, k, s>>]
    BY <1>t, <1>2, RewardCodesAssumption DEF POSTGrantFullLocker, TypeOK, Kinds, AllCodes
  <2>2. UNCHANGED <<request, contested>>
    BY <1>2 DEF POSTGrantFullLocker
  <2>. QED  BY <1>1, <2>1, <2>2 DEF Granting
<1>3. ASSUME NEW c \in Slots, NEW a \in Accounts, DELETEFullLocker(c, a) PROVE GrantsInv'
  <2>1. PICK q : q = [Knowing("withdraw", a, None, {}, {}) EXCEPT
                        !.found = [k \in AllCodes |-> records[<<a, k, FullLocker>>]]]
    OBVIOUS
  <2>2. q.step = "withdraw"
    BY <2>1 DEF Knowing
  <2>3. request' = [request EXCEPT ![c] = q] /\ records' = records /\ contested' = contested
    BY <1>3, <2>1 DEF DELETEFullLocker
  <2>4. \A d \in Slots : request'[d] = IF d = c THEN q ELSE request[d]
    BY <1>t, <2>3, Stepped
  <2>5. \A b, s : Granting(b, s)' \subseteq Granting(b, s)
    BY <2>2, <2>4 DEF Granting
  <2>. QED  BY <1>1, <2>3, <2>5
<1>4. ASSUME NEW c \in Slots, DeleteReward(c) PROVE GrantsInv'
  <2>1. PICK a, q, j : Deletes(c, a, q, j)
    BY <1>4, DeleteSteps
  <2>2. a \in Accounts /\ j \in AllCodes /\ q.step \in {"idle", "withdraw"} /\ contested' = contested
    BY <2>1 DEF Deletes
  <2>3. ASSUME NEW kind \in Kinds, NEW n, n \in 1 .. records'[kind] PROVE n \in 1 .. records[kind]
    <3>1. records[kind] \in Nat
      BY <1>t DEF TypeOK
    <3>2. \/ records'[kind] = records[kind]
          \/ records[kind] > 0 /\ records'[kind] = records[kind] - 1
      BY <1>t, <2>1 DEF Deletes, TypeOK
    <3>. QED  BY <2>3, <3>1, <3>2
  <2>4. \A b \in Accounts, k \in Codes \union {SellAuth}, s \in Rewards :
          \A n : n \in 1 .. records'[<<b, k, s>>] => n \in 1 .. records[<<b, k, s>>]
    BY <2>3 DEF Kinds, AllCodes
  <2>5. ASSUME NEW d \in Slots
        PROVE  \/ d = c /\ request'[d] = q
               \/ request'[d] = request[d]
               \/ request'[d] = [request[d] EXCEPT !.withdrawn = TRUE]
    BY <1>t, <2>1 DEF Deletes, Withdrawn, TypeOK
  <2>6. ASSUME NEW b, NEW s, NEW d \in Granting(b, s)' PROVE d \in Granting(b, s)
    <3>1. d \in Slots /\ request'[d].step = "grant" /\ request'[d].who = b /\ s \in request'[d].todo
      BY DEF Granting
    <3>2. request[d] \in Request
      BY <1>t, <3>1 DEF TypeOK
    <3>3. CASE request'[d] = request[d]
      BY <3>1, <3>3 DEF Granting
    <3>4. CASE request'[d] = [request[d] EXCEPT !.withdrawn = TRUE]
      <4>1. /\ request'[d].step = request[d].step /\ request'[d].who = request[d].who
            /\ request'[d].todo = request[d].todo
        BY <3>2, <3>4 DEF Request
      <4>. QED  BY <3>1, <4>1 DEF Granting
    <3>. QED  BY <2>2, <2>5, <3>1, <3>3, <3>4
  <2>. QED  BY <1>1, <2>2, <2>4, <2>6
<1>. QED  BY <1>2, <1>3, <1>4

(* The steps after which the request is not about to save a reward.        *)
LEMMA OtherGrants ==
  ASSUME IInv, GrantsInv, TypeOK', NEW c \in Slots,
         \/ \E k \in Codes, worth \in SUBSET Rewards : CreateCode(c, k, worth)
         \/ \E a \in Accounts, k \in Codes : Redeem(c, a, k)
         \/ SaveCode(c) \/ RemoveCode(c) \/ Fail(c)
  PROVE  GrantsInv'
PROOF
<1>t. TypeOK
  BY DEF IInv
<1>1. PICK q : q = request'[c]
  OBVIOUS
<1>2. /\ request' \in [Slots -> Request] /\ records' = records /\ q \in Request
      /\ \A d \in Slots : request'[d] = IF d = c THEN q ELSE request[d]
  BY <1>t, <1>1 DEF CreateCode, Redeem, SaveCode, RemoveCode, Fail, Finish, TypeOK
<1>3. q.step # "grant"
  BY <1>t, <1>1 DEF CreateCode, Redeem, SaveCode, RemoveCode, Fail, Finish, Idle, Knowing, TypeOK
<1>4. \A a \in Accounts : a \in contested => a \in contested'
  <2>1. CASE SaveCode(c)
    <3>1. request[c].code \in Codes
      BY <2>1 DEF SaveCode, IInv, Accounted
    <3>. QED  BY <2>1, <3>1, RewardCodesAssumption DEF SaveCode
  <2>2. CASE ~ SaveCode(c)
    BY <2>2 DEF CreateCode, Redeem, RemoveCode, Fail
  <2>. QED  BY <2>1, <2>2
<1>. QED  BY <1>2, <1>3, <1>4, QuietGrants

LEMMA CrashGrants ==
  ASSUME GrantsInv, Crash \/ (\E k \in Codes : Expire(k)) \/ UNCHANGED vars
  PROVE  GrantsInv'
PROOF
<1>1. /\ records' = records /\ contested \subseteq contested'
      /\ request' = request \/ request' = [c \in Slots |-> Idle]
  BY DEF Crash, Expire, vars
<1>2. \A a, r : RecordsOf(a, r)' = RecordsOf(a, r) /\ Granting(a, r)' \subseteq Granting(a, r)
  BY <1>1 DEF RecordsOf, Granting, Idle, Knowing
<1>3. ASSUME NEW a \in Accounts, a \notin contested', NEW r \in Rewards PROVE SlotsCover(a, r)'
  BY <1>1, <1>2, <1>3, FewerGranting DEF GrantsInv
<1>. QED  BY <1>3 DEF GrantsInv

(* An account whose records could always be read holds at most as many     *)
(* records of one reward as requests are served at once, however often the *)
(* webhook is delivered (its look for the reward before it saves one).     *)
THEOREM GrantsStayBounded == Spec => []GrantsBounded
PROOF
<1>1. Init => GrantsInv
  <2>. SUFFICES ASSUME Init, NEW a \in Accounts, NEW r \in Rewards PROVE SlotsCover(a, r)
    BY DEF GrantsInv
  <2>1. TypeOK
    BY InitIInv DEF IInv
  <2>2. \A k \in AllCodes : <<a, k, r>> \in Kinds
    BY DEF Kinds
  <2>3. \A k \in AllCodes : records[<<a, k, r>>] = 0
    BY <2>2 DEF Init
  <2>4. ~ Owns(a, r)
    <3>1. ASSUME NEW k \in AllCodes, Holds(a, k, r) PROVE FALSE
      BY <2>3, <3>1 DEF Holds
    <3>. QED  BY <3>1 DEF Owns
  <2>5. RecordsOf(a, r) = {}
    BY <2>1, <2>4, NoRecords
  <2>. QED  BY <2>5, GrantingFinite, FS_EmptySet DEF SlotsCover
<1>2. IInv /\ IInv' /\ GrantsInv /\ [Next]_vars => GrantsInv'
  <2>. SUFFICES ASSUME IInv, IInv', GrantsInv, [Next]_vars PROVE GrantsInv'
    OBVIOUS
  <2>t. TypeOK'
    BY DEF IInv
  <2>1. ASSUME NEW c \in Slots,
               \/ \E k \in Codes, worth \in SUBSET Rewards : CreateCode(c, k, worth)
               \/ \E a \in Accounts, k \in Codes : Redeem(c, a, k)
               \/ SaveCode(c) \/ RemoveCode(c) \/ Fail(c)
        PROVE  GrantsInv'
    BY <2>t, <2>1, OtherGrants
  <2>2. ASSUME NEW c \in Slots, NEW a \in Accounts, GrantFullLocker(c, a) PROVE GrantsInv'
    BY <2>2, WebhookGrants
  <2>3. ASSUME NEW c \in Slots, Existing(c) \/ Owned(c) PROVE GrantsInv'
    BY <2>3, LookGrants
  <2>4. ASSUME NEW c \in Slots, SaveReward(c) PROVE GrantsInv'
    BY <2>4, SaveRewardGrants
  <2>5. ASSUME \/ \E a \in Accounts : POSTGrantFullLocker(a)
               \/ \E c \in Slots : DeleteReward(c) \/ \E a \in Accounts : DELETEFullLocker(c, a)
        PROVE  GrantsInv'
    BY <2>5, AdminGrants
  <2>. QED  BY <2>1, <2>2, <2>3, <2>4, <2>5, CrashGrants DEF Next
<1>3. GrantsInv => GrantsBounded
  <2>. SUFFICES ASSUME GrantsInv, NEW a \in Accounts \ contested, NEW r \in Rewards
                PROVE  Cardinality(RecordsOf(a, r)) <= Cardinality(Slots)
    BY DEF GrantsBounded
  <2>1. SlotsCover(a, r) /\ Cardinality(Granting(a, r)) \in Nat /\ Cardinality(Slots) \in Nat
    BY GrantingFinite DEF GrantsInv
  <2>2. Cardinality(RecordsOf(a, r)) \in Nat
    BY <2>1, FS_CardinalityType DEF SlotsCover
  <2>. QED  BY <2>1, <2>2 DEF SlotsCover
<1>. QED  BY <1>1, <1>2, <1>3, Invariance, PTL DEF Spec
=============================================================================
