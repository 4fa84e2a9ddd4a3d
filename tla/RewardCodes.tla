----------------------------- MODULE RewardCodes -----------------------------
(***************************************************************************)
(* Gift codes, the shop webhook and the administrators' Full Locker        *)
(* (router/remix/server/remix_server_codes.go, .._sellauth.go and          *)
(* .._register.go).  Redeeming finds a code, looks up what the account     *)
(* owns, saves one record of Accounts_Rewards for each new reward and      *)
(* deletes the code; the webhook grants the Full Locker to an account that *)
(* has none; administrators grant it without a look, and withdraw it by    *)
(* deleting the records that hold it, one by one.  Each request runs in    *)
(* its own goroutine: a step is one call of the store                      *)
(* (odin, external) with the decision that follows.  There is no lock, a   *)
(* call may fail, and the process may end between any two.                 *)
(*                                                                         *)
(* The rewards of a code are a set; accounts exist; packages and times are *)
(* left out, except that a code may expire.                                *)
(***************************************************************************)
EXTENDS Naturals, FiniteSets

CONSTANTS
  Accounts, Codes, Rewards,
  FullLocker,  \* the reward the webhook grants
  SellAuth,    \* what the webhook's records have for a code
  Admin,       \* and what those of administrators have
  None,
  Slots,       \* bound: requests served at once
  MaxCopies    \* bound: records of each kind

ASSUME RewardCodesAssumption ==
  /\ FullLocker \in Rewards
  /\ {SellAuth, Admin} \intersect Codes = {} /\ SellAuth # Admin
  /\ MaxCopies \in [Accounts \X (Codes \union {SellAuth, Admin}) \X Rewards -> Nat]
  /\ None \notin Accounts \union Codes /\ Accounts \intersect Codes = {}
  /\ IsFiniteSet(Slots)

VARIABLES
  codes,      \* Remix_Codes: what each code is worth; {} for no code
  expired,    \* the codes past their date
  records,    \* Accounts_Rewards: the number of records of each kind
  request,    \* what the goroutine of each request knows
  redeemers,  \* history: the accounts that took from each code since it was saved
  contested   \* history: codes and accounts of overlapping or broken requests

vars == <<codes, expired, records, request, redeemers, contested>>

AllCodes == Codes \union {SellAuth, Admin}
Kinds == Accounts \X AllCodes \X Rewards

Steps == {"idle", "existing", "owned", "grant", "remove", "create", "withdraw"}

\* worth: the rewards of the code as found; todo: those still to be granted;
\* found: the records of the Full Locker still to be deleted, by code;
\* withdrawn: history, one was deleted from the account since the look.
Request == [step : Steps, who : Accounts \union {None},
            code : Codes \union {SellAuth, None},
            worth : SUBSET Rewards, todo : SUBSET Rewards,
            found : [AllCodes -> Nat], withdrawn : BOOLEAN]
Nothing == [k \in AllCodes |-> 0]
Knowing(step, a, k, worth, todo) ==
  [step |-> step, who |-> a, code |-> k, worth |-> worth, todo |-> todo,
   found |-> Nothing, withdrawn |-> FALSE]
Idle == Knowing("idle", None, None, {}, {})

TypeOK ==
  /\ codes \in [Codes -> SUBSET Rewards] /\ expired \subseteq Codes
  /\ records \in [Kinds -> Nat]
  /\ request \in [Slots -> Request]
  /\ redeemers \in [Codes -> SUBSET Accounts]
  /\ contested \subseteq Codes \union Accounts

Holds(a, k, r) == records[<<a, k, r>>] > 0
Owns(a, r) == \E k \in AllCodes : Holds(a, k, r)
Serving(k) == {c \in Slots : request[c].code = k
                 /\ request[c].step \in {"existing", "owned", "grant", "remove"}}

\* The rewards the account's records carry.
\* Mutant of accountRewards: the records of codes only.
accountRewardsOfCodes(a) == {r \in Rewards : \E k \in Codes : Holds(a, k, r)}
accountRewards(a) == {r \in Rewards : \E k \in AllCodes : Holds(a, k, r)}
-----------------------------------------------------------------------------
Init ==
  /\ codes = [k \in Codes |-> {}] /\ expired = {}
  /\ records = [kind \in Kinds |-> 0]
  /\ request = [c \in Slots |-> Idle]
  /\ redeemers = [k \in Codes |-> {}] /\ contested = {}

Goto(c, step) == request' = [request EXCEPT ![c].step = step]
Finish(c) == request' = [request EXCEPT ![c] = Idle]

\* PUTRemixServerCreateCode up to the look for a code of that name, which may
\* fail unnoticed; the rewards may not be empty.
CreateCode(c, k, worth) ==
  /\ request[c].step = "idle" /\ worth # {}
  /\ request' = [request EXCEPT ![c] = Knowing("create", None, k, worth, {})]
  /\ \/ codes[k] = {} /\ UNCHANGED contested
     \/ codes[k] # {} /\ contested' = contested \union {k}  \* the look failed
  /\ UNCHANGED <<codes, expired, records, redeemers>>

SaveCode(c) ==
  LET k == request[c].code IN
  /\ request[c].step = "create"
  /\ codes' = [codes EXCEPT ![k] = request[c].worth]
  /\ expired' = expired \ {k}
  /\ Finish(c)
  /\ redeemers' = [redeemers EXCEPT ![k] = {}]
  /\ contested' = IF Serving(k) = {} /\ codes[k] = {} THEN contested \ {k} ELSE contested \union {k}
  /\ UNCHANGED records

Expire(k) ==
  /\ codes[k] # {} /\ k \notin expired
  /\ expired' = expired \union {k}
  /\ UNCHANGED <<codes, records, request, redeemers, contested>>

\* POSTRemixServerCodesRedeem up to the look for the code.
Redeem(c, a, k) ==
  /\ request[c].step = "idle"
  /\ codes[k] # {} /\ k \notin expired
  /\ request' = [request EXCEPT ![c] = Knowing("existing", a, k, codes[k], {})]
  /\ contested' = IF Serving(k) = {} THEN contested ELSE contested \union {k}
  /\ UNCHANGED <<codes, expired, records, redeemers>>

\* A look that fails finds nothing: the request goes on.
Existing(c) ==
  LET r == request[c]
      found == {reward \in Rewards : Holds(r.who, r.code, reward)} IN
  /\ r.step = "existing"
  /\ \/ found = {} /\ Goto(c, "owned") /\ UNCHANGED contested
     \/ found # {} /\ Finish(c) /\ UNCHANGED contested
     \/ found # {} /\ Goto(c, "owned") /\ contested' = contested \union {r.who}
  /\ UNCHANGED <<codes, expired, records, redeemers>>

Owned(c) ==
  LET r == request[c]
      next(todo) == request' = [request EXCEPT
        ![c].step = IF todo = {} THEN "remove" ELSE "grant", ![c].todo = todo] IN
  /\ r.step = "owned"
  /\ \/ next(r.worth \ accountRewards(r.who)) /\ UNCHANGED contested
     \/ /\ r.worth \intersect accountRewards(r.who) # {}
        /\ next(r.worth) /\ contested' = contested \union {r.who}
  /\ UNCHANGED <<codes, expired, records, redeemers>>

\* The webhook: the account's records, and a record of the Full Locker.
GrantFullLocker(c, a) ==
  /\ request[c].step = "idle"
  /\ \/ FullLocker \notin accountRewards(a) /\ UNCHANGED contested
     \/ FullLocker \in accountRewards(a) /\ contested' = contested \union {a}  \* the look failed
  /\ request' = [request EXCEPT ![c] =
       Knowing("grant", a, SellAuth, {FullLocker}, {FullLocker})]
  /\ UNCHANGED <<codes, expired, records, redeemers>>

Takes(c) == redeemers' = IF request[c].code = SellAuth THEN redeemers
                         ELSE [redeemers EXCEPT ![request[c].code] = @ \union {request[c].who}]

\* Mutant of SaveReward: it stops after the first reward.
SaveRewardOnce(c) ==
  LET r == request[c] IN
  /\ r.step = "grant"
  /\ \E reward \in r.todo :
       /\ records' = [records EXCEPT ![<<r.who, r.code, reward>>] = @ + 1]
       /\ request' = [request EXCEPT ![c].todo = {}, ![c].step = "remove"]
  /\ Takes(c)
  /\ UNCHANGED <<codes, expired, contested>>
SaveReward(c) ==
  LET r == request[c] IN
  /\ r.step = "grant"
  /\ \E reward \in r.todo :
       /\ records[<<r.who, r.code, reward>>] < MaxCopies[<<r.who, r.code, reward>>]
       /\ records' = [records EXCEPT ![<<r.who, r.code, reward>>] = @ + 1]
       /\ IF r.todo # {reward} THEN request' = [request EXCEPT ![c].todo = @ \ {reward}]
          ELSE IF r.code = SellAuth THEN Finish(c)
          ELSE request' = [request EXCEPT ![c].todo = {}, ![c].step = "remove"]
  /\ Takes(c)
  /\ UNCHANGED <<codes, expired, contested>>

\* Mutant of RemoveCode: a code is good for several accounts.
RemoveCodeNever(c) ==
  /\ request[c].step = "remove"
  /\ Finish(c) /\ Takes(c)
  /\ UNCHANGED <<codes, expired, records, contested>>
RemoveCode(c) ==
  LET k == request[c].code IN
  /\ request[c].step = "remove"
  /\ codes' = [codes EXCEPT ![k] = {}]
  /\ expired' = expired \ {k}
  /\ Finish(c) /\ Takes(c)
  /\ UNCHANGED <<records, contested>>

\* An administrator grants the Full Locker, without a look.
POSTGrantFullLocker(a) ==
  LET kind == <<a, Admin, FullLocker>> IN
  /\ records[kind] < MaxCopies[kind]
  /\ records' = [records EXCEPT ![kind] = @ + 1]
  /\ UNCHANGED <<codes, expired, request, redeemers, contested>>

\* An administrator takes the Full Locker from an account (DELETEFullLocker and
\* DELETEAllItems), up to the account's records; a look that fails deletes none.
DELETEFullLocker(c, a) ==
  /\ request[c].step = "idle" /\ FullLocker \in accountRewards(a)
  /\ request' = [request EXCEPT ![c] =
       [Knowing("withdraw", a, None, {}, {}) EXCEPT
          !.found = [k \in AllCodes |-> records[<<a, k, FullLocker>>]]]]
  /\ UNCHANGED <<codes, expired, records, redeemers, contested>>

\* A request past its look learns nothing of a deletion; the history does.
Withdrawn(q, a) ==
  IF q.step \in {"grant", "remove"} /\ q.who = a THEN [q EXCEPT !.withdrawn = TRUE] ELSE q

\* The next of the records found is deleted; it may be gone already, or the
\* delete may fail, unnoticed.
DeleteReward(c) ==
  LET q == request[c] IN
  /\ q.step = "withdraw"
  /\ \E k \in {j \in AllCodes : q.found[j] > 0} :
       LET rest == [q.found EXCEPT ![k] = @ - 1]
           after == IF rest = Nothing THEN Idle ELSE [q EXCEPT !.found = rest]
       IN
       \/ request' = [request EXCEPT ![c] = after] /\ UNCHANGED records
       \/ /\ Holds(q.who, k, FullLocker)
          /\ records' = [records EXCEPT ![<<q.who, k, FullLocker>>] = @ - 1]
          /\ request' = [d \in Slots |-> IF d = c THEN after ELSE Withdrawn(request[d], q.who)]
  /\ UNCHANGED <<codes, expired, redeemers, contested>>

\* A write fails, and the request ends with what it has done so far.
Fail(c) ==
  /\ request[c].step \in {"create", "grant", "remove"}
  /\ Finish(c)
  /\ contested' = IF request[c].step \in {"grant", "remove"} /\ request[c].code # SellAuth
                    THEN contested \union {request[c].code} ELSE contested
  /\ UNCHANGED <<codes, expired, records, redeemers>>

\* The process ends, and with it every request.
Crash ==
  /\ request # [c \in Slots |-> Idle]
  /\ contested' = contested \union
       {k \in Codes : \E c \in Serving(k) : request[c].step \in {"grant", "remove"}}
  /\ request' = [c \in Slots |-> Idle]
  /\ UNCHANGED <<codes, expired, records, redeemers>>

Next ==
  \/ \E c \in Slots, k \in Codes, worth \in SUBSET Rewards : CreateCode(c, k, worth)
  \/ \E c \in Slots, a \in Accounts, k \in Codes : Redeem(c, a, k)
  \/ \E c \in Slots, a \in Accounts : GrantFullLocker(c, a) \/ DELETEFullLocker(c, a)
  \/ \E a \in Accounts : POSTGrantFullLocker(a)
  \/ \E c \in Slots : \/ SaveCode(c) \/ Existing(c) \/ Owned(c) \/ SaveReward(c)
                      \/ RemoveCode(c) \/ DeleteReward(c) \/ Fail(c)
  \/ \E k \in Codes : Expire(k)
  \/ Crash

Spec == Init /\ [][Next]_vars
-----------------------------------------------------------------------------
(* Properties. *)

\* A code serves one account, unless redemptions of it overlap or break off
\* (the look for the code, and its deletion as the last step).
OneRedeemer ==
  \A k \in Codes : k \notin contested => Cardinality(redeemers[k]) <= 1

\* A redemption that is about to be answered has given the account every
\* reward of the code it found, whatever ran beside it: only the Full Locker may
\* be gone, and only if an administrator took it since the request's look.
RedeemedIsOwned ==
  \A c \in Slots : request[c].step = "remove" =>
    \A r \in request[c].worth :
      \/ Owns(request[c].who, r)
      \/ r = FullLocker /\ request[c].withdrawn

\* The inductive invariant: what a redemption still has to save, and what the
\* account holds or an administrator took from it, make up what the code was worth.
Accounted(q) ==
  /\ q.step # "idle" /\ q.step # "create" => q.who \in Accounts
  /\ q.step \in {"existing", "owned", "remove"} => q.code \in Codes
  /\ q.step = "create" => q.code \in Codes
  /\ q.step = "grant" => q.code \in Codes \union {SellAuth}
  /\ q.step \in {"grant", "remove"} =>
       \A r \in q.worth :
         \/ Owns(q.who, r)
         \/ q.step = "grant" /\ r \in q.todo
         \/ r = FullLocker /\ q.withdrawn
IInv == TypeOK /\ \A c \in Slots : Accounted(request[c])

\* The records of one reward that codes and webhooks gave an account, each with
\* its code; those of administrators are not bounded by anything.
RecordsOf(a, r) == UNION {{k} \X (1 .. records[<<a, k, r>>]) : k \in Codes \union {SellAuth}}

\* An account whose records could always be read has no more records of one
\* reward than requests are served at once, however often the webhook is
\* delivered and whichever codes are redeemed.
GrantsBounded ==
  \A a \in Accounts \ contested, r \in Rewards :
    Cardinality(RecordsOf(a, r)) <= Cardinality(Slots)

\* The requests about to save the reward for the account.
Granting(a, r) ==
  {c \in Slots : request[c].step = "grant" /\ request[c].who = a /\ r \in request[c].todo}

\* The strengthening of GrantsBounded: a request decides to save only while no
\* record is there, and counts from then on (the look before the save).
SlotsCover(a, r) ==
  /\ IsFiniteSet(RecordsOf(a, r))
  /\ Cardinality(RecordsOf(a, r)) + Cardinality(Granting(a, r)) <= Cardinality(Slots)
GrantsInv == \A a \in Accounts \ contested, r \in Rewards : SlotsCover(a, r)

\* The strengthening of OneRedeemer: one request serves the code, it alone has
\* taken from it, and the code is gone when that request is done.
CodeServed(k) ==
  /\ \A c, d \in Serving(k) : c = d
  /\ \A c \in Serving(k) : codes[k] # {}
  /\ codes[k] # {} =>
       redeemers[k] \subseteq
         {request[c].who : c \in {d \in Serving(k) : request[d].step \in {"grant", "remove"}}}
  /\ \E a \in Accounts \union {None} : redeemers[k] \subseteq {a}
CodesInv == \A k \in Codes \ contested : CodeServed(k)
=============================================================================
