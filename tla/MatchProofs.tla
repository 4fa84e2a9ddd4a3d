---------------------------- MODULE MatchProofs -----------------------------
(***************************************************************************)
(* Theorems about a match.  First what the players and bots hold in it,    *)
(* for any items, any stack sizes, any bar and any number of owners; then  *)
(* what its results, and the purchases and exchanges next to them, do to   *)
(* the records on the backend, for any levels, results, offers and         *)
(* exchanges and any number of requests; then its phases on the game       *)
(* server, for any players, any lengths of the phases and any number of    *)
(* safe zones.                                                             *)
(***************************************************************************)
EXTENDS Inventory, GamePhase, Progress, SequenceTheorems, FiniteSetTheorems,
        WellFoundedInduction, TLAPS

(* The inventories. *)

\* A set of numbers has a least one.
LEMMA LeastExists ==
  ASSUME NEW N, N \subseteq Nat, N # {}
  PROVE  \E m \in N : \A i \in N : m <= i
<1>1. PICK R : R = OpToRel(<, Nat)
  OBVIOUS
<1>2. IsWellFoundedOn(R, Nat)
  BY <1>1, NatLessThanWellFounded
<1>3. PICK m \in N : \A i \in N : ~(<<i, m>> \in R)
  BY <1>2, WFMin
<1>4. \A i \in N : i \in Nat /\ m \in Nat /\ ~(i < m)
  BY <1>1, <1>3 DEF OpToRel
<1>. QED  BY <1>4

\* What holds at 0 and goes on from each number to the next holds up to n.
LEMMA CountUp ==
  ASSUME NEW n \in Nat, NEW P, 0 \in P, \A i \in 1 .. n : i - 1 \in P => i \in P
  PROVE  \A i \in 0 .. n : i \in P
<1>. SUFFICES ASSUME (0 .. n) \ P # {} PROVE FALSE
  OBVIOUS
<1>1. PICK m \in (0 .. n) \ P : \A i \in (0 .. n) \ P : m <= i
  <2>. DEFINE N == (0 .. n) \ P
  <2>1. N \subseteq Nat /\ N # {}
    OBVIOUS
  <2>2. \E m \in N : \A i \in N : m <= i
    <3>. HIDE DEF N
    <3>. QED  BY <2>1, LeastExists
  <2>. QED  BY <2>2
<1>2. m \in 1 .. n /\ m - 1 \in 0 .. n /\ ~(m <= m - 1)
  BY <1>1
<1>. QED  BY <1>1, <1>2

\* g takes the steps F from start.
Runs(g, n, S, start, F) ==
  g \in [0 .. n -> S] /\ g[0] = start /\ \A i \in 1 .. n : g[i] = F[i][g[i - 1]]

\* A recursion along 0 .. n whose steps stay in a set has a value.
LEMMA StepsExist ==
  ASSUME NEW n \in Nat, NEW S, NEW start \in S, NEW F \in [1 .. n -> [S -> S]]
  PROVE  \E g : Runs(g, n, S, start, F)
<1>. DEFINE Up(m, g) == g[0] = start /\ \A i \in 1 .. m : g[i] = F[i][g[i - 1]]
            P == {m \in 0 .. n : \E g \in [0 .. m -> S] : Up(m, g)}
<1>1. 0 \in P
  <2>1. [i \in 0 .. 0 |-> start] \in [0 .. 0 -> S] /\ Up(0, [i \in 0 .. 0 |-> start])
    OBVIOUS
  <2>. HIDE DEF Up
  <2>. QED  BY <2>1
<1>2. ASSUME NEW m \in 1 .. n, m - 1 \in P PROVE m \in P
  <2>1. PICK g \in [0 .. m - 1 -> S] : Up(m - 1, g)
    BY <1>2
  <2>. DEFINE h == [i \in 0 .. m |-> IF i = m THEN F[m][g[m - 1]] ELSE g[i]]
  <2>2. h \in [0 .. m -> S]
    <3>1. g[m - 1] \in S /\ F[m] \in [S -> S]
      OBVIOUS
    <3>. QED  BY <3>1
  <2>3. Up(m, h)
    <3>1. h[0] = start
      BY <2>1
    <3>2. ASSUME NEW i \in 1 .. m PROVE h[i] = F[i][h[i - 1]]
      <4>1. CASE i = m
        BY <4>1
      <4>2. CASE i # m
        <5>1. i \in 1 .. m - 1 /\ i - 1 \in 0 .. m /\ i - 1 # m /\ i \in 0 .. m
          BY <4>2
        <5>2. g[i] = F[i][g[i - 1]]
          BY <2>1, <5>1
        <5>. QED  BY <4>2, <5>1, <5>2
      <4>. QED  BY <4>1, <4>2
    <3>. QED  BY <3>1, <3>2
  <2>4. m \in 0 .. n
    OBVIOUS
  <2>. HIDE DEF Up, h
  <2>. QED  BY <2>2, <2>3, <2>4
<1>3. n \in P
  <2>. HIDE DEF P
  <2>1. \A i \in 1 .. n : i - 1 \in P => i \in P
    BY <1>2
  <2>2. \A i \in 0 .. n : i \in P
    BY <1>1, <2>1, CountUp
  <2>3. n \in 0 .. n
    OBVIOUS
  <2>. QED  BY <2>2, <2>3
<1>. QED  BY <1>3 DEF Runs

(* Removing an element. *)

\* The others keep their order.
LEMMA Removal ==
  ASSUME NEW S, NEW seq \in Seq(S), NEW k \in 1 .. Len(seq)
  PROVE  /\ Seqs!RemoveAt(seq, k) \in Seq(S)
         /\ Len(Seqs!RemoveAt(seq, k)) = Len(seq) - 1
         /\ \A j \in 1 .. Len(seq) - 1 :
              Seqs!RemoveAt(seq, k)[j] = IF j < k THEN seq[j] ELSE seq[j + 1]
<1>. DEFINE before == SubSeq(seq, 1, k - 1)
            after == SubSeq(seq, k + 1, Len(seq))
<1>1. /\ before \in Seq(S) /\ Len(before) = k - 1
      /\ \A j \in 1 .. k - 1 : before[j] = seq[j]
  <2>1. \A i \in 1 .. k - 1 : seq[i] \in S
    OBVIOUS
  <2>. QED  BY <2>1, SubSeqProperties
<1>2. /\ after \in Seq(S) /\ Len(after) = Len(seq) - k
      /\ \A j \in 1 .. Len(seq) - k : after[j] = seq[k + j]
  <2>1. \A i \in k + 1 .. Len(seq) : seq[i] \in S
    OBVIOUS
  <2>. QED  BY <2>1, SubSeqProperties
<1>3. Seqs!RemoveAt(seq, k) = before \o after
  BY DEF Seqs!RemoveAt
<1>. HIDE DEF before, after
<1>4. /\ before \o after \in Seq(S) /\ Len(before \o after) = Len(seq) - 1
      /\ \A j \in 1 .. Len(seq) - 1 :
           (before \o after)[j] = IF j <= k - 1 THEN before[j] ELSE after[j - (k - 1)]
  <2>1. /\ before \o after \in Seq(S) /\ Len(before \o after) = Len(before) + Len(after)
        /\ \A j \in 1 .. Len(before) + Len(after) : (before \o after)[j] =
              IF j <= Len(before) THEN before[j] ELSE after[j - Len(before)]
    BY <1>1, <1>2, ConcatProperties
  <2>2. Len(before) = k - 1 /\ Len(after) = Len(seq) - k /\ Len(before) + Len(after) = Len(seq) - 1
    BY <1>1, <1>2
  <2>. QED  BY <2>1, <2>2
<1>5. ASSUME NEW j \in 1 .. Len(seq) - 1
      PROVE  (before \o after)[j] = IF j < k THEN seq[j] ELSE seq[j + 1]
  <2>1. CASE j < k
    BY <1>1, <1>4, <2>1
  <2>2. CASE ~(j < k)
    <3>1. j - (k - 1) \in 1 .. Len(seq) - k /\ k + (j - (k - 1)) = j + 1 /\ ~(j <= k - 1)
      BY <2>2
    <3>. QED  BY <1>2, <1>4, <2>2, <3>1
  <2>. QED  BY <2>1, <2>2
<1>. QED  BY <1>3, <1>4, <1>5

(* Sums. *)

\* The recursion has a value, and that value is of the right type.
Adds(g, n, f) == g \in [0 .. n -> Int] /\ g[0] = 0 /\ \A i \in 1 .. n : g[i] = g[i - 1] + f[i]

\* The partial sums exist, and the last of them is the sum.
LEMMA SumSteps ==
  ASSUME NEW n \in Nat, NEW f, \A i \in 1 .. n : f[i] \in Int
  PROVE  \E g : Adds(g, n, f) /\ Sum(f, n) = g[n]
<1>. DEFINE F == [i \in 1 .. n |-> [x \in Int |-> x + f[i]]]
            D(g) == g = [i \in 0 .. n |-> IF i = 0 THEN 0 ELSE g[i - 1] + f[i]]
<1>1. F \in [1 .. n -> [Int -> Int]]
  OBVIOUS
<1>2. PICK g : Runs(g, n, Int, 0, F)
  <2>1. 0 \in Int
    OBVIOUS
  <2>. HIDE DEF F
  <2>. QED  BY <1>1, <2>1, StepsExist
<1>3. \A i \in 1 .. n : g[i] = g[i - 1] + f[i]
  <2>. TAKE i \in 1 .. n
  <2>1. i - 1 \in 0 .. n /\ g[i - 1] \in Int
    BY <1>2 DEF Runs
  <2>. QED  BY <1>2, <2>1 DEF Runs
<1>4. D(g)
  <2>1. g \in [0 .. n -> Int] /\ g[0] = 0
    BY <1>2 DEF Runs
  <2>. QED  BY <1>3, <2>1
<1>5. D(CHOOSE s : D(s))
  <2>. HIDE DEF D
  <2>. QED  BY <1>4
<1>6. PICK s : s = (CHOOSE x : D(x))
  OBVIOUS
<1>7. Sum(f, n) = s[n] /\ D(s)
  BY <1>5, <1>6 DEF Sum
<1>8. \A i \in 0 .. n : s[i] = g[i]
  <2>. DEFINE P == {i \in 0 .. n : s[i] = g[i]}
  <2>1. 0 \in P
    BY <1>2, <1>7 DEF Runs
  <2>2. \A i \in 1 .. n : i - 1 \in P => i \in P
    <3>1. \A i \in 1 .. n : s[i] = s[i - 1] + f[i] /\ i \in 0 .. n
      BY <1>7
    <3>. QED  BY <1>3, <3>1
  <2>3. \A i \in 0 .. n : i \in P
    <3>. HIDE DEF P
    <3>. QED  BY <2>1, <2>2, CountUp
  <2>. QED  BY <2>3
<1>9. Sum(f, n) = g[n]
  <2>1. n \in 0 .. n
    OBVIOUS
  <2>. QED  BY <1>7, <1>8, <2>1
<1>. QED  BY <1>2, <1>3, <1>9 DEF Runs, Adds

\* A sum of no numbers is 0.
LEMMA SumOfNone == ASSUME NEW f PROVE Sum(f, 0) = 0
<1>1. PICK g : Adds(g, 0, f) /\ Sum(f, 0) = g[0]
  BY SumSteps
<1>. QED  BY <1>1 DEF Adds

\* One more number adds itself.
LEMMA SumNext ==
  ASSUME NEW n \in Nat, NEW f, \A i \in 1 .. n + 1 : f[i] \in Int
  PROVE  Sum(f, n) \in Int /\ Sum(f, n + 1) = Sum(f, n) + f[n + 1]
<1>1. PICK g : Adds(g, n, f) /\ Sum(f, n) = g[n]
  <2>1. \A i \in 1 .. n : f[i] \in Int
    OBVIOUS
  <2>. QED  BY <2>1, SumSteps
<1>2. PICK h : Adds(h, n + 1, f) /\ Sum(f, n + 1) = h[n + 1]
  <2>1. n + 1 \in Nat
    OBVIOUS
  <2>. QED  BY <2>1, SumSteps
<1>3. \A i \in 0 .. n : h[i] = g[i]
  <2>. DEFINE P == {i \in 0 .. n : h[i] = g[i]}
  <2>1. 0 \in P /\ \A i \in 1 .. n : i - 1 \in P => i \in P
    BY <1>1, <1>2 DEF Adds
  <2>2. \A i \in 0 .. n : i \in P
    <3>. HIDE DEF P
    <3>. QED  BY <2>1, CountUp
  <2>. QED  BY <2>2
<1>4. h[n + 1] = h[n] + f[n + 1] /\ h[n] = g[n] /\ g[n] \in Int
  <2>1. n + 1 \in 1 .. n + 1 /\ n \in 0 .. n /\ (n + 1) - 1 = n
    OBVIOUS
  <2>. QED  BY <1>1, <1>2, <1>3, <2>1 DEF Adds
<1>. QED  BY <1>1, <1>2, <1>4

\* A sum of integers is one.
LEMMA SumTyped ==
  ASSUME NEW n \in Nat, NEW f, \A i \in 1 .. n : f[i] \in Int
  PROVE  Sum(f, n) \in Int
<1>1. PICK g : Adds(g, n, f) /\ Sum(f, n) = g[n]
  BY SumSteps
<1>. QED  BY <1>1 DEF Adds

\* Sums of the same numbers are the same.
LEMMA SumSame ==
  ASSUME NEW n \in Nat, NEW f, NEW g, \A i \in 1 .. n : f[i] \in Int /\ f[i] = g[i]
  PROVE  Sum(f, n) = Sum(g, n)
<1>. DEFINE P == {m \in 0 .. n : Sum(f, m) = Sum(g, m)}
<1>1. 0 \in P
  BY SumOfNone
<1>2. ASSUME NEW m \in 1 .. n, m - 1 \in P PROVE m \in P
  <2>1. m - 1 \in Nat /\ (m - 1) + 1 = m
    OBVIOUS
  <2>2. \A i \in 1 .. (m - 1) + 1 : f[i] \in Int /\ g[i] \in Int /\ f[i] = g[i]
    OBVIOUS
  <2>3. Sum(f, (m - 1) + 1) = Sum(f, m - 1) + f[(m - 1) + 1]
    BY <2>1, <2>2, SumNext
  <2>4. Sum(g, (m - 1) + 1) = Sum(g, m - 1) + g[(m - 1) + 1]
    BY <2>1, <2>2, SumNext
  <2>. QED  BY <1>2, <2>1, <2>2, <2>3, <2>4
<1>3. \A m \in 0 .. n : m \in P
  <2>. HIDE DEF P
  <2>. QED  BY <1>1, <1>2, CountUp
<1>. QED  BY <1>3

\* One of the numbers is another.
DifferAt(f, g, n, k) ==
  /\ n \in Nat /\ k \in 1 .. n
  /\ \A i \in 1 .. n : f[i] \in Int /\ g[i] \in Int /\ (i # k => f[i] = g[i])

\* A sum changes by as much as that number.
LEMMA SumChanged ==
  ASSUME NEW n, NEW f, NEW g, NEW k, DifferAt(f, g, n, k)
  PROVE  Sum(g, n) = Sum(f, n) - f[k] + g[k]
<1>. USE DEF DifferAt
<1>. DEFINE P == {m \in 0 .. n : Sum(g, m) = IF m < k THEN Sum(f, m) ELSE Sum(f, m) - f[k] + g[k]}
<1>1. 0 \in P
  BY SumOfNone
<1>2. ASSUME NEW m \in 1 .. n, m - 1 \in P PROVE m \in P
  <2>1. m - 1 \in Nat /\ (m - 1) + 1 = m
    OBVIOUS
  <2>2. \A i \in 1 .. (m - 1) + 1 : f[i] \in Int /\ g[i] \in Int
    OBVIOUS
  <2>3. Sum(f, m - 1) \in Int /\ Sum(f, (m - 1) + 1) = Sum(f, m - 1) + f[(m - 1) + 1]
    BY <2>1, <2>2, SumNext
  <2>4. Sum(g, m - 1) \in Int /\ Sum(g, (m - 1) + 1) = Sum(g, m - 1) + g[(m - 1) + 1]
    BY <2>1, <2>2, SumNext
  <2>. QED  BY <1>2, <2>1, <2>2, <2>3, <2>4
<1>3. \A m \in 0 .. n : m \in P
  <2>. HIDE DEF P
  <2>. QED  BY <1>1, <1>2, CountUp
<1>. QED  BY <1>3

\* One of the numbers is left out.
LEMMA SumWithout ==
  ASSUME NEW n \in Nat, NEW f, NEW g, NEW k \in 1 .. n,
         \A i \in 1 .. n : f[i] \in Int,
         \A i \in 1 .. n - 1 : g[i] = IF i < k THEN f[i] ELSE f[i + 1]
  PROVE  Sum(g, n - 1) = Sum(f, n) - f[k]
<1>. DEFINE P == {m \in 0 .. n - 1 : Sum(g, m) = IF m < k THEN Sum(f, m) ELSE Sum(f, m + 1) - f[k]}
<1>1. 0 \in P
  BY SumOfNone
<1>2. ASSUME NEW m \in 1 .. n - 1, m - 1 \in P PROVE m \in P
  <2>1. m - 1 \in Nat /\ (m - 1) + 1 = m /\ m \in Nat
    OBVIOUS
  <2>2. \A i \in 1 .. m + 1 : f[i] \in Int
    OBVIOUS
  <2>3. \A i \in 1 .. (m - 1) + 1 : f[i] \in Int /\ g[i] \in Int
    OBVIOUS
  <2>4. Sum(f, m - 1) \in Int /\ Sum(f, (m - 1) + 1) = Sum(f, m - 1) + f[(m - 1) + 1]
    BY <2>1, <2>3, SumNext
  <2>5. Sum(g, m - 1) \in Int /\ Sum(g, (m - 1) + 1) = Sum(g, m - 1) + g[(m - 1) + 1]
    BY <2>1, <2>3, SumNext
  <2>6. Sum(f, m) \in Int /\ Sum(f, m + 1) = Sum(f, m) + f[m + 1]
    BY <2>1, <2>2, SumNext
  <2>7. f[k] \in Int /\ f[m] \in Int /\ f[m + 1] \in Int /\ g[m] = IF m < k THEN f[m] ELSE f[m + 1]
    BY <2>2
  <2>. QED  BY <1>2, <2>1, <2>4, <2>5, <2>6, <2>7
<1>3. \A m \in 0 .. n - 1 : m \in P
  <2>1. n - 1 \in Nat
    OBVIOUS
  <2>. HIDE DEF P
  <2>. QED  BY <1>1, <1>2, <2>1, CountUp
<1>4. CASE n - 1 < k
  <2>1. n = (n - 1) + 1 /\ n - 1 \in Nat /\ k = n
    BY <1>4
  <2>2. Sum(f, n - 1) \in Int /\ Sum(f, (n - 1) + 1) = Sum(f, n - 1) + f[(n - 1) + 1]
    BY <2>1, SumNext
  <2>. QED  BY <1>3, <2>1, <2>2
<1>5. CASE ~(n - 1 < k)
  <2>1. (n - 1) + 1 = n /\ n - 1 \in 0 .. n - 1
    OBVIOUS
  <2>. QED  BY <1>3, <1>5, <2>1
<1>. QED  BY <1>4, <1>5

\* What is nothing comes to nothing.
LEMMA SumOfZeros ==
  ASSUME NEW n \in Nat, NEW f, \A i \in 1 .. n : f[i] = 0
  PROVE  Sum(f, n) = 0
<1>. DEFINE P == {m \in 0 .. n : Sum(f, m) = 0}
<1>1. 0 \in P
  BY SumOfNone
<1>2. ASSUME NEW m \in 1 .. n, m - 1 \in P PROVE m \in P
  <2>1. m - 1 \in Nat /\ (m - 1) + 1 = m /\ \A i \in 1 .. (m - 1) + 1 : f[i] \in Int
    OBVIOUS
  <2>2. Sum(f, (m - 1) + 1) = Sum(f, m - 1) + f[(m - 1) + 1]
    BY <2>1, SumNext
  <2>. QED  BY <1>2, <2>1, <2>2
<1>3. \A m \in 0 .. n : m \in P
  <2>. HIDE DEF P
  <2>. QED  BY <1>1, <1>2, CountUp
<1>. QED  BY <1>3

(* Amounts of stacks and of pickups. *)

\* What e holds of d.
Val(d, e) == IF e.def = d THEN e.count ELSE 0

\* An amount is a number.
LEMMA AmountTyped ==
  ASSUME NEW S, \A e \in S : e.count \in Int, NEW seq \in Seq(S), NEW d
  PROVE  Amount(d, seq) \in Int
<1>. DEFINE f == [i \in DOMAIN seq |-> IF seq[i].def = d THEN seq[i].count ELSE 0]
<1>1. \A i \in 1 .. Len(seq) : f[i] \in Int
  OBVIOUS
<1>2. Len(seq) \in Nat
  OBVIOUS
<1>3. Sum(f, Len(seq)) \in Int
  <2>. HIDE DEF f
  <2>. QED  BY <1>1, <1>2, SumTyped
<1>. QED  BY <1>3 DEF Amount

\* Nothing is in no stacks.
LEMMA AmountOfNone == ASSUME NEW d PROVE Amount(d, <<>>) = 0
<1>1. Len(<<>>) = 0
  OBVIOUS
<1>. QED  BY <1>1, SumOfNone DEF Amount

\* Stacks of other definitions hold nothing of d.
LEMMA AmountAbsent ==
  ASSUME NEW S, NEW seq \in Seq(S), NEW d, \A i \in DOMAIN seq : seq[i].def # d
  PROVE  Amount(d, seq) = 0
<1>. DEFINE f == [i \in DOMAIN seq |-> IF seq[i].def = d THEN seq[i].count ELSE 0]
<1>1. Len(seq) \in Nat /\ \A i \in 1 .. Len(seq) : f[i] = 0
  OBVIOUS
<1>2. Sum(f, Len(seq)) = 0
  <2>. HIDE DEF f
  <2>. QED  BY <1>1, SumOfZeros
<1>. QED  BY <1>2 DEF Amount

\* A stack at the end adds its count.
LEMMA AmountAppended ==
  ASSUME NEW S, \A e \in S : e.count \in Int, NEW seq \in Seq(S), NEW e \in S, NEW d
  PROVE  Amount(d, Append(seq, e)) = Amount(d, seq) + Val(d, e)
<1>. DEFINE new == Append(seq, e)
            f == [i \in DOMAIN seq |-> IF seq[i].def = d THEN seq[i].count ELSE 0]
            g == [i \in DOMAIN new |-> IF new[i].def = d THEN new[i].count ELSE 0]
            n == Len(seq)
<1>1. /\ n \in Nat /\ Len(new) = n + 1 /\ new \in Seq(S)
      /\ \A i \in 1 .. n : new[i] = seq[i]
      /\ new[n + 1] = e
  OBVIOUS
<1>2. DOMAIN new = 1 .. n + 1 /\ DOMAIN seq = 1 .. n
  BY <1>1
<1>3. \A i \in 1 .. n : f[i] \in Int /\ f[i] = g[i]
  <2>. HIDE DEF new, n
  <2>1. \A i \in 1 .. n : seq[i] \in S /\ i \in 1 .. n + 1
    BY <1>1, <1>2
  <2>. QED  BY <1>1, <1>2, <2>1
<1>4. g[n + 1] = Val(d, e) /\ g[n + 1] \in Int
  <2>. HIDE DEF new, n
  <2>1. n + 1 \in 1 .. n + 1
    BY <1>1
  <2>. QED  BY <1>1, <1>2, <2>1 DEF Val
<1>5. \A i \in 1 .. n + 1 : g[i] \in Int
  <2>. HIDE DEF new, n, f, g
  <2>. QED  BY <1>1, <1>3, <1>4
<1>6. Amount(d, new) = Sum(g, n + 1) /\ Amount(d, seq) = Sum(f, n)
  <2>. HIDE DEF new
  <2>. QED  BY <1>1 DEF Amount
<1>7. Sum(g, n + 1) = Sum(g, n) + g[n + 1]
  <2>. HIDE DEF g, n, f, new
  <2>. QED  BY <1>1, <1>5, SumNext
<1>8. Sum(f, n) = Sum(g, n)
  <2>. HIDE DEF g, n, f, new
  <2>. QED  BY <1>1, <1>3, SumSame
<1>. HIDE DEF g, n, f, new
<1>9. Amount(d, new) = Amount(d, seq) + Val(d, e)
  BY <1>4, <1>6, <1>7, <1>8
<1>. QED  BY <1>9 DEF new

\* A stack that goes takes its count along.
LEMMA AmountRemoved ==
  ASSUME NEW S, \A e \in S : e.count \in Int, NEW seq \in Seq(S), NEW k \in DOMAIN seq, NEW d
  PROVE  Amount(d, Seqs!RemoveAt(seq, k)) = Amount(d, seq) - Val(d, seq[k])
<1>. DEFINE new == Seqs!RemoveAt(seq, k)
            f == [i \in DOMAIN seq |-> IF seq[i].def = d THEN seq[i].count ELSE 0]
            g == [i \in DOMAIN new |-> IF new[i].def = d THEN new[i].count ELSE 0]
            n == Len(seq)
<1>1. /\ n \in Nat /\ Len(new) = n - 1 /\ new \in Seq(S) /\ k \in 1 .. n
      /\ \A i \in 1 .. n - 1 : new[i] = IF i < k THEN seq[i] ELSE seq[i + 1]
  <2>1. k \in 1 .. Len(seq) /\ Len(seq) \in Nat
    OBVIOUS
  <2>2. /\ Seqs!RemoveAt(seq, k) \in Seq(S)
        /\ Len(Seqs!RemoveAt(seq, k)) = Len(seq) - 1
        /\ \A j \in 1 .. Len(seq) - 1 :
              Seqs!RemoveAt(seq, k)[j] = IF j < k THEN seq[j] ELSE seq[j + 1]
    BY <2>1, Removal
  <2>. QED  BY <2>1, <2>2
<1>. HIDE DEF new, n
<1>2. DOMAIN new = 1 .. n - 1 /\ DOMAIN seq = 1 .. n
  BY <1>1 DEF n
<1>3. \A i \in 1 .. n : f[i] \in Int
  <2>1. \A i \in 1 .. n : seq[i] \in S
    BY DEF n
  <2>. QED  BY <1>2, <2>1
<1>4. \A i \in 1 .. n - 1 : g[i] = IF i < k THEN f[i] ELSE f[i + 1]
  BY <1>1, <1>2
<1>5. f[k] = Val(d, seq[k])
  BY <1>2 DEF Val
<1>6. Amount(d, new) = Sum(g, n - 1) /\ Amount(d, seq) = Sum(f, n)
  BY <1>1 DEF Amount, n
<1>. HIDE DEF f, g
<1>7. Sum(g, n - 1) = Sum(f, n) - f[k]
  BY <1>1, <1>3, <1>4, SumWithout
<1>8. Amount(d, new) = Amount(d, seq) - Val(d, seq[k])
  BY <1>5, <1>6, <1>7
<1>. QED  BY <1>8 DEF new

\* A stack that becomes e changes the amount by the difference.
LEMMA AmountSet ==
  ASSUME NEW S, \A e \in S : e.count \in Int, NEW seq \in Seq(S), NEW k \in DOMAIN seq,
         NEW e \in S, NEW d
  PROVE  Amount(d, [seq EXCEPT ![k] = e]) = Amount(d, seq) - Val(d, seq[k]) + Val(d, e)
<1>. DEFINE new == [seq EXCEPT ![k] = e]
            f == [i \in DOMAIN seq |-> IF seq[i].def = d THEN seq[i].count ELSE 0]
            g == [i \in DOMAIN new |-> IF new[i].def = d THEN new[i].count ELSE 0]
            n == Len(seq)
<1>1. /\ n \in Nat /\ Len(new) = n /\ new \in Seq(S) /\ k \in 1 .. n
      /\ \A i \in 1 .. n : new[i] = IF i = k THEN e ELSE seq[i]
  OBVIOUS
<1>. HIDE DEF new, n
<1>2. DOMAIN new = 1 .. n /\ DOMAIN seq = 1 .. n
  BY <1>1 DEF n
<1>3. DifferAt(f, g, n, k)
  <2>1. \A i \in 1 .. n : seq[i] \in S /\ new[i] \in S
    BY <1>1, <1>2
  <2>2. \A i \in 1 .. n : f[i] \in Int /\ g[i] \in Int
    BY <1>2, <2>1
  <2>3. \A i \in 1 .. n : i # k => f[i] = g[i]
    BY <1>1, <1>2
  <2>. QED  BY <1>1, <2>2, <2>3 DEF DifferAt
<1>4. f[k] = Val(d, seq[k]) /\ g[k] = Val(d, e)
  BY <1>1, <1>2 DEF Val
<1>5. Amount(d, new) = Sum(g, n) /\ Amount(d, seq) = Sum(f, n)
  BY <1>1 DEF Amount, n
<1>. HIDE DEF f, g
<1>6. Sum(g, n) = Sum(f, n) - f[k] + g[k]
  BY <1>3, SumChanged
<1>7. Amount(d, new) = Amount(d, seq) - Val(d, seq[k]) + Val(d, e)
  BY <1>4, <1>5, <1>6
<1>. QED  BY <1>7 DEF new

(* What stacks weigh. *)

\* A weight is a number.
LEMMA WeighTyped ==
  ASSUME NEW w \in [Defs -> Int], NEW seq \in Seq(Stack)
  PROVE  Weigh(w, seq) \in Int
<1>. DEFINE f == [i \in DOMAIN seq |-> w[seq[i].def]]
<1>1. Len(seq) \in Nat /\ \A i \in 1 .. Len(seq) : f[i] \in Int
  <2>1. \A i \in 1 .. Len(seq) : seq[i] \in Stack /\ i \in DOMAIN seq
    OBVIOUS
  <2>. QED  BY <2>1 DEF Stack
<1>2. Sum(f, Len(seq)) \in Int
  <2>. HIDE DEF f
  <2>. QED  BY <1>1, SumTyped
<1>. QED  BY <1>2 DEF Weigh

\* Stacks of the same definitions weigh the same.
LEMMA WeighSame ==
  ASSUME NEW w \in [Defs -> Int], NEW seq \in Seq(Stack), NEW new \in Seq(Stack),
         Len(new) = Len(seq), \A i \in 1 .. Len(seq) : new[i].def = seq[i].def
  PROVE  Weigh(w, new) = Weigh(w, seq)
<1>. DEFINE f == [i \in DOMAIN seq |-> w[seq[i].def]]
            g == [i \in DOMAIN new |-> w[new[i].def]]
<1>1. /\ Len(seq) \in Nat /\ DOMAIN seq = 1 .. Len(seq) /\ DOMAIN new = 1 .. Len(seq)
      /\ \A i \in 1 .. Len(seq) : seq[i] \in Stack
  OBVIOUS
<1>2. \A i \in 1 .. Len(seq) : f[i] \in Int /\ f[i] = g[i]
  BY <1>1 DEF Stack
<1>3. Sum(f, Len(seq)) = Sum(g, Len(seq))
  <2>. HIDE DEF f, g
  <2>. QED  BY <1>1, <1>2, SumSame
<1>. QED  BY <1>3 DEF Weigh

\* A stack at the end adds its weight.
LEMMA WeighAppended ==
  ASSUME NEW w \in [Defs -> Int], NEW seq \in Seq(Stack), NEW e \in Stack
  PROVE  Weigh(w, Append(seq, e)) = Weigh(w, seq) + w[e.def]
<1>. DEFINE new == Append(seq, e)
            f == [i \in DOMAIN seq |-> w[seq[i].def]]
            g == [i \in DOMAIN new |-> w[new[i].def]]
            n == Len(seq)
<1>1. /\ n \in Nat /\ Len(new) = n + 1 /\ new \in Seq(Stack)
      /\ \A i \in 1 .. n : new[i] = seq[i]
      /\ new[n + 1] = e
  OBVIOUS
<1>2. DOMAIN new = 1 .. n + 1 /\ DOMAIN seq = 1 .. n
  BY <1>1
<1>. HIDE DEF new, n
<1>3. \A i \in 1 .. n + 1 : g[i] \in Int
  <2>1. \A i \in 1 .. n + 1 : new[i] \in Stack
    BY <1>1, <1>2
  <2>. QED  BY <1>2, <2>1 DEF Stack
<1>4. \A i \in 1 .. n : g[i] \in Int /\ g[i] = f[i]
  <2>1. \A i \in 1 .. n : i \in 1 .. n + 1 /\ i \in 1 .. n
    BY <1>1
  <2>. QED  BY <1>1, <1>2, <1>3, <2>1
<1>5. g[n + 1] = w[e.def]
  <2>1. n + 1 \in 1 .. n + 1
    BY <1>1
  <2>. QED  BY <1>1, <1>2, <2>1
<1>6. Weigh(w, new) = Sum(g, n + 1) /\ Weigh(w, seq) = Sum(f, n)
  BY <1>1 DEF Weigh, n
<1>. HIDE DEF f, g
<1>7. Sum(g, n + 1) = Sum(g, n) + g[n + 1]
  BY <1>1, <1>3, SumNext
<1>8. Sum(g, n) = Sum(f, n)
  BY <1>1, <1>4, SumSame
<1>9. Weigh(w, new) = Weigh(w, seq) + w[e.def]
  BY <1>5, <1>6, <1>7, <1>8
<1>. QED  BY <1>9 DEF new

\* A stack that goes takes its weight along.
LEMMA WeighRemoved ==
  ASSUME NEW w \in [Defs -> Int], NEW seq \in Seq(Stack), NEW k \in 1 .. Len(seq)
  PROVE  Weigh(w, Seqs!RemoveAt(seq, k)) = Weigh(w, seq) - w[seq[k].def]
<1>. DEFINE new == Seqs!RemoveAt(seq, k)
            f == [i \in DOMAIN seq |-> w[seq[i].def]]
            g == [i \in DOMAIN new |-> w[new[i].def]]
            n == Len(seq)
<1>1. /\ new \in Seq(Stack) /\ Len(new) = Len(seq) - 1
      /\ \A j \in 1 .. Len(seq) - 1 : new[j] = IF j < k THEN seq[j] ELSE seq[j + 1]
  BY Removal
<1>2. n \in Nat /\ DOMAIN seq = 1 .. n /\ k \in 1 .. n /\ \A i \in 1 .. n : seq[i] \in Stack
  OBVIOUS
<1>. HIDE DEF new
<1>3. DOMAIN new = 1 .. n - 1 /\ Len(new) = n - 1
  BY <1>1
<1>4. \A j \in 1 .. n - 1 : new[j] = IF j < k THEN seq[j] ELSE seq[j + 1]
  BY <1>1
<1>. HIDE DEF n
<1>5. \A i \in 1 .. n : f[i] \in Int
  BY <1>2 DEF Stack
<1>6. \A i \in 1 .. n - 1 : g[i] = IF i < k THEN f[i] ELSE f[i + 1]
  <2>. TAKE i \in 1 .. n - 1
  <2>1. i \in 1 .. n /\ i + 1 \in 1 .. n
    BY <1>2
  <2>. QED  BY <1>2, <1>3, <1>4, <2>1
<1>7. f[k] = w[seq[k].def]
  BY <1>2
<1>8. Weigh(w, new) = Sum(g, n - 1) /\ Weigh(w, seq) = Sum(f, n)
  BY <1>3 DEF Weigh, n
<1>. HIDE DEF f, g
<1>9. Sum(g, n - 1) = Sum(f, n) - f[k]
  BY <1>2, <1>5, <1>6, SumWithout
<1>10. Weigh(w, new) = Weigh(w, seq) - w[seq[k].def]
  BY <1>7, <1>8, <1>9
<1>. QED  BY <1>10 DEF new

(* What the hooks work on. *)

Pickups == [def : Defs, count : Nat]
States == [items : Seq(Stack), room : Nat, hand : Hand \union {Unarmed}, ground : Seq(Pickups),
           ledger : [Defs -> Int]]

\* What is in hand is at its place; the copies agree; a good inventory.
HandFits(h, seq) == h # Unarmed /\ h.at # 0 => h.at <= Len(seq) /\ h.def = seq[h.at].def
Agree(seq) == \A k \in DOMAIN seq : seq[k].count = seq[k].inst

Good(s) ==
  s \in States /\ Len(s.items) <= s.room /\ HandFits(s.hand, s.items) /\ Agree(s.items)

\* What is there of d less what should be.
Balance(s, d) == Amount(d, s.items) + Amount(d, s.ground) - s.ledger[d]

\* From s to t, n of d appear out of nothing.
Gains(s, t, d, n) ==
  \A x \in Defs : Balance(t, x) = Balance(s, x) + (IF x = d THEN n ELSE 0)

\* The numbers of a state.
LEMMA StateTyped ==
  ASSUME NEW s, s \in States, NEW d \in Defs
  PROVE  /\ Amount(d, s.items) \in Int /\ Amount(d, s.ground) \in Int /\ s.ledger[d] \in Int
         /\ Balance(s, d) \in Int
<1>1. /\ \A e \in Stack : e.count \in Int
      /\ \A e \in Pickups : e.count \in Int
      /\ s.items \in Seq(Stack) /\ s.ground \in Seq(Pickups) /\ s.ledger[d] \in Int
  BY DEF States, Stack, Pickups
<1>2. Amount(d, s.items) \in Int
  BY <1>1, AmountTyped
<1>3. Amount(d, s.ground) \in Int
  BY <1>1, AmountTyped
<1>. QED  BY <1>1, <1>2, <1>3 DEF Balance

\* GiveItem keeps an inventory good and adds n of d.
LEMMA Given ==
  ASSUME NEW s, Good(s), NEW d \in Defs, NEW n \in Nat
  PROVE  Good(Give(s, d, n)) /\ Gains(s, Give(s, d, n), d, n)
<1>1. CASE n = 0
  <2>1. Give(s, d, n) = s
    BY <1>1 DEF Give
  <2>2. \A x \in Defs : Balance(s, x) \in Int
    BY StateTyped DEF Good
  <2>. QED  BY <1>1, <2>1, <2>2 DEF Gains
<1>2. CASE n # 0
  <2>. DEFINE t == Give(s, d, n)
              e == Full(d, n)
  <2>1. s \in States /\ e \in Stack /\ e.def = d /\ e.count = n /\ e.inst = n
    BY DEF Good, Full, Stack
  <2>2. /\ t = [s EXCEPT !.items = Append(@, e),
                         !.room = IF @ > Len(s.items) THEN @ ELSE Len(s.items) + 1]
        /\ Append(s.items, e) \in Seq(Stack)
        /\ (IF s.room > Len(s.items) THEN s.room ELSE Len(s.items) + 1) \in Nat
    <3>. HIDE DEF e
    <3>. QED  BY <1>2, <2>1 DEF Give, States, e
  <2>3. /\ t \in States /\ t.items = Append(s.items, e) /\ t.hand = s.hand
        /\ t.ground = s.ground /\ t.ledger = s.ledger
        /\ t.room = IF s.room > Len(s.items) THEN s.room ELSE Len(s.items) + 1
    <3>. HIDE DEF t, e
    <3>. QED  BY <2>1, <2>2 DEF States
  <2>4. /\ s.items \in Seq(Stack) /\ Len(t.items) = Len(s.items) + 1 /\ Len(s.items) \in Nat
        /\ \A k \in 1 .. Len(s.items) : t.items[k] = s.items[k]
        /\ t.items[Len(s.items) + 1] = e
    <3>1. s.items \in Seq(Stack)
      BY <2>1 DEF States
    <3>. HIDE DEF t, e
    <3>. QED  BY <2>1, <2>3, <3>1
  <2>. HIDE DEF t, e
  <2>5. Len(t.items) <= t.room
    BY <2>3, <2>4 DEF States
  <2>6. HandFits(t.hand, t.items)
    <3>1. HandFits(s.hand, s.items) /\ s.hand \in Hand \union {Unarmed}
      BY <2>1 DEF Good, States
    <3>. QED  BY <2>3, <2>4, <3>1 DEF HandFits, Hand
  <2>7. Agree(t.items)
    <3>1. Agree(s.items)
      BY DEF Good
    <3>2. DOMAIN t.items = 1 .. Len(s.items) + 1 /\ DOMAIN s.items = 1 .. Len(s.items)
      BY <2>3, <2>4 DEF States
    <3>. QED  BY <2>1, <2>4, <3>1, <3>2 DEF Agree
  <2>8. ASSUME NEW x \in Defs PROVE Balance(t, x) = Balance(s, x) + (IF x = d THEN n ELSE 0)
    <3>1. \A y \in Stack : y.count \in Int
      BY DEF Stack
    <3>2. Amount(x, t.items) = Amount(x, s.items) + Val(x, e)
      BY <2>1, <2>3, <2>4, <3>1, AmountAppended
    <3>3. Val(x, e) = IF x = d THEN n ELSE 0
      BY <2>1 DEF Val
    <3>4. Amount(x, s.items) \in Int /\ Amount(x, s.ground) \in Int /\ s.ledger[x] \in Int
      BY <2>1, StateTyped
    <3>. QED  BY <2>3, <3>2, <3>3, <3>4 DEF Balance
  <2>9. Good(t) /\ Gains(s, t, d, n)
    BY <2>3, <2>5, <2>6, <2>7, <2>8 DEF Good, Gains
  <2>. QED  BY <2>9 DEF t
<1>. QED  BY <1>1, <1>2

\* Remove keeps an inventory good, the hand with it, and takes the count of the
\* stack.
LEMMA Taken ==
  ASSUME NEW s, Good(s), NEW k \in DOMAIN s.items
  PROVE  /\ Good(Take(s, k)) /\ Take(s, k).items = Seqs!RemoveAt(s.items, k)
         /\ Take(s, k).ground = s.ground /\ Take(s, k).ledger = s.ledger
         /\ Gains(s, Take(s, k), s.items[k].def, -s.items[k].count)
<1>. DEFINE t == Take(s, k)
            new == Seqs!RemoveAt(s.items, k)
            n == Len(s.items)
            h == IF s.hand = Unarmed \/ s.hand.at < k THEN s.hand
                 ELSE [at |-> IF s.hand.at = k THEN 0 ELSE s.hand.at - 1, def |-> s.hand.def]
<1>1. s \in States /\ s.items \in Seq(Stack) /\ n \in Nat /\ k \in 1 .. n /\ s.hand \in Hand \union {Unarmed}
  <2>1. s \in States /\ s.items \in Seq(Stack) /\ s.hand \in Hand \union {Unarmed}
    BY DEF Good, States
  <2>. QED  BY <2>1
<1>2. /\ new \in Seq(Stack) /\ Len(new) = n - 1
      /\ \A j \in 1 .. n - 1 : new[j] = IF j < k THEN s.items[j] ELSE s.items[j + 1]
  <2>. HIDE DEF n
  <2>1. k \in 1 .. Len(s.items)
    BY <1>1 DEF n
  <2>. QED  BY <1>1, <2>1, Removal DEF n
<1>3. h \in Hand \union {Unarmed}
  <2>1. CASE s.hand = Unarmed \/ s.hand.at < k
    BY <1>1, <2>1
  <2>2. CASE ~(s.hand = Unarmed \/ s.hand.at < k)
    <3>. HIDE DEF n
    <3>1. s.hand \in Hand /\ s.hand.at \in Nat /\ s.hand.def \in Defs /\ k \in Nat /\ k >= 1
      BY <1>1, <2>2 DEF Hand
    <3>2. (IF s.hand.at = k THEN 0 ELSE s.hand.at - 1) \in Nat
      BY <2>2, <3>1
    <3>. QED  BY <2>2, <3>1, <3>2 DEF Hand
  <2>. QED  BY <2>1, <2>2
<1>4. /\ t \in States /\ t.items = new /\ t.hand = h /\ t.room = s.room
      /\ t.ground = s.ground /\ t.ledger = s.ledger
  <2>1. t = [s EXCEPT !.items = new, !.hand = h]
    <3>. HIDE DEF new
    <3>. QED  BY <1>1 DEF Take, new, States
  <2>. HIDE DEF t, new, h
  <2>. QED  BY <1>1, <1>2, <1>3, <2>1 DEF States
<1>. HIDE DEF t, new, n
<1>5. Len(t.items) <= t.room
  BY <1>1, <1>2, <1>4 DEF Good, States, n
<1>6. HandFits(t.hand, t.items)
  <2>1. HandFits(s.hand, s.items) /\ n = Len(s.items)
    BY DEF Good, n
  <2>2. CASE s.hand = Unarmed
    BY <1>4, <2>2 DEF HandFits
  <2>3. CASE s.hand # Unarmed
    <3>1. s.hand.at \in Nat /\ s.hand.def \in Defs
      BY <1>1, <2>3 DEF Hand
    <3>2. CASE s.hand.at < k
      <4>1. h = s.hand
        BY <3>2
      <4>. QED  BY <1>1, <1>2, <1>4, <2>1, <2>3, <3>1, <3>2, <4>1 DEF HandFits
    <3>3. CASE s.hand.at = k
      <4>1. h.at = 0
        BY <1>1, <2>3, <3>1, <3>3
      <4>. QED  BY <1>4, <4>1 DEF HandFits
    <3>4. CASE s.hand.at > k
      <4>1. h.at = s.hand.at - 1 /\ h.def = s.hand.def
        BY <1>1, <2>3, <3>1, <3>4
      <4>2. s.hand.at <= n /\ s.hand.def = s.items[s.hand.at].def
        BY <1>1, <2>1, <2>3, <3>1, <3>4 DEF HandFits
      <4>3. /\ s.hand.at - 1 \in 1 .. n - 1 /\ ~(s.hand.at - 1 < k)
            /\ (s.hand.at - 1) + 1 = s.hand.at
        BY <1>1, <3>1, <3>4, <4>2
      <4>4. new[s.hand.at - 1] = s.items[s.hand.at]
        BY <1>2, <4>3
      <4>. QED  BY <1>2, <1>4, <4>1, <4>2, <4>3, <4>4 DEF HandFits
    <3>. QED  BY <1>1, <3>1, <3>2, <3>3, <3>4
  <2>. QED  BY <2>2, <2>3
<1>7. Agree(t.items)
  <2>1. Agree(s.items) /\ DOMAIN s.items = 1 .. n /\ DOMAIN new = 1 .. n - 1
    BY <1>1, <1>2 DEF Good, n
  <2>2. \A j \in 1 .. n : s.items[j].count = s.items[j].inst
    BY <2>1 DEF Agree
  <2>3. ASSUME NEW j \in 1 .. n - 1 PROVE new[j].count = new[j].inst
    <3>1. j \in 1 .. n /\ j + 1 \in 1 .. n
      BY <1>1
    <3>. QED  BY <1>2, <2>2, <3>1
  <2>. QED  BY <1>4, <2>1, <2>3 DEF Agree
<1>8. Gains(s, t, s.items[k].def, -s.items[k].count)
  <2>. SUFFICES ASSUME NEW x \in Defs
       PROVE Balance(t, x) = Balance(s, x) + (IF x = s.items[k].def THEN -s.items[k].count ELSE 0)
    BY DEF Gains
  <2>1. \A y \in Stack : y.count \in Int
    BY DEF Stack
  <2>2. Amount(x, new) = Amount(x, s.items) - Val(x, s.items[k])
    BY <1>1, <2>1, AmountRemoved DEF new
  <2>3. Amount(x, s.items) \in Int /\ Amount(x, s.ground) \in Int /\ s.ledger[x] \in Int
    BY <1>1, StateTyped
  <2>4. s.items[k].count \in Int
    BY <1>1, <2>1
  <2>. QED  BY <1>4, <2>2, <2>3, <2>4 DEF Balance, Val
<1>9. Good(t)
  BY <1>4, <1>5, <1>6, <1>7 DEF Good
<1>. QED  BY <1>4, <1>8, <1>9 DEF t, new

\* SpawnPickup adds n of d, on the ground only.
LEMMA Spawned ==
  ASSUME NEW s, Good(s), NEW d \in Defs, NEW n \in Nat
  PROVE  /\ Good(Spawn(s, d, n)) /\ Gains(s, Spawn(s, d, n), d, n)
         /\ Spawn(s, d, n).items = s.items /\ Spawn(s, d, n).hand = s.hand
         /\ Spawn(s, d, n).room = s.room /\ Spawn(s, d, n).ledger = s.ledger
         /\ Spawn(s, d, n).ground = Append(s.ground, Pickup(d, n))
<1>. DEFINE t == Spawn(s, d, n)
            p == Pickup(d, n)
<1>1. s \in States /\ s.ground \in Seq(Pickups) /\ p \in Pickups /\ p.def = d /\ p.count = n
  BY DEF Good, States, Pickup, Pickups
<1>2. Append(s.ground, p) \in Seq(Pickups)
  <2>. HIDE DEF p
  <2>. QED  BY <1>1
<1>3. /\ t \in States /\ t.items = s.items /\ t.hand = s.hand /\ t.room = s.room
      /\ t.ledger = s.ledger /\ t.ground = Append(s.ground, p)
  <2>1. t = [s EXCEPT !.ground = Append(s.ground, p)]
    BY <1>1 DEF Spawn, States
  <2>. HIDE DEF t, p
  <2>. QED  BY <1>1, <1>2, <2>1 DEF States
<1>. HIDE DEF t, p
<1>4. Gains(s, t, d, n)
  <2>. SUFFICES ASSUME NEW x \in Defs
       PROVE Balance(t, x) = Balance(s, x) + (IF x = d THEN n ELSE 0)
    BY DEF Gains
  <2>1. \A y \in Pickups : y.count \in Int
    BY DEF Pickups
  <2>2. Amount(x, t.ground) = Amount(x, s.ground) + Val(x, p)
    BY <1>1, <1>3, <2>1, AmountAppended
  <2>3. Val(x, p) = IF x = d THEN n ELSE 0
    BY <1>1 DEF Val
  <2>4. Amount(x, s.items) \in Int /\ Amount(x, s.ground) \in Int /\ s.ledger[x] \in Int
    BY <1>1, StateTyped
  <2>. QED  BY <1>3, <2>2, <2>3, <2>4 DEF Balance
<1>5. Good(t)
  BY <1>3 DEF Good
<1>. QED  BY <1>3, <1>4, <1>5 DEF t, p

\* Both copies of a stack are set: only that stack changes.
LEMMA WasSet ==
  ASSUME NEW s, Good(s), NEW k \in DOMAIN s.items, NEW n \in Nat
  PROVE  /\ Good(Set(s, k, n)) /\ Gains(s, Set(s, k, n), s.items[k].def, n - s.items[k].count)
         /\ Set(s, k, n).items = [s.items EXCEPT ![k] = Full(s.items[k].def, n)]
         /\ Set(s, k, n).hand = s.hand /\ Set(s, k, n).room = s.room
         /\ Set(s, k, n).ground = s.ground /\ Set(s, k, n).ledger = s.ledger
<1>. DEFINE t == Set(s, k, n)
            e == Full(s.items[k].def, n)
            new == [s.items EXCEPT ![k] = e]
            m == Len(s.items)
<1>1. /\ s \in States /\ s.items \in Seq(Stack) /\ m \in Nat /\ k \in 1 .. m
      /\ s.items[k] \in Stack /\ s.hand \in Hand \union {Unarmed}
  <2>1. s \in States /\ s.items \in Seq(Stack) /\ s.hand \in Hand \union {Unarmed}
    BY DEF Good, States
  <2>. QED  BY <2>1
<1>2. e \in Stack /\ e.def = s.items[k].def /\ e.count = n /\ e.inst = n
  BY <1>1 DEF Full, Stack
<1>3. /\ new \in Seq(Stack) /\ Len(new) = m
      /\ \A j \in 1 .. m : new[j] = IF j = k THEN e ELSE s.items[j]
  <2>. HIDE DEF e
  <2>. QED  BY <1>1, <1>2
<1>4. /\ t \in States /\ t.items = new /\ t.hand = s.hand /\ t.room = s.room
      /\ t.ground = s.ground /\ t.ledger = s.ledger
  <2>1. t = [s EXCEPT !.items = new]
    <3>. HIDE DEF e
    <3>. QED  BY <1>1 DEF Set, States, e
  <2>. HIDE DEF t, new
  <2>. QED  BY <1>1, <1>3, <2>1 DEF States
<1>. HIDE DEF t, m, e
<1>5. Len(t.items) <= t.room
  BY <1>3, <1>4 DEF Good, m
<1>6. HandFits(t.hand, t.items)
  <2>1. HandFits(s.hand, s.items)
    BY DEF Good
  <2>2. CASE t.hand # Unarmed /\ t.hand.at # 0
    <3>1. t.hand.at \in 1 .. m /\ t.hand.def = s.items[t.hand.at].def
      BY <1>1, <1>4, <2>1, <2>2 DEF HandFits, Hand, m
    <3>2. new[t.hand.at].def = s.items[t.hand.at].def
      <4>. HIDE DEF new
      <4>. QED  BY <1>2, <1>3, <3>1
    <3>. HIDE DEF new
    <3>. QED  BY <1>3, <1>4, <3>1, <3>2 DEF HandFits
  <2>. QED  BY <2>2 DEF HandFits
<1>7. Agree(t.items)
  <2>. HIDE DEF new
  <2>1. Agree(s.items) /\ DOMAIN s.items = 1 .. m /\ DOMAIN new = 1 .. m
    BY <1>1, <1>3 DEF Good, m
  <2>. QED  BY <1>1, <1>2, <1>3, <1>4, <2>1 DEF Agree
<1>8. Gains(s, t, s.items[k].def, n - s.items[k].count)
  <2>. SUFFICES ASSUME NEW x \in Defs
       PROVE Balance(t, x) = Balance(s, x) + (IF x = s.items[k].def THEN n - s.items[k].count ELSE 0)
    BY DEF Gains
  <2>1. \A y \in Stack : y.count \in Int
    BY DEF Stack
  <2>2. Amount(x, new) = Amount(x, s.items) - Val(x, s.items[k]) + Val(x, e)
    BY <1>1, <1>2, <2>1, AmountSet
  <2>3. Amount(x, s.items) \in Int /\ Amount(x, s.ground) \in Int /\ s.ledger[x] \in Int
    BY <1>1, StateTyped
  <2>4. s.items[k].count \in Int
    BY <1>1, <2>1
  <2>. HIDE DEF new
  <2>. QED  BY <1>2, <1>4, <2>2, <2>3, <2>4 DEF Balance, Val
<1>9. Good(t)
  BY <1>4, <1>5, <1>6, <1>7 DEF Good
<1>. QED  BY <1>4, <1>8, <1>9 DEF t, e

\* The first place is one of them, and the least.
LEMMA FirstIsLeast ==
  ASSUME NEW places, places \subseteq Nat \ {0}
  PROVE  /\ First(places) \in Nat /\ (First(places) # 0 <=> places # {})
         /\ First(places) # 0 => First(places) \in places /\ \A j \in places : First(places) <= j
<1>1. CASE places = {}
  BY <1>1 DEF First
<1>2. CASE places # {}
  <2>1. \E m \in places : \A i \in places : m <= i
    BY <1>2, LeastExists
  <2>2. First(places) \in places /\ \A j \in places : First(places) <= j
    BY <1>2, <2>1 DEF First
  <2>. QED  BY <1>2, <2>2
<1>. QED  BY <1>1, <1>2

\* The places of the stacks of d are places of stacks of d.
LEMMA OfIsPlaces ==
  ASSUME NEW s, Good(s), NEW d
  PROVE  /\ Of(s, d) \subseteq Nat \ {0} /\ Of(s, d) \subseteq DOMAIN s.items
         /\ \A k \in Of(s, d) : s.items[k].def = d
  BY DEF Of, Good, States

\* The stacks of s are the first stacks of t.
Grows(s, t) == \A j \in DOMAIN s.items : j \in DOMAIN t.items /\ t.items[j] = s.items[j]

\* GiveItem leaves the stacks there are where they are.
LEMMA GivenAtEnd ==
  ASSUME NEW s, Good(s), NEW d \in Defs, NEW n \in Nat
  PROVE  /\ Grows(s, Give(s, d, n))
         /\ n # 0 => /\ Len(Give(s, d, n).items) = Len(s.items) + 1
                     /\ Give(s, d, n).items[Len(s.items) + 1] = Full(d, n)
                     /\ Give(s, d, n).items = Append(s.items, Full(d, n))
         /\ n = 0 => Give(s, d, n) = s
         /\ Give(s, d, n).ground = s.ground /\ Give(s, d, n).ledger = s.ledger
<1>1. s \in States /\ s.items \in Seq(Stack) /\ Full(d, n) \in Stack
  BY DEF Good, States, Full, Stack
<1>2. CASE n = 0
  BY <1>2 DEF Give, Grows
<1>3. CASE n # 0
  <2>1. /\ Give(s, d, n).items = Append(s.items, Full(d, n))
        /\ Give(s, d, n).ground = s.ground /\ Give(s, d, n).ledger = s.ledger
    BY <1>1, <1>3 DEF Give, States
  <2>2. /\ Len(Append(s.items, Full(d, n))) = Len(s.items) + 1
        /\ Append(s.items, Full(d, n))[Len(s.items) + 1] = Full(d, n)
        /\ \A j \in DOMAIN s.items : /\ j \in DOMAIN Append(s.items, Full(d, n))
                                     /\ Append(s.items, Full(d, n))[j] = s.items[j]
    BY <1>1
  <2>. QED  BY <1>3, <2>1, <2>2 DEF Grows
<1>. QED  BY <1>2, <1>3

\* A swap adds n of d: the weapon only changes its place.
LEMMA Swaps ==
  ASSUME NEW s, Good(s), NEW k \in DOMAIN s.items, NEW d \in Defs, NEW n \in Nat
  PROVE  /\ Good(Swapped(s, k, d, n)) /\ Gains(s, Swapped(s, k, d, n), d, n)
         /\ n # 0 => /\ Len(Swapped(s, k, d, n).items) # 0
                     /\ Swapped(s, k, d, n).items[Len(Swapped(s, k, d, n).items)].def = d
<1>. DEFINE e == s.items[k]
            u == Spawn(s, e.def, e.count)
            v == Take(u, k)
            w == Give(v, d, n)
<1>1. e.def \in Defs /\ e.count \in Nat
  <2>1. s.items[k] \in Stack
    BY DEF Good, States
  <2>. QED  BY <2>1 DEF Stack
<1>2. Good(u) /\ Gains(s, u, e.def, e.count) /\ u.items = s.items
  <2>. HIDE DEF e
  <2>. QED  BY <1>1, Spawned
<1>3. Good(v) /\ Gains(u, v, e.def, -e.count)
  <2>1. k \in DOMAIN u.items /\ u.items[k] = e
    BY <1>2
  <2>. HIDE DEF u, e
  <2>2. Good(Take(u, k)) /\ Gains(u, Take(u, k), u.items[k].def, -u.items[k].count)
    BY <1>2, <2>1, Taken
  <2>. QED  BY <2>1, <2>2
<1>4. Good(w) /\ Gains(v, w, d, n)
  <2>. HIDE DEF v
  <2>. QED  BY <1>3, Given
<1>5. n # 0 => Len(w.items) # 0 /\ w.items[Len(w.items)].def = d
  <2>1. n # 0 => Len(w.items) = Len(v.items) + 1 /\ w.items[Len(v.items) + 1] = Full(d, n)
    <3>. HIDE DEF v
    <3>. QED  BY <1>3, GivenAtEnd
  <2>2. Len(v.items) \in Nat
    <3>. HIDE DEF v
    <3>. QED  BY <1>3 DEF Good, States
  <2>. HIDE DEF v, w
  <2>. QED  BY <2>1, <2>2 DEF Full
<1>6. Swapped(s, k, d, n) = w
  BY DEF Swapped
<1>. HIDE DEF e, u, v, w
<1>7. Gains(s, w, d, n)
  <2>. SUFFICES ASSUME NEW x \in Defs
       PROVE  Balance(w, x) = Balance(s, x) + (IF x = d THEN n ELSE 0)
    BY DEF Gains
  <2>1. Balance(s, x) \in Int /\ Balance(u, x) \in Int /\ Balance(v, x) \in Int /\ Balance(w, x) \in Int
    BY <1>2, <1>3, <1>4, StateTyped DEF Good
  <2>. QED  BY <1>1, <1>2, <1>3, <1>4, <2>1 DEF Gains
<1>. QED  BY <1>4, <1>5, <1>6, <1>7

\* So does GiveOrSwap; what a full bar refuses is in the books.
LEMMA GaveOrSwapped ==
  ASSUME NEW s, Good(s), NEW used, NEW d \in Defs, NEW n \in Nat
  PROVE  /\ Good(GiveOrSwap(s, used, d, n)) /\ Gains(s, GiveOrSwap(s, used, d, n), d, n)
<1>. DEFINE k == s.hand.at
            new == Swapped(s, k, d, n)
            t == GiveOrSwap(s, used, d, n)
<1>1. CASE used < QuickbarSize \/ d \notin Primary \intersect DropOnOverflow
  <2>1. t = Give(s, d, n)
    BY <1>1 DEF GiveOrSwap
  <2>. QED  BY <2>1, Given
<1>2. CASE ~(used < QuickbarSize \/ d \notin Primary \intersect DropOnOverflow)
  <2>1. CASE s.hand = Unarmed
    <3>1. t = [s EXCEPT !.ledger = [@ EXCEPT ![d] = s.ledger[d] - n]]
      BY <1>2, <2>1 DEF GiveOrSwap
    <3>2. s \in States /\ s.ledger \in [Defs -> Int]
      BY DEF Good, States
    <3>. DEFINE b == [s.ledger EXCEPT ![d] = s.ledger[d] - n]
    <3>3. b \in [Defs -> Int] /\ \A x \in Defs : b[x] = IF x = d THEN s.ledger[x] - n ELSE s.ledger[x]
      BY <3>2
    <3>4. t = [s EXCEPT !.ledger = b]
      BY <3>1, <3>2 DEF States
    <3>. HIDE DEF b, t
    <3>5. /\ t \in States /\ t.items = s.items /\ t.ground = s.ground /\ t.hand = s.hand
          /\ t.room = s.room /\ t.ledger = b
      BY <3>2, <3>3, <3>4 DEF States
    <3>6. Good(t)
      BY <3>5 DEF Good
    <3>7. ASSUME NEW x \in Defs
          PROVE  Balance(t, x) = Balance(s, x) + (IF x = d THEN n ELSE 0)
      <4>1. Amount(x, s.items) \in Int /\ Amount(x, s.ground) \in Int /\ s.ledger[x] \in Int
        BY <3>2, StateTyped
      <4>. QED  BY <3>3, <3>5, <4>1 DEF Balance
    <3>. QED  BY <3>6, <3>7 DEF Gains, t
  <2>2. CASE s.hand # Unarmed /\ (s.hand.def \notin Primary \/ k = 0 \/ s.items[k].count <= 0)
    <3>1. t = Spawn(s, d, n)
      BY <1>2, <2>2 DEF GiveOrSwap
    <3>. QED  BY <3>1, Spawned
  <2>3. CASE s.hand # Unarmed /\ ~(s.hand.def \notin Primary \/ k = 0 \/ s.items[k].count <= 0)
    <3>1. k \in DOMAIN s.items
      BY <2>3 DEF Good, States, Hand, HandFits
    <3>2. /\ Good(new) /\ Gains(s, new, d, n)
          /\ n # 0 => Len(new.items) # 0 /\ new.items[Len(new.items)].def = d
      <4>. HIDE DEF k
      <4>. QED  BY <3>1, Swaps
    <3>3. CASE n = 0
      <4>1. t = new
        BY <1>2, <2>3, <3>3 DEF GiveOrSwap
      <4>. QED  BY <3>2, <4>1
    <3>4. CASE n # 0
      <4>. DEFINE h == [at |-> Len(new.items), def |-> d]
      <4>1. t = [new EXCEPT !.hand = h]
        BY <1>2, <2>3, <3>4 DEF GiveOrSwap
      <4>. HIDE DEF new, t, k
      <4>2. h \in Hand /\ Len(new.items) \in Nat /\ h.at = Len(new.items) /\ h.def = d
        BY <3>2 DEF Good, States, Hand
      <4>3. new \in States
        BY <3>2 DEF Good
      <4>. HIDE DEF h
      <4>4. /\ t \in States /\ t.items = new.items /\ t.ground = new.ground /\ t.hand = h
            /\ t.room = new.room /\ t.ledger = new.ledger
        BY <4>1, <4>2, <4>3 DEF States
      <4>5. Good(t)
        BY <3>2, <3>4, <4>2, <4>4 DEF Good, HandFits
      <4>6. \A x \in Defs : Balance(t, x) = Balance(new, x)
        BY <4>4 DEF Balance
      <4>. QED  BY <3>2, <4>5, <4>6 DEF Gains, t
    <3>. QED  BY <3>3, <3>4
  <2>. QED  BY <2>1, <2>2, <2>3
<1>. QED  BY <1>1, <1>2

\* A full stack has something in it.
LEMMA StackIsMore == ASSUME NEW d \in Defs PROVE MaxStack[d] \in Nat /\ MaxStack[d] > 0
  BY DefsAssumption

\* GiveOrSwapStack adds what is above a full stack, and moves none of the others.
LEMMA GaveStack ==
  ASSUME NEW s, Good(s), NEW used, NEW d \in Defs, NEW n \in Nat, n >= MaxStack[d]
  PROVE  /\ Good(GiveOrSwapStack(s, used, d, n))
         /\ Gains(s, GiveOrSwapStack(s, used, d, n), d, n - MaxStack[d])
         /\ Grows(s, GiveOrSwapStack(s, used, d, n))
<1>1. n - MaxStack[d] \in Nat
  BY StackIsMore
<1>2. CASE d \notin SingleStack /\ (used < QuickbarSize \/ d \in DropOnOverflow)
  <2>1. GiveOrSwapStack(s, used, d, n) = Give(s, d, n - MaxStack[d])
    BY <1>2 DEF GiveOrSwapStack
  <2>. QED  BY <1>1, <2>1, Given, GivenAtEnd
<1>3. CASE ~(d \notin SingleStack /\ (used < QuickbarSize \/ d \in DropOnOverflow))
  <2>1. GiveOrSwapStack(s, used, d, n) = Spawn(s, d, n - MaxStack[d])
    BY <1>3 DEF GiveOrSwapStack
  <2>2. Grows(s, Spawn(s, d, n - MaxStack[d]))
    BY <1>1, Spawned DEF Grows
  <2>. QED  BY <1>1, <2>1, <2>2, Spawned
<1>. QED  BY <1>2, <1>3

\* A stack that takes a pickup takes all of it, unless freed memory was read.
LEMMA ToppedUp ==
  ASSUME NEW s, Good(s), NEW used, NEW k \in DOMAIN s.items, NEW n \in Nat,
         NEW seen \in 0 .. MaxStack[s.items[k].def]
  PROVE  /\ Good(TopUp(s, used, k, n, seen))
         /\ seen = MaxStack[s.items[k].def] => Gains(s, TopUp(s, used, k, n, seen), s.items[k].def, n)
<1>. DEFINE d == s.items[k].def
            c == s.items[k].count
            sum == c + n
            half == Set(s, k, MaxStack[d])
            full == GiveOrSwapStack(half, used, d, sum)
            last == IF full.room > s.room THEN seen ELSE MaxStack[d]
            t == TopUp(s, used, k, n, seen)
<1>1. d \in Defs /\ c \in Nat /\ sum \in Nat /\ MaxStack[d] \in Nat /\ seen \in Nat /\ last \in Nat
  <2>1. s.items[k] \in Stack
    BY DEF Good, States
  <2>2. d \in Defs /\ c \in Nat
    BY <2>1 DEF Stack
  <2>3. MaxStack[d] \in Nat
    <3>. HIDE DEF d
    <3>. QED  BY <2>2, StackIsMore
  <2>. QED  BY <2>2, <2>3
<1>2. CASE sum <= MaxStack[d]
  <2>1. t = Set(s, k, sum)
    BY <1>2 DEF TopUp
  <2>2. Good(Set(s, k, sum)) /\ Gains(s, Set(s, k, sum), d, sum - c)
    <3>. HIDE DEF sum
    <3>. QED  BY <1>1, WasSet
  <2>3. sum - c = n
    BY <1>1
  <2>. HIDE DEF t, d, sum
  <2>4. Good(t) /\ Gains(s, t, d, n)
    BY <2>1, <2>2, <2>3
  <2>. QED  BY <2>4 DEF t, d
<1>3. CASE ~(sum <= MaxStack[d])
  <2>1. t = Set(full, k, last)
    BY <1>3 DEF TopUp
  <2>2. /\ Good(half) /\ Gains(s, half, d, MaxStack[d] - c)
        /\ half.items = [s.items EXCEPT ![k] = Full(d, MaxStack[d])]
    BY <1>1, WasSet
  <2>3. k \in DOMAIN half.items /\ half.items[k].def = d /\ half.items[k].count = MaxStack[d]
    BY <2>2 DEF Full
  <2>4. Good(full) /\ Gains(half, full, d, sum - MaxStack[d]) /\ Grows(half, full)
    <3>1. sum >= MaxStack[d]
      BY <1>1, <1>3
    <3>. HIDE DEF half, d, sum
    <3>. QED  BY <1>1, <2>2, <3>1, GaveStack
  <2>5. k \in DOMAIN full.items /\ full.items[k].def = d /\ full.items[k].count = MaxStack[d]
    BY <2>3, <2>4 DEF Grows
  <2>6. Good(Set(full, k, last)) /\ Gains(full, Set(full, k, last), d, last - MaxStack[d])
    <3>. HIDE DEF full, last, d
    <3>. QED  BY <1>1, <2>4, <2>5, WasSet
  <2>7. ASSUME seen = MaxStack[d] PROVE Gains(s, t, d, n)
    <3>1. last = MaxStack[d]
      BY <2>7
    <3>. HIDE DEF last, full, half, t
    <3>. SUFFICES ASSUME NEW x \in Defs
         PROVE  Balance(t, x) = Balance(s, x) + (IF x = d THEN n ELSE 0)
      BY DEF Gains
    <3>2. /\ Balance(s, x) \in Int /\ Balance(half, x) \in Int /\ Balance(full, x) \in Int
          /\ Balance(t, x) \in Int
      BY <2>1, <2>2, <2>4, <2>6, StateTyped DEF Good
    <3>. HIDE DEF d, c
    <3>3. Balance(half, x) = Balance(s, x) + (IF x = d THEN MaxStack[d] - c ELSE 0)
      BY <2>2 DEF Gains
    <3>4. Balance(full, x) = Balance(half, x) + (IF x = d THEN sum - MaxStack[d] ELSE 0)
      BY <2>4 DEF Gains
    <3>5. Balance(t, x) = Balance(full, x) + (IF x = d THEN last - MaxStack[d] ELSE 0)
      BY <2>1, <2>6 DEF Gains
    <3>. QED  BY <1>1, <3>1, <3>2, <3>3, <3>4, <3>5
  <2>. QED  BY <2>1, <2>6, <2>7
<1>. QED  BY <1>2, <1>3

\* InternalPickupLogic keeps an inventory good, and adds n of d unless freed
\* memory was read as something else.
LEMMA PicksUp ==
  ASSUME NEW s, Good(s), NEW d \in Defs, NEW n \in Nat, NEW seen \in 0 .. MaxStack[d]
  PROVE  /\ Good(PickedUp(s, d, n, seen))
         /\ seen = MaxStack[d] => Gains(s, PickedUp(s, d, n, seen), d, n)
<1>. DEFINE used == ItemCount(s, d)
            partial == First({k \in Of(s, d) : s.items[k].inst < MaxStack[d]})
            other == First({k \in Of(s, d) : s.items[k].count >= MaxStack[d]})
            gave == GiveOrSwapStack(s, used, d, n)
            t == PickedUp(s, d, n, seen)
<1>1. MaxStack[d] \in Nat /\ MaxStack[d] > 0
  BY StackIsMore
<1>2. CASE MaxStack[d] = 1
  <2>1. t = GiveOrSwap(s, used, d, n)
    BY <1>2 DEF PickedUp
  <2>. HIDE DEF used
  <2>. QED  BY <2>1, GaveOrSwapped
<1>3. CASE MaxStack[d] > 1 /\ partial # 0
  <2>1. t = TopUp(s, used, partial, n, seen)
    BY <1>3 DEF PickedUp
  <2>2. partial \in DOMAIN s.items /\ s.items[partial].def = d
    <3>. DEFINE P == {k \in Of(s, d) : s.items[k].inst < MaxStack[d]}
    <3>1. P \subseteq Nat \ {0}
      BY OfIsPlaces
    <3>2. First(P) \in P
      <4>. HIDE DEF P
      <4>. QED  BY <1>3, <3>1, FirstIsLeast DEF P
    <3>. QED  BY <3>2, OfIsPlaces
  <2>. HIDE DEF used, partial
  <2>. QED  BY <2>1, <2>2, ToppedUp
<1>4. CASE MaxStack[d] > 1 /\ partial = 0 /\ other # 0 /\ d \in SingleStack
  <2>1. t = Spawn(s, d, n)
    BY <1>4 DEF PickedUp
  <2>. QED  BY <2>1, Spawned
<1>5. CASE MaxStack[d] > 1 /\ partial = 0 /\ ~(other # 0 /\ d \in SingleStack)
  <2>. HIDE DEF used, partial, other
  <2>1. CASE n > MaxStack[d]
    <3>1. t = GiveOrSwap(gave, used, d, MaxStack[d])
      BY <1>5, <2>1 DEF PickedUp, used, partial, other
    <3>2. Good(gave) /\ Gains(s, gave, d, n - MaxStack[d])
      BY <1>1, <2>1, GaveStack
    <3>3. Good(t) /\ Gains(gave, t, d, MaxStack[d])
      <4>. HIDE DEF gave
      <4>. QED  BY <1>1, <3>1, <3>2, GaveOrSwapped
    <3>. HIDE DEF gave, t
    <3>4. Gains(s, t, d, n)
      <4>. SUFFICES ASSUME NEW x \in Defs
           PROVE  Balance(t, x) = Balance(s, x) + (IF x = d THEN n ELSE 0)
        BY DEF Gains
      <4>1. Balance(s, x) \in Int /\ Balance(gave, x) \in Int /\ Balance(t, x) \in Int
        BY <3>2, <3>3, StateTyped DEF Good
      <4>. QED  BY <1>1, <3>2, <3>3, <4>1 DEF Gains
    <3>. QED  BY <3>3, <3>4 DEF t
  <2>2. CASE ~(n > MaxStack[d])
    <3>1. t = GiveOrSwap(s, used, d, n)
      BY <1>5, <2>2 DEF PickedUp, used, partial, other
    <3>. QED  BY <3>1, GaveOrSwapped
  <2>. QED  BY <2>1, <2>2
<1>. HIDE DEF used, partial, other
<1>. QED  BY <1>1, <1>2, <1>3, <1>4, <1>5

\* A stack that is left with n has n, or is gone.
LEMMA IsLeft ==
  ASSUME NEW s, Good(s), NEW k \in DOMAIN s.items, NEW n \in Int
  PROVE  /\ Good(Left(s, k, n))
         /\ Gains(s, Left(s, k, n), s.items[k].def, (IF n <= 0 THEN 0 ELSE n) - s.items[k].count)
<1>1. s.items[k].count \in Int
  <2>1. s.items[k] \in Stack
    BY DEF Good, States
  <2>. QED  BY <2>1 DEF Stack
<1>2. CASE n <= 0
  <2>1. Left(s, k, n) = Take(s, k)
    BY <1>2 DEF Left
  <2>2. (IF n <= 0 THEN 0 ELSE n) - s.items[k].count = -s.items[k].count
    BY <1>1, <1>2
  <2>. QED  BY <2>1, <2>2, Taken
<1>3. CASE ~(n <= 0)
  <2>1. Left(s, k, n) = Set(s, k, n) /\ n \in Nat
    BY <1>3 DEF Left
  <2>2. (IF n <= 0 THEN 0 ELSE n) = n
    BY <1>3
  <2>3. Good(Set(s, k, n)) /\ Gains(s, Set(s, k, n), s.items[k].def, n - s.items[k].count)
    BY <2>1, WasSet
  <2>. QED  BY <2>1, <2>2, <2>3
<1>. QED  BY <1>2, <1>3

\* A harvest adds n: what the stack does not take is on the ground.
LEMMA IsHarvested ==
  ASSUME NEW s, Good(s), NEW k \in DOMAIN s.items, NEW n \in Nat
  PROVE  /\ Good(Harvested(s, k, s.items[k].def, n))
         /\ Gains(s, Harvested(s, k, s.items[k].def, n), s.items[k].def, n)
<1>. DEFINE d == s.items[k].def
            c == s.items[k].count
            sum == c + n
            u == Spawn(s, d, sum - MaxStack[d])
            t == Harvested(s, k, d, n)
<1>1. d \in Defs /\ c \in Nat /\ sum \in Nat /\ MaxStack[d] \in Nat
  <2>1. s.items[k] \in Stack
    BY DEF Good, States
  <2>2. d \in Defs /\ c \in Nat
    BY <2>1 DEF Stack
  <2>3. MaxStack[d] \in Nat
    <3>. HIDE DEF d
    <3>. QED  BY <2>2, StackIsMore
  <2>. QED  BY <2>2, <2>3
<1>2. CASE sum > MaxStack[d]
  <2>1. t = Set(u, k, MaxStack[d]) /\ sum - MaxStack[d] \in Nat
    BY <1>1, <1>2 DEF Harvested
  <2>2. Good(u) /\ Gains(s, u, d, sum - MaxStack[d]) /\ u.items = s.items
    <3>. HIDE DEF d, sum
    <3>. QED  BY <1>1, <2>1, Spawned
  <2>3. Good(t) /\ Gains(u, t, d, MaxStack[d] - c)
    <3>1. k \in DOMAIN u.items /\ u.items[k].def = d /\ u.items[k].count = c
      BY <2>2
    <3>. HIDE DEF d, c, u, sum, t
    <3>. QED  BY <1>1, <2>1, <2>2, <3>1, WasSet
  <2>. HIDE DEF u, t
  <2>4. Gains(s, t, d, n)
    <3>. SUFFICES ASSUME NEW x \in Defs
         PROVE  Balance(t, x) = Balance(s, x) + (IF x = d THEN n ELSE 0)
      BY DEF Gains
    <3>1. Balance(s, x) \in Int /\ Balance(u, x) \in Int /\ Balance(t, x) \in Int
      BY <2>2, <2>3, StateTyped DEF Good
    <3>. HIDE DEF d, c
    <3>2. Balance(u, x) = Balance(s, x) + (IF x = d THEN sum - MaxStack[d] ELSE 0)
      BY <2>2 DEF Gains
    <3>3. Balance(t, x) = Balance(u, x) + (IF x = d THEN MaxStack[d] - c ELSE 0)
      BY <2>3 DEF Gains
    <3>. QED  BY <1>1, <3>1, <3>2, <3>3
  <2>. QED  BY <2>3, <2>4 DEF t, d
<1>3. CASE ~(sum > MaxStack[d])
  <2>1. t = Set(s, k, sum) /\ sum - c = n
    BY <1>1, <1>3 DEF Harvested
  <2>2. Good(Set(s, k, sum)) /\ Gains(s, Set(s, k, sum), d, sum - c)
    <3>. HIDE DEF sum
    <3>. QED  BY <1>1, WasSet
  <2>. HIDE DEF t, d, sum
  <2>3. Good(t) /\ Gains(s, t, d, n)
    BY <2>1, <2>2
  <2>. QED  BY <2>3 DEF t, d
<1>. QED  BY <1>2, <1>3

(* Sizes. *)

\* A stack that is neither too large nor left empty, and what it leaves on the
\* ground: no more than the next pickup can split; slack is what was made of it.
Whole(slack, e) ==
  /\ e.count <= MaxStack[e.def] + slack[e.def]
  /\ e.count > 0 \/ (e.count = 0 /\ (e.def \in KeepsEmpty \/ MaxOdd > 0))
Small(slack, d, n) ==
  n <= MaxStack[d] + 1 + slack[d] /\ (MaxStack[d] = 1 => n <= 1 + slack[d])

Sized(slack, s) ==
  /\ \A k \in DOMAIN s.items : Whole(slack, s.items[k])
  /\ \A i \in DOMAIN s.ground : Small(slack, s.ground[i].def, s.ground[i].count)

\* More slack leaves all of it small.
LEMMA SizedSlackens ==
  ASSUME NEW slack \in [Defs -> Nat], NEW s, Good(s), Sized(slack, s),
         NEW more \in [Defs -> Nat], \A d \in Defs : slack[d] <= more[d]
  PROVE  Sized(more, s)
<1>1. ASSUME NEW k \in DOMAIN s.items PROVE Whole(more, s.items[k])
  <2>1. s.items[k] \in Stack /\ Whole(slack, s.items[k])
    BY DEF Good, States, Sized
  <2>2. /\ s.items[k].def \in Defs /\ s.items[k].count \in Nat /\ MaxStack[s.items[k].def] \in Nat
        /\ slack[s.items[k].def] <= more[s.items[k].def]
        /\ slack[s.items[k].def] \in Nat /\ more[s.items[k].def] \in Nat
    BY <2>1, StackIsMore DEF Stack
  <2>. QED  BY <2>1, <2>2 DEF Whole
<1>2. ASSUME NEW i \in DOMAIN s.ground PROVE Small(more, s.ground[i].def, s.ground[i].count)
  <2>1. s.ground[i] \in Pickups /\ Small(slack, s.ground[i].def, s.ground[i].count)
    BY DEF Good, States, Sized
  <2>2. /\ s.ground[i].def \in Defs /\ s.ground[i].count \in Nat /\ MaxStack[s.ground[i].def] \in Nat
        /\ slack[s.ground[i].def] <= more[s.ground[i].def]
        /\ slack[s.ground[i].def] \in Nat /\ more[s.ground[i].def] \in Nat
    BY <2>1, StackIsMore DEF Pickups
  <2>. QED  BY <2>1, <2>2 DEF Small
<1>. QED  BY <1>1, <1>2 DEF Sized

\* GiveItem adds a stack of the right size.
LEMMA SizedGiven ==
  ASSUME NEW slack \in [Defs -> Nat], NEW s, Good(s), Sized(slack, s), NEW d \in Defs, NEW n \in Nat,
         n <= MaxStack[d] + slack[d]
  PROVE  Sized(slack, Give(s, d, n))
<1>1. CASE n = 0
  BY <1>1, GivenAtEnd
<1>2. CASE n # 0
  <2>. DEFINE t == Give(s, d, n)
              e == Full(d, n)
  <2>1. t.items = Append(s.items, e) /\ t.ground = s.ground
    BY <1>2, GivenAtEnd
  <2>2. Whole(slack, e)
    BY <1>2, StackIsMore DEF Whole, Full
  <2>3. s.items \in Seq(Stack)
    BY DEF Good, States
  <2>. HIDE DEF t, e
  <2>4. ASSUME NEW k \in DOMAIN t.items PROVE Whole(slack, t.items[k])
    <3>1. k \in 1 .. Len(s.items) + 1 /\ Len(s.items) \in Nat
      BY <2>1, <2>3
    <3>2. t.items[k] = IF k = Len(s.items) + 1 THEN e ELSE s.items[k]
      BY <2>1, <2>3, <3>1
    <3>3. k # Len(s.items) + 1 => k \in DOMAIN s.items
      BY <2>3, <3>1
    <3>. QED  BY <2>2, <3>2, <3>3 DEF Sized
  <2>5. Sized(slack, t)
    BY <2>1, <2>4 DEF Sized
  <2>. QED  BY <2>5 DEF t
<1>. QED  BY <1>1, <1>2

\* Remove leaves the sizes of the others.
LEMMA SizedTaken ==
  ASSUME NEW slack \in [Defs -> Nat], NEW s, Good(s), Sized(slack, s), NEW k \in DOMAIN s.items
  PROVE  Sized(slack, Take(s, k))
<1>. DEFINE t == Take(s, k)
<1>1. t.items = Seqs!RemoveAt(s.items, k) /\ t.ground = s.ground /\ t \in States
  BY Taken DEF Good
<1>2. s.items \in Seq(Stack) /\ k \in 1 .. Len(s.items) /\ t.items \in Seq(Stack)
  <2>1. s.items \in Seq(Stack) /\ t.items \in Seq(Stack)
    BY <1>1 DEF Good, States
  <2>. QED  BY <2>1
<1>. HIDE DEF t
<1>3. /\ Len(t.items) = Len(s.items) - 1
      /\ \A j \in 1 .. Len(s.items) - 1 :
           t.items[j] = IF j < k THEN s.items[j] ELSE s.items[j + 1]
  BY <1>1, <1>2, Removal
<1>4. ASSUME NEW j \in DOMAIN t.items PROVE Whole(slack, t.items[j])
  <2>1. j \in 1 .. Len(s.items) - 1 /\ j \in DOMAIN s.items /\ j + 1 \in DOMAIN s.items
    BY <1>2, <1>3
  <2>. QED  BY <1>3, <2>1 DEF Sized
<1>5. Sized(slack, t)
  BY <1>1, <1>4 DEF Sized
<1>. QED  BY <1>5 DEF t

\* A small pickup on the ground.
LEMMA SizedSpawned ==
  ASSUME NEW slack \in [Defs -> Nat], NEW s, Good(s), Sized(slack, s), NEW d \in Defs, NEW n \in Nat, Small(slack, d, n)
  PROVE  Sized(slack, Spawn(s, d, n))
<1>. DEFINE t == Spawn(s, d, n)
            p == Pickup(d, n)
<1>1. t.items = s.items /\ t.ground = Append(s.ground, p)
  BY Spawned
<1>2. s.ground \in Seq(Pickups) /\ Small(slack, p.def, p.count)
  BY DEF Good, States, Pickup
<1>. HIDE DEF t, p
<1>3. ASSUME NEW i \in DOMAIN t.ground PROVE Small(slack, t.ground[i].def, t.ground[i].count)
  <2>1. i \in 1 .. Len(s.ground) + 1 /\ Len(s.ground) \in Nat
    BY <1>1, <1>2
  <2>2. t.ground[i] = IF i = Len(s.ground) + 1 THEN p ELSE s.ground[i]
    BY <1>1, <1>2, <2>1
  <2>3. i # Len(s.ground) + 1 => i \in DOMAIN s.ground
    BY <1>2, <2>1
  <2>. QED  BY <1>2, <2>2, <2>3 DEF Sized
<1>4. Sized(slack, t)
  BY <1>1, <1>3 DEF Sized
<1>. QED  BY <1>4 DEF t

\* A stack that is set to the right size.
LEMMA SizedSet ==
  ASSUME NEW slack \in [Defs -> Nat], NEW s, Good(s), Sized(slack, s), NEW k \in DOMAIN s.items, NEW n \in Nat,
         Whole(slack, Full(s.items[k].def, n))
  PROVE  Sized(slack, Set(s, k, n))
<1>. DEFINE t == Set(s, k, n)
            e == Full(s.items[k].def, n)
<1>1. t.items = [s.items EXCEPT ![k] = e] /\ t.ground = s.ground
  BY WasSet
<1>2. s.items \in Seq(Stack)
  BY DEF Good, States
<1>. HIDE DEF t, e
<1>3. ASSUME NEW j \in DOMAIN t.items PROVE Whole(slack, t.items[j])
  <2>1. j \in DOMAIN s.items /\ t.items[j] = IF j = k THEN e ELSE s.items[j]
    BY <1>1, <1>2
  <2>. QED  BY <2>1 DEF Sized, e
<1>4. Sized(slack, t)
  BY <1>1, <1>3 DEF Sized
<1>. QED  BY <1>4 DEF t

\* What is at a place of a good inventory.
LEMMA StackFound ==
  ASSUME NEW s, Good(s), NEW k \in DOMAIN s.items
  PROVE  /\ s.items[k] \in Stack /\ s.items[k].def \in Defs /\ s.items[k].count \in Nat
         /\ s.items[k].inst = s.items[k].count
         /\ MaxStack[s.items[k].def] \in Nat /\ MaxStack[s.items[k].def] > 0
<1>1. s.items[k] \in Stack
  BY DEF Good, States
<1>2. s.items[k].def \in Defs
  BY <1>1 DEF Stack
<1>. QED  BY <1>1, <1>2, StackIsMore DEF Stack, Good, Agree

\* A stack that is left with less.
LEMMA SizedLeft ==
  ASSUME NEW slack \in [Defs -> Nat], NEW s, Good(s), Sized(slack, s), NEW k \in DOMAIN s.items, NEW n \in Int, n <= s.items[k].count
  PROVE  Sized(slack, Left(s, k, n))
<1>1. CASE n <= 0
  BY <1>1, SizedTaken DEF Left
<1>2. CASE ~(n <= 0)
  <2>1. n \in Nat /\ Left(s, k, n) = Set(s, k, n)
    BY <1>2 DEF Left
  <2>2. Whole(slack, s.items[k])
    BY DEF Sized
  <2>3. Whole(slack, Full(s.items[k].def, n))
    BY <1>2, <2>1, <2>2, StackFound DEF Whole, Full
  <2>. QED  BY <2>1, <2>3, SizedSet
<1>. QED  BY <1>1, <1>2

\* A swap for a stack of the right size.
LEMMA SizedSwapped ==
  ASSUME NEW slack \in [Defs -> Nat], NEW s, Good(s), Sized(slack, s), NEW k \in DOMAIN s.items, NEW d \in Defs, NEW n \in Nat,
         n <= MaxStack[d] + slack[d]
  PROVE  Sized(slack, Swapped(s, k, d, n))
<1>. DEFINE e == s.items[k]
            u == Spawn(s, e.def, e.count)
            v == Take(u, k)
<1>1. e.def \in Defs /\ e.count \in Nat /\ Small(slack, e.def, e.count)
  <2>1. Whole(slack, s.items[k])
    BY DEF Sized
  <2>. QED  BY <2>1, StackFound DEF Whole, Small
<1>2. Good(u) /\ Sized(slack, u) /\ u.items = s.items
  <2>. HIDE DEF e
  <2>. QED  BY <1>1, Spawned, SizedSpawned
<1>3. Good(v) /\ Sized(slack, v)
  <2>. HIDE DEF u
  <2>. QED  BY <1>2, Taken, SizedTaken
<1>4. Sized(slack, Give(v, d, n))
  <2>. HIDE DEF v
  <2>. QED  BY <1>3, SizedGiven
<1>. QED  BY <1>4 DEF Swapped

\* GiveOrSwap of a stack of the right size.
LEMMA SizedGaveOrSwapped ==
  ASSUME NEW slack \in [Defs -> Nat], NEW s, Good(s), Sized(slack, s), NEW used, NEW d \in Defs, NEW n \in Nat,
         n <= MaxStack[d] + slack[d]
  PROVE  Sized(slack, GiveOrSwap(s, used, d, n))
<1>. DEFINE k == s.hand.at
            new == Swapped(s, k, d, n)
            t == GiveOrSwap(s, used, d, n)
<1>1. CASE used < QuickbarSize \/ d \notin Primary \intersect DropOnOverflow
  <2>1. t = Give(s, d, n)
    BY <1>1 DEF GiveOrSwap
  <2>. QED  BY <2>1, SizedGiven
<1>2. CASE ~(used < QuickbarSize \/ d \notin Primary \intersect DropOnOverflow)
  <2>1. CASE s.hand = Unarmed
    <3>. DEFINE b == [s.ledger EXCEPT ![d] = s.ledger[d] - n]
    <3>1. s \in States
      BY DEF Good
    <3>2. t = [s EXCEPT !.ledger = b]
      BY <1>2, <2>1, <3>1 DEF GiveOrSwap, States
    <3>. HIDE DEF b, t
    <3>3. t.items = s.items /\ t.ground = s.ground
      BY <3>1, <3>2 DEF States
    <3>4. Sized(slack, t)
      BY <3>3 DEF Sized
    <3>. QED  BY <3>4 DEF t
  <2>2. CASE s.hand # Unarmed /\ (s.hand.def \notin Primary \/ k = 0 \/ s.items[k].count <= 0)
    <3>1. t = Spawn(s, d, n)
      BY <1>2, <2>2 DEF GiveOrSwap
    <3>2. Small(slack, d, n)
      BY StackIsMore DEF Small
    <3>. QED  BY <3>1, <3>2, SizedSpawned
  <2>3. CASE s.hand # Unarmed /\ ~(s.hand.def \notin Primary \/ k = 0 \/ s.items[k].count <= 0)
    <3>1. k \in DOMAIN s.items
      BY <2>3 DEF Good, States, Hand, HandFits
    <3>2. Good(new) /\ Sized(slack, new)
      <4>. HIDE DEF k
      <4>. QED  BY <3>1, Swaps, SizedSwapped
    <3>3. CASE n = 0
      <4>1. t = new
        BY <1>2, <2>3, <3>3 DEF GiveOrSwap
      <4>. QED  BY <3>2, <4>1
    <3>4. CASE n # 0
      <4>. DEFINE h == [at |-> Len(new.items), def |-> d]
      <4>1. t = [new EXCEPT !.hand = h]
        BY <1>2, <2>3, <3>4 DEF GiveOrSwap
      <4>. HIDE DEF new, t, k, h
      <4>2. t.items = new.items /\ t.ground = new.ground
        BY <3>2, <4>1 DEF Good, States
      <4>3. Sized(slack, t)
        BY <3>2, <4>2 DEF Sized
      <4>. QED  BY <4>3 DEF t
    <3>. QED  BY <3>3, <3>4
  <2>. QED  BY <2>1, <2>2, <2>3
<1>. QED  BY <1>1, <1>2

\* GiveOrSwapStack of no more than two stacks.
LEMMA SizedGaveStack ==
  ASSUME NEW slack \in [Defs -> Nat], NEW s, Good(s), Sized(slack, s), NEW used, NEW d \in Defs, NEW n \in Nat,
         n >= MaxStack[d], n - MaxStack[d] <= MaxStack[d] + slack[d]
  PROVE  Sized(slack, GiveOrSwapStack(s, used, d, n))
<1>1. n - MaxStack[d] \in Nat /\ Small(slack, d, n - MaxStack[d])
  BY StackIsMore DEF Small
<1>2. CASE d \notin SingleStack /\ (used < QuickbarSize \/ d \in DropOnOverflow)
  <2>1. GiveOrSwapStack(s, used, d, n) = Give(s, d, n - MaxStack[d])
    BY <1>2 DEF GiveOrSwapStack
  <2>. QED  BY <1>1, <2>1, SizedGiven
<1>3. CASE ~(d \notin SingleStack /\ (used < QuickbarSize \/ d \in DropOnOverflow))
  <2>1. GiveOrSwapStack(s, used, d, n) = Spawn(s, d, n - MaxStack[d])
    BY <1>3 DEF GiveOrSwapStack
  <2>. QED  BY <1>1, <2>1, SizedSpawned
<1>. QED  BY <1>2, <1>3

\* A stack with room that takes a pickup of one more than a stack at most: what
\* spills is one stack at most.
LEMMA SizedToppedUp ==
  ASSUME NEW slack \in [Defs -> Nat], NEW s, Good(s), Sized(slack, s), NEW used, NEW k \in DOMAIN s.items, NEW n \in Nat,
         s.items[k].inst < MaxStack[s.items[k].def],
         n <= MaxStack[s.items[k].def] + 1 + slack[s.items[k].def]
  PROVE  Sized(slack, TopUp(s, used, k, n, MaxStack[s.items[k].def]))
<1>. DEFINE d == s.items[k].def
            c == s.items[k].count
            sum == c + n
            half == Set(s, k, MaxStack[d])
            full == GiveOrSwapStack(half, used, d, sum)
            t == TopUp(s, used, k, n, MaxStack[d])
<1>1. /\ d \in Defs /\ c \in Nat /\ sum \in Nat /\ MaxStack[d] \in Nat /\ MaxStack[d] > 0
      /\ c < MaxStack[d] /\ n <= MaxStack[d] + 1 + slack[d] /\ slack[d] \in Nat /\ Whole(slack, s.items[k])
  <2>1. Whole(slack, s.items[k])
    BY DEF Sized
  <2>2. d \in Defs /\ c \in Nat /\ MaxStack[d] \in Nat /\ MaxStack[d] > 0 /\ c < MaxStack[d]
    BY StackFound
  <2>3. sum \in Nat
    <3>. HIDE DEF c
    <3>. QED  BY <2>2
  <2>. QED  BY <2>1, <2>2, <2>3
<1>2. CASE sum <= MaxStack[d]
  <2>1. t = Set(s, k, sum)
    BY <1>2 DEF TopUp
  <2>2. Whole(slack, Full(d, sum))
    BY <1>1, <1>2 DEF Whole, Full
  <2>3. Sized(slack, Set(s, k, sum))
    <3>. HIDE DEF sum
    <3>. QED  BY <1>1, <2>2, SizedSet
  <2>. QED  BY <2>1, <2>3
<1>3. CASE ~(sum <= MaxStack[d])
  <2>1. t = Set(full, k, MaxStack[d])
    BY <1>3 DEF TopUp
  <2>2. Whole(slack, Full(d, MaxStack[d]))
    BY <1>1 DEF Whole, Full
  <2>3. /\ Good(half) /\ Sized(slack, half) /\ half.items = [s.items EXCEPT ![k] = Full(d, MaxStack[d])]
    BY <1>1, <2>2, WasSet, SizedSet
  <2>4. k \in DOMAIN half.items /\ half.items[k].def = d
    BY <2>3 DEF Full
  <2>5. sum >= MaxStack[d] /\ sum - MaxStack[d] <= MaxStack[d] + slack[d]
    <3>. HIDE DEF c, d
    <3>. QED  BY <1>1, <1>3
  <2>6. Good(full) /\ Sized(slack, full) /\ Grows(half, full)
    <3>. HIDE DEF half, d, sum
    <3>. QED  BY <1>1, <2>3, <2>5, GaveStack, SizedGaveStack
  <2>7. k \in DOMAIN full.items /\ full.items[k].def = d
    BY <2>4, <2>6 DEF Grows
  <2>8. Sized(slack, Set(full, k, MaxStack[d]))
    <3>. HIDE DEF full, d
    <3>. QED  BY <1>1, <2>2, <2>6, <2>7, SizedSet
  <2>. QED  BY <2>1, <2>8
<1>. QED  BY <1>2, <1>3

\* A small pickup leaves no stack too large, and nothing large on the ground.
LEMMA SizedPickedUp ==
  ASSUME NEW slack \in [Defs -> Nat], NEW s, Good(s), Sized(slack, s), NEW d \in Defs, NEW n \in Nat, Small(slack, d, n)
  PROVE  Sized(slack, PickedUp(s, d, n, MaxStack[d]))
<1>. DEFINE used == ItemCount(s, d)
            partial == First({k \in Of(s, d) : s.items[k].inst < MaxStack[d]})
            other == First({k \in Of(s, d) : s.items[k].count >= MaxStack[d]})
            gave == GiveOrSwapStack(s, used, d, n)
            t == PickedUp(s, d, n, MaxStack[d])
<1>1. MaxStack[d] \in Nat /\ MaxStack[d] > 0 /\ n <= MaxStack[d] + 1 + slack[d] /\ slack[d] \in Nat
  BY StackIsMore DEF Small
<1>2. CASE MaxStack[d] = 1
  <2>1. t = GiveOrSwap(s, used, d, n) /\ n <= MaxStack[d] + slack[d]
    BY <1>1, <1>2 DEF PickedUp, Small
  <2>. HIDE DEF used
  <2>. QED  BY <2>1, SizedGaveOrSwapped
<1>3. CASE MaxStack[d] > 1 /\ partial # 0
  <2>1. t = TopUp(s, used, partial, n, MaxStack[d])
    BY <1>3 DEF PickedUp
  <2>2. /\ partial \in DOMAIN s.items /\ s.items[partial].def = d
        /\ s.items[partial].inst < MaxStack[d]
    <3>. DEFINE P == {k \in Of(s, d) : s.items[k].inst < MaxStack[d]}
    <3>1. P \subseteq Nat \ {0}
      BY OfIsPlaces
    <3>2. First(P) \in P
      <4>. HIDE DEF P
      <4>. QED  BY <1>3, <3>1, FirstIsLeast DEF P
    <3>. QED  BY <3>2, OfIsPlaces
  <2>. HIDE DEF used, partial
  <2>. QED  BY <1>1, <2>1, <2>2, SizedToppedUp
<1>4. CASE MaxStack[d] > 1 /\ partial = 0 /\ other # 0 /\ d \in SingleStack
  <2>1. t = Spawn(s, d, n)
    BY <1>4 DEF PickedUp
  <2>. QED  BY <2>1, SizedSpawned
<1>5. CASE MaxStack[d] > 1 /\ partial = 0 /\ ~(other # 0 /\ d \in SingleStack)
  <2>. HIDE DEF used, partial, other
  <2>1. CASE n > MaxStack[d]
    <3>1. t = GiveOrSwap(gave, used, d, MaxStack[d])
      BY <1>5, <2>1 DEF PickedUp, used, partial, other
    <3>2. n >= MaxStack[d] /\ n - MaxStack[d] <= MaxStack[d] + slack[d]
        /\ MaxStack[d] <= MaxStack[d] + slack[d]
      BY <1>1, <2>1
    <3>3. Good(gave) /\ Sized(slack, gave)
      BY <3>2, GaveStack, SizedGaveStack
    <3>. HIDE DEF gave
    <3>. QED  BY <1>1, <3>1, <3>2, <3>3, SizedGaveOrSwapped
  <2>2. CASE ~(n > MaxStack[d])
    <3>1. t = GiveOrSwap(s, used, d, n) /\ n <= MaxStack[d] + slack[d]
      BY <1>1, <1>5, <2>2 DEF PickedUp, used, partial, other
    <3>. QED  BY <3>1, SizedGaveOrSwapped
  <2>. QED  BY <2>1, <2>2
<1>. HIDE DEF used, partial, other
<1>. QED  BY <1>1, <1>2, <1>3, <1>4, <1>5

\* A small harvest likewise.
LEMMA SizedHarvested ==
  ASSUME NEW slack \in [Defs -> Nat], NEW s, Good(s), Sized(slack, s), NEW k \in DOMAIN s.items, NEW n \in Nat,
         n <= MaxStack[s.items[k].def] + 1, MaxStack[s.items[k].def] = 1 => n <= 1
  PROVE  Sized(slack, Harvested(s, k, s.items[k].def, n))
<1>. DEFINE d == s.items[k].def
            c == s.items[k].count
            sum == c + n
            u == Spawn(s, d, sum - MaxStack[d])
            t == Harvested(s, k, d, n)
<1>1. /\ d \in Defs /\ c \in Nat /\ sum \in Nat /\ MaxStack[d] \in Nat /\ MaxStack[d] > 0
      /\ c <= MaxStack[d] + slack[d] /\ slack[d] \in Nat /\ Whole(slack, s.items[k])
  <2>1. Whole(slack, s.items[k])
    BY DEF Sized
  <2>2. d \in Defs /\ c \in Nat /\ MaxStack[d] \in Nat /\ MaxStack[d] > 0
    BY StackFound
  <2>3. sum \in Nat
    <3>. HIDE DEF c
    <3>. QED  BY <2>2
  <2>. QED  BY <2>1, <2>2, <2>3 DEF Whole
<1>2. CASE sum > MaxStack[d]
  <2>1. t = Set(u, k, MaxStack[d]) /\ sum - MaxStack[d] \in Nat
    BY <1>1, <1>2 DEF Harvested
  <2>2. Small(slack, d, sum - MaxStack[d])
    <3>1. n <= MaxStack[d] + 1 /\ (MaxStack[d] = 1 => n <= 1)
      OBVIOUS
    <3>. HIDE DEF c, d
    <3>. QED  BY <1>1, <3>1 DEF Small
  <2>3. Good(u) /\ Sized(slack, u) /\ u.items = s.items
    <3>. HIDE DEF d, sum
    <3>. QED  BY <1>1, <2>1, <2>2, Spawned, SizedSpawned
  <2>4. Whole(slack, Full(d, MaxStack[d]))
    BY <1>1 DEF Whole, Full
  <2>5. k \in DOMAIN u.items /\ u.items[k].def = d
    BY <2>3
  <2>6. Sized(slack, Set(u, k, MaxStack[d]))
    <3>. HIDE DEF u, d
    <3>. QED  BY <1>1, <2>3, <2>4, <2>5, SizedSet
  <2>. QED  BY <2>1, <2>6
<1>3. CASE ~(sum > MaxStack[d])
  <2>1. t = Set(s, k, sum)
    BY <1>3 DEF Harvested
  <2>2. Whole(slack, Full(d, sum))
    BY <1>1, <1>3 DEF Whole, Full
  <2>3. Sized(slack, Set(s, k, sum))
    <3>. HIDE DEF sum
    <3>. QED  BY <1>1, <2>2, SizedSet
  <2>. QED  BY <2>1, <2>3
<1>. QED  BY <1>2, <1>3

(* What fills the bar. *)

\* The two weights: places in the bar, and stacks.
LEMMA WeightsTyped ==
  /\ SlotsOf \in [Defs -> Nat] /\ SlotsOf \in [Defs -> Int] /\ StacksOf \in [Defs -> Int]
  /\ \A d \in Defs : StacksOf[d] = IF MaxStack[d] > 1 THEN 1 ELSE 0
  /\ \A d \in Defs : SlotsOf[d] = IF d \in Primary THEN SlotSize[d] ELSE 0
<1>1. \A d \in Defs : SlotSize[d] \in Nat
  BY DefsAssumption
<1>. QED  BY <1>1 DEF SlotsOf, StacksOf

\* The weight of a good inventory is a number.
LEMMA BarTyped ==
  ASSUME NEW s, Good(s), NEW w \in [Defs -> Int]
  PROVE  Weigh(w, s.items) \in Int
  BY WeighTyped DEF Good, States

\* GiveItem adds the weight of its stack.
LEMMA GivenWeighs ==
  ASSUME NEW s, Good(s), NEW d \in Defs, NEW n \in Nat, NEW w \in [Defs -> Int]
  PROVE  Weigh(w, Give(s, d, n).items) = Weigh(w, s.items) + (IF n = 0 THEN 0 ELSE w[d])
<1>1. s.items \in Seq(Stack) /\ Full(d, n) \in Stack /\ Full(d, n).def = d /\ Weigh(w, s.items) \in Int
  BY BarTyped DEF Good, States, Full, Stack
<1>2. CASE n = 0
  BY <1>1, <1>2, GivenAtEnd
<1>3. CASE n # 0
  <2>1. Give(s, d, n).items = Append(s.items, Full(d, n))
    BY <1>3, GivenAtEnd
  <2>. QED  BY <1>1, <1>3, <2>1, WeighAppended
<1>. QED  BY <1>2, <1>3

\* Remove takes the weight of its stack.
LEMMA TakenWeighs ==
  ASSUME NEW s, Good(s), NEW k \in DOMAIN s.items, NEW w \in [Defs -> Int]
  PROVE  Weigh(w, Take(s, k).items) = Weigh(w, s.items) - w[s.items[k].def]
<1>1. s.items \in Seq(Stack) /\ k \in 1 .. Len(s.items)
  <2>1. s.items \in Seq(Stack)
    BY DEF Good, States
  <2>. QED  BY <2>1
<1>2. Take(s, k).items = Seqs!RemoveAt(s.items, k)
  BY Taken
<1>. QED  BY <1>1, <1>2, WeighRemoved

\* What is set weighs what it did.
LEMMA SetWeighs ==
  ASSUME NEW s, Good(s), NEW k \in DOMAIN s.items, NEW n \in Nat, NEW w \in [Defs -> Int]
  PROVE  Weigh(w, Set(s, k, n).items) = Weigh(w, s.items)
<1>. DEFINE new == Set(s, k, n).items
<1>1. s.items \in Seq(Stack) /\ new \in Seq(Stack) /\ new = [s.items EXCEPT ![k] = Full(s.items[k].def, n)]
  <2>1. Good(Set(s, k, n)) /\ new = [s.items EXCEPT ![k] = Full(s.items[k].def, n)]
    BY WasSet
  <2>2. s.items \in Seq(Stack) /\ Set(s, k, n).items \in Seq(Stack)
    BY <2>1 DEF Good, States
  <2>. QED  BY <2>1, <2>2
<1>2. Len(new) = Len(s.items) /\ \A i \in 1 .. Len(s.items) : new[i].def = s.items[i].def
  <2>. HIDE DEF new
  <2>. QED  BY <1>1 DEF Full
<1>. HIDE DEF new
<1>3. Weigh(w, new) = Weigh(w, s.items)
  BY <1>1, <1>2, WeighSame
<1>. QED  BY <1>3 DEF new

\* The slots in use are a number.
LEMMA SlotsTyped == ASSUME NEW s, Good(s) PROVE Slots(s.items) \in Int
  BY WeightsTyped, BarTyped DEF Slots

\* A stack that is left with less takes no more of the bar.
LEMMA LeftWeighs ==
  ASSUME NEW s, Good(s), NEW k \in DOMAIN s.items, NEW n \in Int
  PROVE  /\ Slots(Left(s, k, n).items) <= Slots(s.items)
         /\ Slots(Take(s, k).items) <= Slots(s.items)
<1>1. SlotsOf \in [Defs -> Int] /\ SlotsOf[s.items[k].def] \in Nat /\ Weigh(SlotsOf, s.items) \in Int
  BY WeightsTyped, StackFound, BarTyped
<1>2. Slots(Take(s, k).items) <= Slots(s.items)
  BY <1>1, TakenWeighs DEF Slots
<1>3. CASE n <= 0
  BY <1>2, <1>3 DEF Left
<1>4. CASE ~(n <= 0)
  <2>1. n \in Nat /\ Left(s, k, n) = Set(s, k, n)
    BY <1>4 DEF Left
  <2>. QED  BY <1>1, <1>2, <2>1, SetWeighs DEF Slots
<1>. QED  BY <1>2, <1>3, <1>4

\* What goes to the bar takes one place of it, and may be swapped for what is in
\* hand.
OnePlaceEach == \A d \in Primary : SlotSize[d] = 1 /\ d \in DropOnOverflow

\* A swap takes one weight for another.
LEMMA SwappedWeighs ==
  ASSUME NEW s, Good(s), NEW k \in DOMAIN s.items, NEW d \in Defs, NEW n \in Nat,
         NEW w \in [Defs -> Int]
  PROVE  Weigh(w, Swapped(s, k, d, n).items) =
           Weigh(w, s.items) - w[s.items[k].def] + (IF n = 0 THEN 0 ELSE w[d])
<1>. DEFINE e == s.items[k]
            u == Spawn(s, e.def, e.count)
            v == Take(u, k)
<1>1. e.def \in Defs /\ e.count \in Nat /\ Weigh(w, s.items) \in Int
  BY StackFound, BarTyped
<1>2. Good(u) /\ u.items = s.items
  <2>. HIDE DEF e
  <2>. QED  BY <1>1, Spawned
<1>3. Good(v) /\ Weigh(w, v.items) = Weigh(w, s.items) - w[e.def]
  <2>. HIDE DEF u
  <2>. QED  BY <1>2, Taken, TakenWeighs
<1>. HIDE DEF v
<1>4. Weigh(w, Give(v, d, n).items) = Weigh(w, v.items) + (IF n = 0 THEN 0 ELSE w[d])
  BY <1>3, GivenWeighs
<1>5. Swapped(s, k, d, n) = Give(v, d, n)
  BY DEF Swapped, v
<1>. QED  BY <1>3, <1>4, <1>5

\* The bar grows by one place, and only when it has one; a stacked item leaves as
\* many stacks as there were.
LEMMA SwapFills ==
  ASSUME OnePlaceEach, NEW s, Good(s), NEW used, NEW d \in Defs, NEW n \in Nat
  PROVE  LET t == GiveOrSwap(s, used, d, n)
         IN /\ \/ Slots(t.items) <= Slots(s.items)
               \/ d \in Primary /\ used < QuickbarSize /\ Slots(t.items) = Slots(s.items) + 1
            /\ MaxStack[d] > 1 /\ n # 0 => Weigh(StacksOf, t.items) >= Weigh(StacksOf, s.items)
<1>. DEFINE k == s.hand.at
            new == Swapped(s, k, d, n)
            t == GiveOrSwap(s, used, d, n)
<1>1. /\ SlotsOf \in [Defs -> Int] /\ StacksOf \in [Defs -> Int]
      /\ \A x \in Defs : SlotsOf[x] = (IF x \in Primary THEN 1 ELSE 0)
                         /\ StacksOf[x] = (IF MaxStack[x] > 1 THEN 1 ELSE 0)
      /\ Weigh(SlotsOf, s.items) \in Int /\ Weigh(StacksOf, s.items) \in Int
  BY WeightsTyped, BarTyped DEF OnePlaceEach
<1>2. CASE used < QuickbarSize \/ d \notin Primary \intersect DropOnOverflow
  <2>1. t = Give(s, d, n)
    BY <1>2 DEF GiveOrSwap
  <2>2. Weigh(SlotsOf, t.items) = Weigh(SlotsOf, s.items) + (IF n = 0 THEN 0 ELSE SlotsOf[d])
    BY <1>1, <2>1, GivenWeighs
  <2>3. Weigh(StacksOf, t.items) = Weigh(StacksOf, s.items) + (IF n = 0 THEN 0 ELSE StacksOf[d])
    BY <1>1, <2>1, GivenWeighs
  <2>4. d \in Primary => used < QuickbarSize
    BY <1>2 DEF OnePlaceEach
  <2>. HIDE DEF t
  <2>5. /\ \/ Slots(t.items) <= Slots(s.items)
           \/ d \in Primary /\ used < QuickbarSize /\ Slots(t.items) = Slots(s.items) + 1
        /\ MaxStack[d] > 1 /\ n # 0 => Weigh(StacksOf, t.items) >= Weigh(StacksOf, s.items)
    BY <1>1, <2>2, <2>3, <2>4 DEF Slots
  <2>. QED  BY <2>5 DEF t
<1>3. CASE ~(used < QuickbarSize \/ d \notin Primary \intersect DropOnOverflow)
  <2>1. CASE s.hand = Unarmed
    <3>. DEFINE b == [s.ledger EXCEPT ![d] = s.ledger[d] - n]
    <3>1. s \in States
      BY DEF Good
    <3>2. t = [s EXCEPT !.ledger = b]
      BY <1>3, <2>1, <3>1 DEF GiveOrSwap, States
    <3>. HIDE DEF b, t
    <3>3. t.items = s.items
      BY <3>1, <3>2 DEF States
    <3>4. Slots(t.items) <= Slots(s.items) /\ Weigh(StacksOf, t.items) >= Weigh(StacksOf, s.items)
      BY <1>1, <3>3 DEF Slots
    <3>. QED  BY <3>4 DEF t
  <2>2. CASE s.hand # Unarmed /\ (s.hand.def \notin Primary \/ k = 0 \/ s.items[k].count <= 0)
    <3>1. t = Spawn(s, d, n)
      BY <1>3, <2>2 DEF GiveOrSwap
    <3>2. t.items = s.items
      BY <3>1, Spawned
    <3>. HIDE DEF t
    <3>3. Slots(t.items) <= Slots(s.items) /\ Weigh(StacksOf, t.items) >= Weigh(StacksOf, s.items)
      BY <1>1, <3>2 DEF Slots
    <3>. QED  BY <3>3 DEF t
  <2>3. CASE s.hand # Unarmed /\ ~(s.hand.def \notin Primary \/ k = 0 \/ s.items[k].count <= 0)
    <3>1. k \in DOMAIN s.items /\ s.items[k].def \in Primary
      BY <2>3 DEF Good, States, Hand, HandFits
    <3>2. s.items[k].def \in Defs
      BY <3>1, StackFound
    <3>3. Weigh(SlotsOf, new.items) = Weigh(SlotsOf, s.items) - SlotsOf[s.items[k].def]
                                        + (IF n = 0 THEN 0 ELSE SlotsOf[d])
      <4>. HIDE DEF k
      <4>. QED  BY <1>1, <3>1, SwappedWeighs
    <3>4. Weigh(StacksOf, new.items) = Weigh(StacksOf, s.items) - StacksOf[s.items[k].def]
                                         + (IF n = 0 THEN 0 ELSE StacksOf[d])
      <4>. HIDE DEF k
      <4>. QED  BY <1>1, <3>1, SwappedWeighs
    <3>5. t.items = new.items
      <4>1. Good(new)
        <5>. HIDE DEF k
        <5>. QED  BY <3>1, Swaps
      <4>2. CASE n = 0
        BY <1>3, <2>3, <4>2 DEF GiveOrSwap
      <4>3. CASE n # 0
        <5>. DEFINE h == [at |-> Len(new.items), def |-> d]
        <5>1. t = [new EXCEPT !.hand = h]
          BY <1>3, <2>3, <4>3 DEF GiveOrSwap
        <5>. HIDE DEF new, t, k, h
        <5>. QED  BY <4>1, <5>1 DEF Good, States
      <4>. QED  BY <4>2, <4>3
    <3>. HIDE DEF t, new, k
    <3>6. /\ Slots(t.items) <= Slots(s.items)
          /\ MaxStack[d] > 1 /\ n # 0 => Weigh(StacksOf, t.items) >= Weigh(StacksOf, s.items)
      BY <1>1, <3>1, <3>2, <3>3, <3>4, <3>5 DEF Slots
    <3>. QED  BY <3>6 DEF t
  <2>. QED  BY <2>1, <2>2, <2>3
<1>. QED  BY <1>2, <1>3

\* GiveOrSwapStack adds a stack, or nothing to the inventory.
LEMMA StackFills ==
  ASSUME NEW s, Good(s), NEW used, NEW d \in Defs, NEW n \in Nat, n >= MaxStack[d], MaxStack[d] > 1
  PROVE  LET t == GiveOrSwapStack(s, used, d, n)
         IN \/ t.items = s.items
            \/ n > MaxStack[d] /\ Weigh(StacksOf, t.items) = Weigh(StacksOf, s.items) + 1
<1>. DEFINE t == GiveOrSwapStack(s, used, d, n)
<1>1. /\ n - MaxStack[d] \in Nat /\ StacksOf \in [Defs -> Int] /\ StacksOf[d] = 1
      /\ Weigh(StacksOf, s.items) \in Int
  BY StackIsMore, WeightsTyped, BarTyped
<1>2. CASE d \notin SingleStack /\ (used < QuickbarSize \/ d \in DropOnOverflow)
  <2>1. t = Give(s, d, n - MaxStack[d])
    BY <1>2 DEF GiveOrSwapStack
  <2>2. Weigh(StacksOf, t.items)
          = Weigh(StacksOf, s.items) + (IF n - MaxStack[d] = 0 THEN 0 ELSE StacksOf[d])
    BY <1>1, <2>1, GivenWeighs
  <2>3. n - MaxStack[d] = 0 => t = s
    BY <1>1, <2>1, GivenAtEnd
  <2>4. MaxStack[d] \in Nat
    BY StackIsMore
  <2>. HIDE DEF t
  <2>5. CASE n - MaxStack[d] = 0
    BY <2>3, <2>5 DEF t
  <2>6. CASE n - MaxStack[d] # 0
    <3>1. n > MaxStack[d]
      BY <2>4, <2>6
    <3>2. Weigh(StacksOf, t.items) = Weigh(StacksOf, s.items) + 1
      BY <1>1, <2>2, <2>6
    <3>. QED  BY <3>1, <3>2 DEF t
  <2>. QED  BY <2>5, <2>6
<1>3. CASE ~(d \notin SingleStack /\ (used < QuickbarSize \/ d \in DropOnOverflow))
  <2>1. t = Spawn(s, d, n - MaxStack[d])
    BY <1>3 DEF GiveOrSwapStack
  <2>. QED  BY <1>1, <2>1, Spawned
<1>. QED  BY <1>2, <1>3

\* The bar keeps to its places, or a stack was added.
Fills(seq, new) ==
  \/ Slots(new) <= Slots(seq) \/ Slots(new) <= QuickbarSize
  \/ Weigh(StacksOf, new) > Weigh(StacksOf, seq)

\* A stack with room that takes a pickup fills the bar only by a stack that spills.
LEMMA TopUpFills ==
  ASSUME NEW s, Good(s), NEW used, NEW k \in DOMAIN s.items, NEW n \in Nat,
         NEW seen \in 0 .. MaxStack[s.items[k].def], MaxStack[s.items[k].def] > 1
  PROVE  Fills(s.items, TopUp(s, used, k, n, seen).items)
<1>. DEFINE d == s.items[k].def
            sum == s.items[k].count + n
            half == Set(s, k, MaxStack[d])
            full == GiveOrSwapStack(half, used, d, sum)
            last == IF full.room > s.room THEN seen ELSE MaxStack[d]
            t == TopUp(s, used, k, n, seen)
<1>1. /\ d \in Defs /\ sum \in Nat /\ MaxStack[d] \in Nat /\ MaxStack[d] > 1 /\ last \in Nat
      /\ SlotsOf \in [Defs -> Int] /\ StacksOf \in [Defs -> Int]
      /\ Weigh(SlotsOf, s.items) \in Int /\ Weigh(StacksOf, s.items) \in Int
  <2>1. d \in Defs /\ s.items[k].count \in Nat /\ MaxStack[d] \in Nat /\ seen \in Nat
    BY StackFound
  <2>2. last \in Nat
    <3>. HIDE DEF full, d
    <3>. QED  BY <2>1
  <2>. HIDE DEF last
  <2>. QED  BY <2>1, <2>2, WeightsTyped, BarTyped
<1>2. CASE sum <= MaxStack[d]
  <2>1. t = Set(s, k, sum)
    BY <1>2 DEF TopUp
  <2>2. Weigh(SlotsOf, Set(s, k, sum).items) = Weigh(SlotsOf, s.items)
    <3>. HIDE DEF sum
    <3>. QED  BY <1>1, SetWeighs
  <2>. HIDE DEF t
  <2>3. Slots(t.items) <= Slots(s.items)
    BY <1>1, <2>1, <2>2 DEF Slots
  <2>. QED  BY <2>3 DEF Fills, t
<1>3. CASE ~(sum <= MaxStack[d])
  <2>1. t = Set(full, k, last)
    BY <1>3 DEF TopUp
  <2>2. /\ Good(half) /\ half.items = [s.items EXCEPT ![k] = Full(d, MaxStack[d])]
        /\ Weigh(SlotsOf, half.items) = Weigh(SlotsOf, s.items)
        /\ Weigh(StacksOf, half.items) = Weigh(StacksOf, s.items)
    BY <1>1, WasSet, SetWeighs
  <2>3. k \in DOMAIN half.items
    BY <2>2
  <2>4. sum >= MaxStack[d]
    <3>. HIDE DEF sum, d
    <3>. QED  BY <1>1, <1>3
  <2>5. Good(full) /\ Grows(half, full)
    <3>. HIDE DEF half, d, sum
    <3>. QED  BY <1>1, <2>2, <2>4, GaveStack
  <2>6. \/ full.items = half.items
        \/ Weigh(StacksOf, full.items) = Weigh(StacksOf, half.items) + 1
    <3>. HIDE DEF half, d, sum
    <3>. QED  BY <1>1, <2>2, <2>4, StackFills
  <2>7. k \in DOMAIN full.items
    BY <2>3, <2>5 DEF Grows
  <2>8. /\ Weigh(SlotsOf, Set(full, k, last).items) = Weigh(SlotsOf, full.items)
        /\ Weigh(StacksOf, Set(full, k, last).items) = Weigh(StacksOf, full.items)
    <3>. HIDE DEF full, last
    <3>. QED  BY <1>1, <2>5, <2>7, SetWeighs
  <2>. HIDE DEF full, half, last, t
  <2>9. Slots(t.items) <= Slots(s.items) \/ Weigh(StacksOf, t.items) > Weigh(StacksOf, s.items)
    BY <1>1, <2>1, <2>2, <2>6, <2>8 DEF Slots
  <2>. QED  BY <2>9 DEF Fills, t
<1>. QED  BY <1>2, <1>3

\* InternalPickupLogic takes an inventory beyond the bar only by a stack.
LEMMA PickUpFills ==
  ASSUME OnePlaceEach, NEW s, Good(s), NEW d \in Defs, NEW n \in Nat, NEW seen \in 0 .. MaxStack[d]
  PROVE  Fills(s.items, PickedUp(s, d, n, seen).items)
<1>. DEFINE used == ItemCount(s, d)
            partial == First({k \in Of(s, d) : s.items[k].inst < MaxStack[d]})
            other == First({k \in Of(s, d) : s.items[k].count >= MaxStack[d]})
            gave == GiveOrSwapStack(s, used, d, n)
            t == PickedUp(s, d, n, seen)
<1>1. /\ MaxStack[d] \in Nat /\ MaxStack[d] > 0 /\ QuickbarSize \in Nat
      /\ Slots(s.items) \in Int /\ Weigh(StacksOf, s.items) \in Int
      /\ (d \in Primary => used = Slots(s.items))
  BY StackIsMore, BoundsAssumption, WeightsTyped, BarTyped DEF Slots, ItemCount, OnePlaceEach
\* A single pickup.
<1>2. ASSUME t = GiveOrSwap(s, used, d, n) PROVE Fills(s.items, t.items)
  <2>. HIDE DEF used, t
  <2>1. \/ Slots(t.items) <= Slots(s.items)
        \/ d \in Primary /\ used < QuickbarSize /\ Slots(t.items) = Slots(s.items) + 1
    BY <1>2, SwapFills
  <2>2. Slots(t.items) <= Slots(s.items) \/ Slots(t.items) <= QuickbarSize
    BY <1>1, <2>1
  <2>. QED  BY <2>2 DEF Fills
<1>3. CASE MaxStack[d] = 1
  BY <1>2, <1>3 DEF PickedUp
<1>4. CASE MaxStack[d] > 1 /\ partial # 0
  <2>1. t = TopUp(s, used, partial, n, seen)
    BY <1>4 DEF PickedUp
  <2>2. partial \in DOMAIN s.items /\ s.items[partial].def = d
    <3>. DEFINE P == {k \in Of(s, d) : s.items[k].inst < MaxStack[d]}
    <3>1. P \subseteq Nat \ {0}
      BY OfIsPlaces
    <3>2. First(P) \in P
      <4>. HIDE DEF P
      <4>. QED  BY <1>4, <3>1, FirstIsLeast DEF P
    <3>. QED  BY <3>2, OfIsPlaces
  <2>. HIDE DEF used, partial
  <2>. QED  BY <1>4, <2>1, <2>2, TopUpFills
<1>5. CASE MaxStack[d] > 1 /\ partial = 0 /\ other # 0 /\ d \in SingleStack
  <2>1. t = Spawn(s, d, n)
    BY <1>5 DEF PickedUp
  <2>2. t.items = s.items
    BY <2>1, Spawned
  <2>. QED  BY <1>1, <2>2 DEF Fills
<1>6. CASE MaxStack[d] > 1 /\ partial = 0 /\ ~(other # 0 /\ d \in SingleStack)
  <2>1. CASE n > MaxStack[d]
    <3>1. t = GiveOrSwap(gave, used, d, MaxStack[d])
      <4>. HIDE DEF used, partial, other
      <4>. QED  BY <1>6, <2>1 DEF PickedUp, used, partial, other
    <3>. HIDE DEF used, partial, other
    <3>2. n >= MaxStack[d] /\ MaxStack[d] > 1
      BY <1>1, <1>6, <2>1
    <3>3. Good(gave)
      BY <3>2, GaveStack
    <3>4. gave.items = s.items \/ Weigh(StacksOf, gave.items) = Weigh(StacksOf, s.items) + 1
      BY <3>2, StackFills
    <3>. HIDE DEF gave, t
    <3>5. /\ \/ Slots(t.items) <= Slots(gave.items)
             \/ d \in Primary /\ used < QuickbarSize /\ Slots(t.items) = Slots(gave.items) + 1
          /\ Weigh(StacksOf, t.items) >= Weigh(StacksOf, gave.items)
      <4>1. MaxStack[d] # 0
        BY <1>1
      <4>. QED  BY <1>1, <3>1, <3>2, <3>3, <4>1, SwapFills
    <3>6. CASE gave.items = s.items
      <4>1. Slots(t.items) <= Slots(s.items) \/ Slots(t.items) <= QuickbarSize
        BY <1>1, <3>5, <3>6
      <4>. QED  BY <4>1 DEF Fills, t
    <3>7. CASE Weigh(StacksOf, gave.items) = Weigh(StacksOf, s.items) + 1
      <4>1. Weigh(StacksOf, t.items) > Weigh(StacksOf, s.items)
        <5>1. Good(t)
          BY <1>1, <3>1, <3>3, GaveOrSwapped
        <5>2. Weigh(StacksOf, t.items) \in Int
          BY <5>1, WeightsTyped, BarTyped
        <5>. QED  BY <1>1, <3>5, <3>7, <5>2
      <4>. QED  BY <4>1 DEF Fills, t
    <3>. QED  BY <3>4, <3>6, <3>7 DEF t
  <2>2. CASE ~(n > MaxStack[d])
    <3>1. t = GiveOrSwap(s, used, d, n)
      <4>. HIDE DEF used, partial, other
      <4>. QED  BY <1>6, <2>2 DEF PickedUp, used, partial, other
    <3>. QED  BY <1>2, <3>1
  <2>. QED  BY <2>1, <2>2
<1>. HIDE DEF used, partial, other
<1>. QED  BY <1>1, <1>3, <1>4, <1>5, <1>6

(* A death. *)

\* What became of s when the stacks above place m have been seen to.
Emptying(s, m, drops, goes) ==
  {t \in States :
     /\ Good(t) /\ m <= Len(t.items)
     /\ \A k \in 1 .. m : t.items[k] = s.items[k]
     /\ \A k \in DOMAIN t.items : k > m => t.items[k].def \notin drops \union goes
     /\ \A d \in Defs \ goes : Balance(t, d) = Balance(s, d)
     /\ \A d \in Defs \ drops : Amount(d, t.ground) = Amount(d, s.ground)
     /\ t.ledger = s.ledger
     /\ \A slack \in [Defs -> Nat] : Sized(slack, s) => Sized(slack, t)
     /\ Slots(t.items) <= Slots(s.items)}

\* The loop over the stacks, from the last to the first, goes on at place m.
LEMMA EmptiesOne ==
  ASSUME NEW s, Good(s), NEW drops, NEW goes, NEW m \in 1 .. Len(s.items),
         NEW t, t \in Emptying(s, m, drops, goes)
  PROVE  (IF s.items[m].def \in drops THEN Take(Spawn(t, s.items[m].def, s.items[m].count), m)
          ELSE IF s.items[m].def \in goes THEN Take(t, m) ELSE t) \in Emptying(s, m - 1, drops, goes)
<1>. DEFINE e == s.items[m]
            u == Spawn(t, e.def, e.count)
<1>1. /\ Good(t) /\ t \in States /\ m <= Len(t.items) /\ e = t.items[m] /\ m \in DOMAIN t.items
      /\ e.def \in Defs /\ e.count \in Nat /\ s.items \in Seq(Stack) /\ t.items \in Seq(Stack)
      /\ m \in Nat /\ Len(t.items) \in Nat
  <2>1. /\ Good(t) /\ t \in States /\ m <= Len(t.items) /\ s.items \in Seq(Stack) /\ t.items \in Seq(Stack)
    BY DEF Emptying, Good, States
  <2>2. e \in Stack /\ m \in DOMAIN t.items /\ e = t.items[m] /\ m \in Nat /\ Len(t.items) \in Nat
    BY <2>1 DEF Emptying
  <2>. QED  BY <2>1, <2>2 DEF Stack
<1>. HIDE DEF e
\* What a removal at m leaves.
<1>2. ASSUME NEW w, Good(w), w.items = t.items
      PROVE  LET v == Take(w, m)
             IN /\ Good(v) /\ v \in States /\ m - 1 <= Len(v.items)
                /\ \A k \in 1 .. m - 1 : v.items[k] = s.items[k]
                /\ \A k \in DOMAIN v.items : k > m - 1 => v.items[k].def \notin drops \union goes
                /\ v.ground = w.ground /\ v.ledger = w.ledger
                /\ Gains(w, v, e.def, -e.count)
  <2>. DEFINE v == Take(w, m)
              n == Len(t.items)
  <2>1. /\ Good(v) /\ v.items = Seqs!RemoveAt(t.items, m) /\ v.ground = w.ground
        /\ v.ledger = w.ledger /\ Gains(w, v, e.def, -e.count)
    BY <1>1, <1>2, Taken
  <2>2. /\ Len(v.items) = n - 1
        /\ \A j \in 1 .. n - 1 : v.items[j] = IF j < m THEN t.items[j] ELSE t.items[j + 1]
    <3>1. m \in 1 .. Len(t.items)
      BY <1>1
    <3>. HIDE DEF v
    <3>. QED  BY <1>1, <2>1, <3>1, Removal
  <2>. HIDE DEF v, n
  <2>3. v \in States /\ DOMAIN v.items = 1 .. n - 1 /\ n \in Nat /\ m <= n
    <3>1. v \in States /\ v.items \in Seq(Stack)
      BY <2>1 DEF Good, States
    <3>2. n \in Nat /\ m <= n
      BY <1>1 DEF n
    <3>. QED  BY <2>2, <3>1, <3>2
  <2>4. ASSUME NEW k \in 1 .. m - 1 PROVE v.items[k] = s.items[k]
    <3>1. k \in 1 .. n - 1 /\ k < m /\ k \in 1 .. m
      BY <1>1, <2>3
    <3>. QED  BY <2>2, <3>1 DEF Emptying
  <2>5. ASSUME NEW k \in DOMAIN v.items, k > m - 1 PROVE v.items[k].def \notin drops \union goes
    <3>1. k \in 1 .. n - 1 /\ ~(k < m) /\ k + 1 \in 1 .. n /\ k + 1 > m
      BY <1>1, <2>3, <2>5
    <3>2. k + 1 \in DOMAIN t.items /\ v.items[k] = t.items[k + 1]
      BY <1>1, <2>2, <3>1 DEF n
    <3>. QED  BY <3>1, <3>2 DEF Emptying
  <2>6. m - 1 <= Len(v.items)
    BY <1>1, <2>2, <2>3
  <2>. QED  BY <2>1, <2>3, <2>4, <2>5, <2>6 DEF v
<1>3. \A x \in Defs : Balance(t, x) \in Int /\ Balance(s, x) \in Int
  BY <1>1, StateTyped DEF Good
<1>4. CASE e.def \in drops
  <2>1. /\ Good(u) /\ Gains(t, u, e.def, e.count) /\ u.items = t.items
        /\ u.ledger = t.ledger /\ u.ground = Append(t.ground, Pickup(e.def, e.count))
    <3>1. Good(t) /\ e.def \in Defs /\ e.count \in Nat
      BY <1>1
    <3>. QED  BY <3>1, Spawned
  <2>. DEFINE v == Take(u, m)
  <2>. HIDE DEF u
  <2>2. /\ Good(v) /\ v \in States /\ m - 1 <= Len(v.items)
        /\ \A k \in 1 .. m - 1 : v.items[k] = s.items[k]
        /\ \A k \in DOMAIN v.items : k > m - 1 => v.items[k].def \notin drops \union goes
        /\ v.ground = u.ground /\ v.ledger = u.ledger
        /\ Gains(u, v, e.def, -e.count)
    BY <1>2, <2>1
  <2>. HIDE DEF v
  <2>3. ASSUME NEW d \in Defs \ goes PROVE Balance(v, d) = Balance(s, d)
    <3>1. Balance(u, d) \in Int /\ Balance(v, d) \in Int
      BY <2>1, <2>2, StateTyped DEF Good
    <3>2. Balance(u, d) = Balance(t, d) + (IF d = e.def THEN e.count ELSE 0)
      BY <2>1 DEF Gains
    <3>3. Balance(v, d) = Balance(u, d) + (IF d = e.def THEN -e.count ELSE 0)
      BY <2>2 DEF Gains
    <3>4. Balance(t, d) = Balance(s, d)
      BY DEF Emptying
    <3>. QED  BY <1>1, <1>3, <3>1, <3>2, <3>3, <3>4
  <2>4. ASSUME NEW d \in Defs \ drops PROVE Amount(d, v.ground) = Amount(d, s.ground)
    <3>1. \A y \in Pickups : y.count \in Int
      BY DEF Pickups
    <3>2. t.ground \in Seq(Pickups) /\ Pickup(e.def, e.count) \in Pickups
      BY <1>1 DEF States, Pickup, Pickups
    <3>3. Amount(d, u.ground) = Amount(d, t.ground) + Val(d, Pickup(e.def, e.count))
      BY <2>1, <3>1, <3>2, AmountAppended
    <3>4. Val(d, Pickup(e.def, e.count)) = 0 /\ Amount(d, t.ground) \in Int
      BY <1>1, <1>4, StateTyped DEF Val, Pickup
    <3>5. Amount(d, t.ground) = Amount(d, s.ground)
      BY DEF Emptying
    <3>. QED  BY <2>2, <3>3, <3>4, <3>5
  <2>5. v.ledger = s.ledger
    BY <2>1, <2>2 DEF Emptying
  <2>6. ASSUME NEW slack \in [Defs -> Nat], Sized(slack, s) PROVE Sized(slack, v)
    <3>1. Sized(slack, t)
      BY <2>6 DEF Emptying
    <3>2. Small(slack, e.def, e.count)
      <4>1. Whole(slack, t.items[m])
        BY <1>1, <3>1 DEF Sized
      <4>. QED  BY <1>1, <4>1, StackIsMore DEF Whole, Small
    <3>3. Sized(slack, u)
      BY <1>1, <3>1, <3>2, SizedSpawned DEF u
    <3>. QED  BY <1>1, <2>1, <3>3, SizedTaken DEF v
  <2>7. Slots(v.items) <= Slots(s.items)
    <3>1. Slots(v.items) <= Slots(u.items)
      BY <1>1, <2>1, LeftWeighs DEF v
    <3>2. Slots(t.items) <= Slots(s.items) /\ u.items = t.items
      BY <2>1 DEF Emptying
    <3>. QED  BY <1>1, <2>2, <3>1, <3>2, SlotsTyped
  <2>8. v \in Emptying(s, m - 1, drops, goes)
    BY <2>2, <2>3, <2>4, <2>5, <2>6, <2>7 DEF Emptying
  <2>. QED  BY <1>4, <2>8 DEF e, u, v
<1>5. CASE e.def \notin drops /\ e.def \in goes
  <2>. DEFINE v == Take(t, m)
  <2>2. /\ Good(v) /\ v \in States /\ m - 1 <= Len(v.items)
        /\ \A k \in 1 .. m - 1 : v.items[k] = s.items[k]
        /\ \A k \in DOMAIN v.items : k > m - 1 => v.items[k].def \notin drops \union goes
        /\ v.ground = t.ground /\ v.ledger = t.ledger
        /\ Gains(t, v, e.def, -e.count)
    BY <1>1, <1>2
  <2>. HIDE DEF v
  <2>3. ASSUME NEW d \in Defs \ goes PROVE Balance(v, d) = Balance(s, d)
    <3>1. d # e.def
      BY <1>5
    <3>2. Balance(v, d) = Balance(t, d) + 0
      BY <2>2, <3>1 DEF Gains
    <3>3. Balance(t, d) = Balance(s, d)
      BY DEF Emptying
    <3>. QED  BY <1>3, <3>2, <3>3
  <2>4. v.ledger = s.ledger /\ \A d \in Defs \ drops : Amount(d, v.ground) = Amount(d, s.ground)
    BY <2>2 DEF Emptying
  <2>5. \A slack \in [Defs -> Nat] : Sized(slack, s) => Sized(slack, v)
    BY <1>1, SizedTaken DEF Emptying, v
  <2>6. Slots(v.items) <= Slots(s.items)
    <3>1. Slots(v.items) <= Slots(t.items)
      BY <1>1, LeftWeighs DEF v
    <3>2. Slots(t.items) <= Slots(s.items)
      BY DEF Emptying
    <3>. QED  BY <1>1, <2>2, <3>1, <3>2, SlotsTyped
  <2>7. v \in Emptying(s, m - 1, drops, goes)
    BY <2>2, <2>3, <2>4, <2>5, <2>6 DEF Emptying
  <2>. QED  BY <1>5, <2>7 DEF e, v
<1>6. CASE e.def \notin drops /\ e.def \notin goes
  <2>1. ASSUME NEW k \in DOMAIN t.items, k > m - 1 PROVE t.items[k].def \notin drops \union goes
    <3>1. k \in Nat
      BY <1>1
    <3>2. CASE k = m
      BY <1>1, <1>6, <3>2
    <3>3. CASE k # m
      <4>1. k > m
        BY <1>1, <2>1, <3>1, <3>3
      <4>. QED  BY <4>1 DEF Emptying
    <3>. QED  BY <3>2, <3>3
  <2>2. m - 1 <= Len(t.items) /\ \A k \in 1 .. m - 1 : t.items[k] = s.items[k]
    <3>1. \A k \in 1 .. m - 1 : k \in 1 .. m
      BY <1>1
    <3>. QED  BY <1>1, <3>1 DEF Emptying
  <2>3. t \in Emptying(s, m - 1, drops, goes)
    BY <2>1, <2>2 DEF Emptying
  <2>. QED  BY <1>6, <2>3 DEF e
<1>. QED  BY <1>4, <1>5, <1>6

\* It ends with none of the stacks that were to go.
LEMMA IsEmptied ==
  ASSUME NEW s, Good(s), NEW drops, NEW goes
  PROVE  Emptied(s, drops, goes) \in Emptying(s, 0, drops, goes)
<1>. DEFINE n == Len(s.items)
            Step(t, i) == LET k == n + 1 - i
                              e == s.items[k]
                          IN IF e.def \in drops THEN Take(Spawn(t, e.def, e.count), k)
                             ELSE IF e.def \in goes THEN Take(t, k) ELSE t
            D(g) == g = [i \in 0 .. n |-> IF i = 0 THEN s ELSE Step(g[i - 1], i)]
            Met(i) == Emptying(s, n - i, drops, goes)
            F == [i \in 1 .. n |-> [t \in States |-> IF t \in Met(i - 1) THEN Step(t, i) ELSE t]]
<1>1. n \in Nat /\ s \in States
  BY DEF Good, States
<1>2. s \in Met(0)
  <2>1. s.items \in Seq(Stack) /\ DOMAIN s.items = 1 .. n
    BY DEF Good, States
  <2>2. n - 0 = n
    BY <1>1
  <2>3. \A k \in DOMAIN s.items : ~(k > n)
    BY <2>1, <1>1
  <2>4. Slots(s.items) <= Slots(s.items)
    BY SlotsTyped
  <2>. HIDE DEF n
  <2>. QED  BY <1>1, <2>2, <2>3, <2>4 DEF Emptying, n
<1>3. ASSUME NEW i \in 1 .. n, NEW t, t \in Met(i - 1) PROVE Step(t, i) \in Met(i)
  <2>. DEFINE m == n + 1 - i
  <2>1. m \in 1 .. Len(s.items) /\ n - (i - 1) = m /\ m - 1 = n - i
    BY <1>1
  <2>. HIDE DEF m
  <2>2. t \in Emptying(s, m, drops, goes)
    BY <1>3, <2>1
  <2>3. (IF s.items[m].def \in drops THEN Take(Spawn(t, s.items[m].def, s.items[m].count), m)
         ELSE IF s.items[m].def \in goes THEN Take(t, m) ELSE t) \in Emptying(s, m - 1, drops, goes)
    BY <2>1, <2>2, EmptiesOne
  <2>. QED  BY <2>1, <2>3 DEF m
<1>4. F \in [1 .. n -> [States -> States]]
  <2>1. \A i \in 1 .. n : \A t \in Met(i - 1) : Step(t, i) \in Met(i)
    BY <1>3
  <2>2. \A i : Met(i) \subseteq States
    BY DEF Emptying
  <2>. HIDE DEF Step, Met
  <2>3. \A i \in 1 .. n : \A t \in States : (IF t \in Met(i - 1) THEN Step(t, i) ELSE t) \in States
    BY <2>1, <2>2
  <2>. QED  BY <2>3
<1>5. PICK g : Runs(g, n, States, s, F)
  <2>. HIDE DEF F, n
  <2>. QED  BY <1>1, <1>4, StepsExist
<1>6. \A i \in 0 .. n : g[i] \in Met(i)
  <2>. DEFINE P == {i \in 0 .. n : g[i] \in Met(i)}
  <2>. HIDE DEF Met
  <2>1. 0 \in P
    BY <1>1, <1>2, <1>5 DEF Runs
  <2>2. ASSUME NEW i \in 1 .. n, i - 1 \in P PROVE i \in P
    <3>1. g[i - 1] \in States /\ g[i - 1] \in Met(i - 1) /\ g[i] = F[i][g[i - 1]]
      BY <1>5, <2>2 DEF Runs
    <3>2. Step(g[i - 1], i) \in Met(i)
      BY <1>3, <3>1
    <3>. HIDE DEF Step
    <3>. QED  BY <3>1, <3>2
  <2>. HIDE DEF P
  <2>3. \A i \in 0 .. n : i \in P
    <3>. HIDE DEF n
    <3>. QED  BY <1>1, <2>1, <2>2, CountUp
  <2>. QED  BY <2>3 DEF P
<1>7. D(g)
  <2>1. g \in [0 .. n -> States] /\ g[0] = s
    BY <1>5 DEF Runs
  <2>2. ASSUME NEW i \in 1 .. n PROVE g[i] = Step(g[i - 1], i)
    <3>1. g[i - 1] \in States /\ g[i - 1] \in Met(i - 1) /\ g[i] = F[i][g[i - 1]]
      <4>1. i - 1 \in 0 .. n
        BY <1>1
      <4>. HIDE DEF Met
      <4>. QED  BY <1>5, <1>6, <2>1, <4>1 DEF Runs
    <3>. HIDE DEF Step, Met
    <3>. QED  BY <3>1
  <2>. HIDE DEF Step
  <2>. QED  BY <2>1, <2>2
<1>8. D(CHOOSE x : D(x))
  <2>. HIDE DEF D
  <2>. QED  BY <1>7
<1>9. PICK c : c = (CHOOSE x : D(x))
  OBVIOUS
<1>10. Emptied(s, drops, goes) = c[n] /\ D(c)
  BY <1>8, <1>9 DEF Emptied
<1>11. \A i \in 0 .. n : c[i] \in Met(i)
  <2>. DEFINE P == {i \in 0 .. n : c[i] \in Met(i)}
  <2>. HIDE DEF Met
  <2>1. 0 \in P
    BY <1>1, <1>2, <1>10
  <2>2. ASSUME NEW i \in 1 .. n, i - 1 \in P PROVE i \in P
    <3>1. c[i - 1] \in Met(i - 1) /\ i # 0 /\ i \in 0 .. n
      BY <2>2
    <3>2. Step(c[i - 1], i) \in Met(i)
      BY <1>3, <3>1
    <3>3. c[i] = Step(c[i - 1], i)
      <4>. HIDE DEF Step
      <4>. QED  BY <1>10, <3>1
    <3>. HIDE DEF Step
    <3>. QED  BY <3>1, <3>2, <3>3
  <2>. HIDE DEF P
  <2>3. \A i \in 0 .. n : i \in P
    <3>. HIDE DEF n
    <3>. QED  BY <1>1, <2>1, <2>2, CountUp
  <2>. QED  BY <2>3 DEF P
<1>12. n \in 0 .. n /\ n - n = 0
  BY <1>1
<1>. HIDE DEF n
<1>. QED  BY <1>10, <1>11, <1>12

(* An upgrade. *)

\* What is done to a stack of another definition leaves the first of r what it is.
LEMMA FirstStays ==
  ASSUME NEW s, Good(s), NEW k \in DOMAIN s.items, NEW n \in Int, NEW r,
         s.items[k].def # r, CanPay(s, r)
  PROVE  CanPay(Left(s, k, n), r) /\ CanPay(Take(s, k), r)
<1>. DEFINE m == Len(s.items)
            p == First(Of(s, r))
<1>1. s \in States /\ s.items \in Seq(Stack) /\ m \in Nat /\ k \in 1 .. m /\ DOMAIN s.items = 1 .. m
  BY DEF Good, States
<1>2. p \in Of(s, r) /\ (\A j \in Of(s, r) : p <= j) /\ s.items[p].count >= UpgradeCost
  <2>1. p # 0 /\ s.items[p].count >= UpgradeCost
    BY DEF CanPay
  <2>. QED  BY <2>1, FirstIsLeast, OfIsPlaces
<1>. HIDE DEF m, p
<1>3. p \in 1 .. m /\ s.items[p].def = r /\ p # k
  BY <1>1, <1>2 DEF Of
\* A place that is the least of r in another state.
<1>4. ASSUME NEW t, Good(t), NEW q \in Of(t, r), \A j \in Of(t, r) : q <= j, t.items[q] = s.items[p]
      PROVE  CanPay(t, r)
  <2>1. Of(t, r) \subseteq Nat \ {0} /\ Of(t, r) # {}
    BY <1>4, OfIsPlaces
  <2>2. First(Of(t, r)) # 0 /\ First(Of(t, r)) \in Of(t, r) /\ \A j \in Of(t, r) : First(Of(t, r)) <= j
    BY <2>1, FirstIsLeast
  <2>3. First(Of(t, r)) = q
    BY <1>4, <2>1, <2>2
  <2>. QED  BY <1>2, <1>4, <2>2, <2>3 DEF CanPay
<1>5. CanPay(Take(s, k), r)
  <2>. DEFINE t == Take(s, k)
              q == IF p < k THEN p ELSE p - 1
  <2>1. Good(t) /\ t.items = Seqs!RemoveAt(s.items, k)
    BY Taken
  <2>2. /\ Len(t.items) = m - 1
        /\ \A j \in 1 .. m - 1 : t.items[j] = IF j < k THEN s.items[j] ELSE s.items[j + 1]
    <3>1. k \in 1 .. Len(s.items)
      BY <1>1 DEF m
    <3>. HIDE DEF t
    <3>. QED  BY <1>1, <2>1, <3>1, Removal DEF m
  <2>. HIDE DEF t
  <2>3. DOMAIN t.items = 1 .. m - 1
    <3>1. t.items \in Seq(Stack)
      BY <2>1 DEF Good, States
    <3>. QED  BY <2>2, <3>1
  <2>4. q \in 1 .. m - 1 /\ t.items[q] = s.items[p]
    <3>1. CASE p < k
      <4>1. q = p /\ p \in 1 .. m - 1
        BY <1>1, <1>3, <3>1
      <4>. QED  BY <2>2, <3>1, <4>1
    <3>2. CASE ~(p < k)
      <4>1. q = p - 1 /\ p - 1 \in 1 .. m - 1 /\ ~(p - 1 < k) /\ (p - 1) + 1 = p
        BY <1>1, <1>3, <3>2
      <4>. HIDE DEF q
      <4>. QED  BY <2>2, <4>1
    <3>. QED  BY <3>1, <3>2
  <2>5. q \in Of(t, r)
    BY <1>3, <2>3, <2>4 DEF Of
  <2>6. ASSUME NEW j \in Of(t, r) PROVE q <= j
    <3>1. j \in 1 .. m - 1 /\ t.items[j].def = r
      BY <2>3 DEF Of
    <3>2. CASE j < k
      <4>1. j \in 1 .. m /\ s.items[j].def = r
        BY <1>1, <2>2, <3>1, <3>2
      <4>2. p <= j
        BY <1>1, <1>2, <4>1 DEF Of
      <4>. QED  BY <1>1, <1>3, <3>1, <3>2, <4>2
    <3>3. CASE ~(j < k)
      <4>1. j + 1 \in 1 .. m /\ s.items[j + 1].def = r
        BY <1>1, <2>2, <3>1, <3>3
      <4>2. p <= j + 1
        BY <1>1, <1>2, <4>1 DEF Of
      <4>. QED  BY <1>1, <1>3, <3>1, <3>3, <4>2
    <3>. QED  BY <3>2, <3>3
  <2>. HIDE DEF q
  <2>7. CanPay(t, r)
    BY <1>4, <2>1, <2>4, <2>5, <2>6
  <2>. QED  BY <2>7 DEF t
<1>6. CASE n <= 0
  BY <1>5, <1>6 DEF Left
<1>7. CASE ~(n <= 0)
  <2>. DEFINE t == Set(s, k, n)
  <2>1. Left(s, k, n) = t /\ n \in Nat
    BY <1>7 DEF Left
  <2>2. Good(t) /\ t.items = [s.items EXCEPT ![k] = Full(s.items[k].def, n)]
    BY <2>1, WasSet
  <2>. HIDE DEF t
  <2>3. /\ DOMAIN t.items = 1 .. m
        /\ \A j \in 1 .. m : t.items[j] = IF j = k THEN Full(s.items[k].def, n) ELSE s.items[j]
    BY <1>1, <2>2
  <2>4. p \in Of(t, r) /\ t.items[p] = s.items[p]
    BY <1>3, <2>3 DEF Of
  <2>5. \A j \in Of(t, r) : j \in Of(s, r)
    BY <1>1, <2>3 DEF Of, Full
  <2>6. CanPay(t, r)
    BY <1>2, <1>4, <2>2, <2>4, <2>5
  <2>. QED  BY <1>5, <2>1, <2>6
<1>. QED  BY <1>5, <1>6, <1>7

\* The resources, each once, none of them of the bar.
LEMMA ResourcesTyped ==
  /\ Resources \in Seq(Defs) /\ Len(Resources) \in Nat
  /\ \A i \in 1 .. Len(Resources) : Resources[i] \in Defs /\ Resources[i] \in Materials
  /\ \A i, j \in 1 .. Len(Resources) : Resources[i] = Resources[j] => i = j
  /\ \A r \in Materials : r \in Defs /\ r \notin Primary /\ \E i \in 1 .. Len(Resources) : Resources[i] = r
  /\ UpgradeCost \in Nat
  BY ResourcesAssumption, BoundsAssumption DEF Materials

\* What became of s when the first i resources have been paid with.
Paying(s, i) ==
  {t \in States :
     /\ Good(t)
     /\ \A j \in 1 .. Len(Resources) : j > i => CanPay(t, Resources[j])
     /\ \A d \in Defs : Balance(t, d) =
          Balance(s, d) - (IF \E j \in 1 .. i : Resources[j] = d THEN UpgradeCost ELSE 0)
     /\ \A slack \in [Defs -> Nat] : Sized(slack, s) => Sized(slack, t)
     /\ Slots(t.items) <= Slots(s.items)}

\* The i-th resource is paid with; the others can be paid with still.
LEMMA PaysOne ==
  ASSUME NEW s, Good(s), NEW i \in 1 .. Len(Resources), NEW t, t \in Paying(s, i - 1)
  PROVE  Deducted(t, Resources[i]) \in Paying(s, i)
<1>. DEFINE r == Resources[i]
            k == First(Of(t, r))
            n == t.items[k].count - UpgradeCost
            u == Deducted(t, r)
<1>1. /\ Good(t) /\ CanPay(t, r) /\ r \in Defs /\ UpgradeCost \in Nat
      /\ i \in Nat /\ i - 1 \in Nat /\ Len(Resources) \in Nat
  <2>1. i > i - 1 /\ i \in Nat /\ i - 1 \in Nat
    BY ResourcesTyped
  <2>. QED  BY <2>1, ResourcesTyped DEF Paying
<1>2. /\ k # 0 /\ k \in DOMAIN t.items /\ t.items[k].def = r
      /\ t.items[k].count \in Nat /\ t.items[k].count >= UpgradeCost
  <2>1. k # 0 /\ t.items[k].count >= UpgradeCost
    BY <1>1 DEF CanPay
  <2>2. k \in Of(t, r)
    BY <1>1, <2>1, FirstIsLeast, OfIsPlaces
  <2>3. k \in DOMAIN t.items /\ t.items[k].def = r
    BY <1>1, <2>2, OfIsPlaces
  <2>4. t.items[k] \in Stack
    BY <1>1, <2>3 DEF Good, States
  <2>. QED  BY <2>1, <2>3, <2>4 DEF Stack
<1>3. u = Left(t, k, n) /\ n \in Int
  BY <1>1, <1>2 DEF Deducted
<1>. HIDE DEF k, n, u, r
<1>4. Good(u) /\ Gains(t, u, r, (IF n <= 0 THEN 0 ELSE n) - t.items[k].count)
  BY <1>1, <1>2, <1>3, IsLeft
<1>5. (IF n <= 0 THEN 0 ELSE n) - t.items[k].count = -UpgradeCost
  BY <1>1, <1>2 DEF n
<1>6. ASSUME NEW j \in 1 .. Len(Resources), j > i PROVE CanPay(u, Resources[j])
  <2>1. j > i - 1
    BY <1>1, <1>6
  <2>2. CanPay(t, Resources[j])
    BY <2>1 DEF Paying
  <2>3. Resources[j] # r
    BY <1>6, ResourcesTyped DEF r
  <2>. QED  BY <1>1, <1>2, <1>3, <2>2, <2>3, FirstStays
<1>7. ASSUME NEW d \in Defs
      PROVE  Balance(u, d) =
               Balance(s, d) - (IF \E j \in 1 .. i : Resources[j] = d THEN UpgradeCost ELSE 0)
  <2>1. Balance(s, d) \in Int /\ Balance(t, d) \in Int /\ Balance(u, d) \in Int
    BY <1>1, <1>4, StateTyped DEF Good
  <2>2. Balance(u, d) = Balance(t, d) + (IF d = r THEN -UpgradeCost ELSE 0)
    BY <1>4, <1>5 DEF Gains
  <2>3. Balance(t, d) =
          Balance(s, d) - (IF \E j \in 1 .. i - 1 : Resources[j] = d THEN UpgradeCost ELSE 0)
    BY DEF Paying
  <2>4. CASE d = r
    <3>1. ~ \E j \in 1 .. i - 1 : Resources[j] = d
      <4>1. \A j \in 1 .. i - 1 : j \in 1 .. Len(Resources) /\ j # i
        BY <1>1
      <4>. QED  BY <2>4, <4>1, ResourcesTyped DEF r
    <3>2. \E j \in 1 .. i : Resources[j] = d
      BY <1>1, <2>4 DEF r
    <3>. QED  BY <1>1, <2>1, <2>2, <2>3, <2>4, <3>1, <3>2
  <2>5. CASE d # r
    <3>1. (\E j \in 1 .. i - 1 : Resources[j] = d) <=> (\E j \in 1 .. i : Resources[j] = d)
      <4>1. \A j \in 1 .. i : Resources[j] = d => j \in 1 .. i - 1
        BY <1>1, <2>5 DEF r
      <4>2. \A j \in 1 .. i - 1 : j \in 1 .. i
        BY <1>1
      <4>. QED  BY <4>1, <4>2
    <3>. QED  BY <1>1, <2>1, <2>2, <2>3, <2>5, <3>1
  <2>. QED  BY <2>4, <2>5
<1>8. \A slack \in [Defs -> Nat] : Sized(slack, s) => Sized(slack, u)
  <2>1. n <= t.items[k].count
    BY <1>1, <1>2 DEF n
  <2>. QED  BY <1>1, <1>2, <1>3, <2>1, SizedLeft DEF Paying
<1>9. Slots(u.items) <= Slots(s.items)
  <2>1. Slots(u.items) <= Slots(t.items)
    BY <1>1, <1>2, <1>3, LeftWeighs
  <2>2. Slots(t.items) <= Slots(s.items)
    BY DEF Paying
  <2>. QED  BY <1>1, <1>4, <2>1, <2>2, SlotsTyped
<1>10. u \in Paying(s, i)
  BY <1>4, <1>6, <1>7, <1>8, <1>9 DEF Paying, Good
<1>. QED  BY <1>10 DEF u, r

\* In the end each resource has been paid with, once.
LEMMA IsPaid ==
  ASSUME NEW s, Good(s), \A r \in Materials : CanPay(s, r)
  PROVE  Paid(s) \in Paying(s, Len(Resources))
<1>. DEFINE n == Len(Resources)
            Step(t, i) == Deducted(t, Resources[i])
            D(g) == g = [i \in 0 .. n |-> IF i = 0 THEN s ELSE Step(g[i - 1], i)]
            F == [i \in 1 .. n |-> [t \in States |-> IF t \in Paying(s, i - 1) THEN Step(t, i) ELSE t]]
<1>1. n \in Nat /\ s \in States
  BY ResourcesTyped DEF Good
<1>2. s \in Paying(s, 0)
  <2>1. ~ \E j \in 1 .. 0 : TRUE
    OBVIOUS
  <2>2. \A d \in Defs : Balance(s, d) \in Int
    BY <1>1, StateTyped
  <2>3. Slots(s.items) <= Slots(s.items)
    BY SlotsTyped
  <2>. QED  BY <1>1, <2>1, <2>2, <2>3, ResourcesTyped DEF Paying
<1>3. ASSUME NEW i \in 1 .. n, NEW t, t \in Paying(s, i - 1) PROVE Step(t, i) \in Paying(s, i)
  BY <1>3, PaysOne
<1>4. F \in [1 .. n -> [States -> States]]
  <2>1. \A i \in 1 .. n : \A t \in Paying(s, i - 1) : Step(t, i) \in Paying(s, i)
    BY <1>3
  <2>2. \A i : Paying(s, i) \subseteq States
    BY DEF Paying
  <2>. HIDE DEF Step
  <2>3. \A i \in 1 .. n : \A t \in States : (IF t \in Paying(s, i - 1) THEN Step(t, i) ELSE t) \in States
    BY <2>1, <2>2
  <2>. QED  BY <2>3
<1>5. PICK g : Runs(g, n, States, s, F)
  <2>. HIDE DEF F, n
  <2>. QED  BY <1>1, <1>4, StepsExist
<1>6. \A i \in 0 .. n : g[i] \in Paying(s, i)
  <2>. DEFINE P == {i \in 0 .. n : g[i] \in Paying(s, i)}
  <2>1. 0 \in P
    BY <1>1, <1>2, <1>5 DEF Runs
  <2>2. ASSUME NEW i \in 1 .. n, i - 1 \in P PROVE i \in P
    <3>1. g[i - 1] \in States /\ g[i - 1] \in Paying(s, i - 1) /\ g[i] = F[i][g[i - 1]]
      BY <1>5, <2>2 DEF Runs
    <3>2. Step(g[i - 1], i) \in Paying(s, i)
      BY <1>3, <3>1
    <3>. HIDE DEF Step
    <3>. QED  BY <3>1, <3>2
  <2>. HIDE DEF P
  <2>3. \A i \in 0 .. n : i \in P
    <3>. HIDE DEF n
    <3>. QED  BY <1>1, <2>1, <2>2, CountUp
  <2>. QED  BY <2>3 DEF P
<1>7. D(g)
  <2>1. g \in [0 .. n -> States] /\ g[0] = s
    BY <1>5 DEF Runs
  <2>2. ASSUME NEW i \in 1 .. n PROVE g[i] = Step(g[i - 1], i)
    <3>1. g[i - 1] \in States /\ g[i - 1] \in Paying(s, i - 1) /\ g[i] = F[i][g[i - 1]]
      <4>1. i - 1 \in 0 .. n
        BY <1>1
      <4>. QED  BY <1>5, <1>6, <2>1, <4>1 DEF Runs
    <3>. HIDE DEF Step
    <3>. QED  BY <3>1
  <2>. HIDE DEF Step
  <2>. QED  BY <2>1, <2>2
<1>8. D(CHOOSE x : D(x))
  <2>. HIDE DEF D
  <2>. QED  BY <1>7
<1>9. PICK c : c = (CHOOSE x : D(x))
  OBVIOUS
<1>10. Paid(s) = c[n] /\ D(c)
  BY <1>8, <1>9 DEF Paid
<1>11. \A i \in 0 .. n : c[i] \in Paying(s, i)
  <2>. DEFINE P == {i \in 0 .. n : c[i] \in Paying(s, i)}
  <2>1. 0 \in P
    BY <1>1, <1>2, <1>10
  <2>2. ASSUME NEW i \in 1 .. n, i - 1 \in P PROVE i \in P
    <3>1. c[i - 1] \in Paying(s, i - 1) /\ i # 0 /\ i \in 0 .. n
      BY <2>2
    <3>2. Step(c[i - 1], i) \in Paying(s, i)
      BY <1>3, <3>1
    <3>3. c[i] = Step(c[i - 1], i)
      <4>. HIDE DEF Step
      <4>. QED  BY <1>10, <3>1
    <3>. HIDE DEF Step
    <3>. QED  BY <3>1, <3>2, <3>3
  <2>. HIDE DEF P
  <2>3. \A i \in 0 .. n : i \in P
    <3>. HIDE DEF n
    <3>. QED  BY <1>1, <2>1, <2>2, CountUp
  <2>. QED  BY <2>3 DEF P
<1>12. n \in 0 .. n
  BY <1>1
<1>. HIDE DEF n
<1>. QED  BY <1>10, <1>11, <1>12 DEF n

(* Steps. *)

\* The owners are numbered.
LEMMA OwnersTyped == Controllers \in Nat /\ Owners = 1 .. Controllers
  BY BoundsAssumption DEF Owners

\* The inventory of each owner is good.
LEMMA InvGood ==
  ASSUME InventoryInv, NEW o \in Owners
  PROVE  /\ Good(State(o)) /\ State(o).items = items[o] /\ State(o).ground = ground
         /\ State(o).hand = hand[o] /\ State(o).ledger = ledger /\ State(o).room = room[o]
         /\ items[o] \in Seq(Stack) /\ ground \in Seq(Pickups) /\ ledger \in [Defs -> Int]
         /\ hand[o] \in Hand \union {Unarmed} /\ room[o] \in Nat /\ made \in [Defs -> Nat]
<1>1. /\ items[o] \in Seq(Stack) /\ ground \in Seq(Pickups) /\ ledger \in [Defs -> Int]
      /\ hand[o] \in Hand \union {Unarmed} /\ room[o] \in Nat /\ made \in [Defs -> Nat]
  BY DEF InventoryInv, InventoryTypeOK, Pickups
<1>2. /\ State(o).items = items[o] /\ State(o).ground = ground /\ State(o).room = room[o]
      /\ State(o).hand = hand[o] /\ State(o).ledger = ledger
  BY DEF State
<1>3. State(o) \in States
  BY <1>1 DEF State, States
<1>4. Len(items[o]) <= room[o] /\ HandFits(hand[o], items[o]) /\ Agree(items[o])
  BY DEF InventoryInv, InventoryTypeOK, HandFits, Agree
<1>. QED  BY <1>1, <1>2, <1>3, <1>4 DEF Good

\* The numbers of the books.
LEMMA HeldTyped ==
  ASSUME InventoryInv, NEW d \in Defs
  PROVE  /\ Held(d) \in Int /\ Lying(d) \in Int /\ ledger[d] \in Int /\ made[d] \in Nat
         /\ \A o \in Owners : Amount(d, items[o]) \in Int
<1>1. \A o \in Owners : Amount(d, items[o]) \in Int
  <2>. TAKE o \in Owners
  <2>1. \A e \in Stack : e.count \in Int
    BY DEF Stack
  <2>. QED  BY <2>1, InvGood, AmountTyped
<1>2. Lying(d) \in Int
  <2>1. \A e \in Pickups : e.count \in Int
    BY DEF Pickups
  <2>2. ground \in Seq(Pickups)
    BY DEF InventoryInv, InventoryTypeOK, Pickups
  <2>. QED  BY <2>1, <2>2, AmountTyped DEF Lying
<1>3. Held(d) \in Int
  <2>. DEFINE f == [o \in Owners |-> Amount(d, items[o])]
  <2>1. \A o \in 1 .. Controllers : f[o] \in Int
    BY <1>1, OwnersTyped
  <2>2. Sum(f, Controllers) \in Int
    <3>. HIDE DEF f
    <3>. QED  BY <2>1, OwnersTyped, SumTyped
  <2>. QED  BY <2>2 DEF Held
<1>. QED  BY <1>1, <1>2, <1>3 DEF InventoryInv, InventoryTypeOK

\* A hook that leaves owner o with t, and may make items.
LEMMA EndedMaking ==
  ASSUME InventoryInv, ~dangled, NEW o \in Owners, NEW t, Good(t), NEW f \in [Defs -> Int],
         EndsAs(o, t, f), dangled' \in BOOLEAN, made' \in [Defs -> Nat],
         ~dangled' => \A d \in Defs :
            Balance(t, d) = Balance(State(o), d) + f[d] + (made'[d] - made[d])
  PROVE  InventoryInv'
<1>1. /\ items' = [items EXCEPT ![o] = t.items] /\ room' = [room EXCEPT ![o] = t.room]
      /\ hand' = [hand EXCEPT ![o] = t.hand] /\ ground' = t.ground
      /\ ledger' = [x \in Defs |-> t.ledger[x] + f[x]]
  BY DEF EndsAs
<1>2. /\ items \in [Owners -> Seq(Stack)] /\ room \in [Owners -> Nat]
      /\ hand \in [Owners -> Hand \union {Unarmed}]
  BY DEF InventoryInv, InventoryTypeOK
<1>3. /\ t.items \in Seq(Stack) /\ t.room \in Nat /\ t.hand \in Hand \union {Unarmed}
      /\ t.ground \in Seq(Pickups) /\ t.ledger \in [Defs -> Int]
  BY DEF Good, States
<1>4. InventoryTypeOK'
  <2>1. ledger' \in [Defs -> Int]
    BY <1>1, <1>3
  <2>2. ASSUME NEW p \in Owners
        PROVE  Len(items'[p]) <= room'[p] /\ HandFits(hand'[p], items'[p])
    <3>1. CASE p = o
      BY <1>1, <1>2, <3>1 DEF Good
    <3>2. CASE p # o
      <4>1. items'[p] = items[p] /\ room'[p] = room[p] /\ hand'[p] = hand[p]
        BY <1>1, <1>2, <3>2
      <4>2. Len(items[p]) <= room[p] /\ HandFits(hand[p], items[p])
        BY DEF InventoryInv, InventoryTypeOK, HandFits
      <4>. QED  BY <4>1, <4>2
    <3>. QED  BY <3>1, <3>2
  <2>3. /\ items' \in [Owners -> Seq(Stack)] /\ room' \in [Owners -> Nat]
        /\ hand' \in [Owners -> Hand \union {Unarmed}]
    BY <1>1, <1>2, <1>3
  <2>4. ground' \in Seq([def : Defs, count : Nat])
    BY <1>1, <1>3 DEF Pickups
  <2>. QED  BY <2>1, <2>2, <2>3, <2>4 DEF InventoryTypeOK, HandFits
<1>5. ASSUME NEW p \in Owners, NEW k \in DOMAIN items'[p]
      PROVE  items'[p][k].count = items'[p][k].inst
  <2>1. CASE p = o
    <3>1. items'[p] = t.items
      BY <1>1, <1>2, <2>1
    <3>. QED  BY <3>1 DEF Good, Agree
  <2>2. CASE p # o
    <3>1. items'[p] = items[p]
      BY <1>1, <1>2, <2>2
    <3>. QED  BY <3>1 DEF InventoryInv
  <2>. QED  BY <2>1, <2>2
<1>6. ASSUME ~dangled', NEW d \in Defs PROVE Held(d)' + Lying(d)' = ledger'[d] + made'[d]
  <2>. DEFINE F == [p \in Owners |-> Amount(d, items[p])]
              G == [p \in Owners |-> Amount(d, items'[p])]
  <2>1. /\ Held(d) \in Int /\ Lying(d) \in Int /\ ledger[d] \in Int /\ made[d] \in Nat
        /\ \A p \in Owners : Amount(d, items[p]) \in Int
    BY HeldTyped
  <2>2. /\ Amount(d, t.items) \in Int /\ Amount(d, t.ground) \in Int /\ t.ledger[d] \in Int
        /\ Balance(t, d) = Amount(d, t.items) + Amount(d, t.ground) - t.ledger[d]
    BY StateTyped DEF Good, Balance
  <2>3. Balance(State(o), d) = Amount(d, items[o]) + Lying(d) - ledger[d]
    BY InvGood DEF Balance, Lying
  <2>4. DifferAt(F, G, Controllers, o)
    <3>1. \A p \in Owners : items'[p] = IF p = o THEN t.items ELSE items[p]
      BY <1>1, <1>2
    <3>2. \A p \in Owners : F[p] \in Int /\ G[p] \in Int /\ (p # o => F[p] = G[p])
      BY <2>1, <2>2, <3>1
    <3>. HIDE DEF F, G
    <3>. QED  BY <3>2, OwnersTyped DEF DifferAt
  <2>5. F[o] = Amount(d, items[o]) /\ G[o] = Amount(d, t.items)
    BY <1>1, <1>2
  <2>6. Held(d) = Sum(F, Controllers) /\ Held(d)' = Sum(G, Controllers)
    BY DEF Held
  <2>. HIDE DEF F, G
  <2>7. Held(d)' = Held(d) - Amount(d, items[o]) + Amount(d, t.items)
    BY <2>4, <2>5, <2>6, SumChanged
  <2>8. Lying(d)' = Amount(d, t.ground)
    BY <1>1 DEF Lying
  <2>9. /\ Balance(t, d) = Balance(State(o), d) + f[d] + (made'[d] - made[d])
        /\ f[d] \in Int /\ made'[d] \in Nat
    BY <1>6
  <2>10. Held(d) + Lying(d) = ledger[d] + made[d]
    BY DEF InventoryInv, Conserved
  <2>11. ledger'[d] = t.ledger[d] + f[d]
    BY <1>1
  <2>12. Amount(d, items[o]) \in Int
    BY <2>1
  <2>. QED  BY <2>1, <2>2, <2>3, <2>7, <2>8, <2>9, <2>10, <2>11, <2>12
<1>7. Conserved'
  BY <1>6 DEF Conserved
<1>. QED  BY <1>4, <1>5, <1>7 DEF InventoryInv

\* A hook that makes nothing.
LEMMA Ended ==
  ASSUME InventoryInv, ~dangled, NEW o \in Owners, NEW t, Good(t), NEW f \in [Defs -> Int],
         EndsAs(o, t, f), dangled' \in BOOLEAN, UNCHANGED made,
         ~dangled' => \A d \in Defs : Balance(t, d) = Balance(State(o), d) + f[d]
  PROVE  InventoryInv'
<1>1. made' \in [Defs -> Nat] /\ \A d \in Defs : made'[d] - made[d] = 0
  BY DEF InventoryInv, InventoryTypeOK
<1>2. \A d \in Defs : Balance(State(o), d) \in Int
  BY InvGood, StateTyped DEF Good
<1>3. ASSUME ~dangled', NEW d \in Defs
      PROVE  Balance(t, d) = Balance(State(o), d) + f[d] + (made'[d] - made[d])
  <2>1. /\ Balance(t, d) = Balance(State(o), d) + f[d] /\ made'[d] - made[d] = 0
        /\ Balance(State(o), d) \in Int /\ f[d] \in Int
    BY <1>1, <1>2, <1>3
  <2>. QED  BY <2>1
<1>. QED  BY <1>1, <1>3, EndedMaking

\* A hook that moves items, and makes m of d.
LEMMA EndedByMaking ==
  ASSUME InventoryInv, ~dangled, NEW o \in Owners, NEW t, Good(t), NEW d \in Defs, NEW n \in Int,
         NEW m \in Nat, Gains(State(o), t, d, n + m), EndsAs(o, t, Flow(d, n)),
         made' = [made EXCEPT ![d] = @ + m], UNCHANGED dangled
  PROVE  InventoryInv'
<1>1. Flow(d, n) \in [Defs -> Int] /\ \A x \in Defs : Flow(d, n)[x] = IF x = d THEN n ELSE 0
  BY DEF Flow
<1>2. dangled' \in BOOLEAN /\ made \in [Defs -> Nat]
  BY DEF InventoryInv, InventoryTypeOK
<1>3. /\ made' \in [Defs -> Nat]
      /\ \A x \in Defs : made'[x] - made[x] = IF x = d THEN m ELSE 0
  BY <1>2
<1>4. ASSUME NEW x \in Defs
      PROVE  Balance(t, x) = Balance(State(o), x) + Flow(d, n)[x] + (made'[x] - made[x])
  <2>1. Balance(State(o), x) \in Int
    BY InvGood, StateTyped DEF Good
  <2>2. Balance(t, x) = Balance(State(o), x) + (IF x = d THEN n + m ELSE 0)
    BY DEF Gains
  <2>3. Flow(d, n)[x] = (IF x = d THEN n ELSE 0) /\ made'[x] - made[x] = (IF x = d THEN m ELSE 0)
    BY <1>1, <1>3
  <2>. QED  BY <2>1, <2>2, <2>3
<1>. QED  BY <1>1, <1>2, <1>3, <1>4, EndedMaking

\* The traits are of definitions.
LEMMA SetsTyped ==
  /\ Primary \subseteq Defs /\ Traps \subseteq Defs /\ Upgraded \subseteq Defs
  /\ DropOnOverflow \subseteq Defs /\ KeepsEmpty \subseteq Defs /\ Droppable \subseteq Defs
  BY DefsAssumption

\* A hook after which n more of d are there, and that is what came in.
LEMMA EndedByGain ==
  ASSUME InventoryInv, ~dangled, NEW o \in Owners, NEW t, Good(t), NEW d \in Defs, NEW n \in Int,
         Gains(State(o), t, d, n), EndsAs(o, t, Flow(d, n)), UNCHANGED <<made, dangled>>
  PROVE  InventoryInv'
<1>1. Flow(d, n) \in [Defs -> Int] /\ \A x \in Defs : Flow(d, n)[x] = IF x = d THEN n ELSE 0
  BY DEF Flow
<1>2. dangled' \in BOOLEAN
  BY DEF InventoryInv, InventoryTypeOK
<1>3. \A x \in Defs : Balance(t, x) = Balance(State(o), x) + Flow(d, n)[x]
  BY <1>1 DEF Gains
<1>. QED  BY <1>1, <1>2, <1>3, Ended

\* A hook that only moves items.
LEMMA EndedWithoutFlow ==
  ASSUME InventoryInv, ~dangled, NEW o \in Owners, NEW t, Good(t),
         \A x \in Defs : Balance(t, x) = Balance(State(o), x),
         EndsAs(o, t, NoFlow), UNCHANGED <<made, dangled>>
  PROVE  InventoryInv'
<1>1. NoFlow \in [Defs -> Int] /\ \A x \in Defs : NoFlow[x] = 0
  BY DEF NoFlow
<1>2. dangled' \in BOOLEAN
  BY DEF InventoryInv, InventoryTypeOK
<1>3. \A x \in Defs : Balance(State(o), x) \in Int
  BY InvGood, StateTyped DEF Good
<1>4. \A x \in Defs : Balance(t, x) = Balance(State(o), x) + NoFlow[x]
  BY <1>1, <1>3
<1>. QED  BY <1>1, <1>2, <1>4, Ended

\* A pickup appears, and is in the books.
LEMMA LootKeeps ==
  ASSUME InventoryInv, NEW d \in Defs, NEW n \in Nat, Loot(d, n)
  PROVE  InventoryInv'
<1>1. /\ items' = items /\ room' = room /\ hand' = hand /\ dangled' = dangled /\ made' = made
      /\ ground' = Append(ground, Pickup(d, n)) /\ ledger' = [ledger EXCEPT ![d] = @ + n]
  BY DEF Loot
<1>2. /\ ground \in Seq(Pickups) /\ Pickup(d, n) \in Pickups /\ ledger \in [Defs -> Int]
      /\ Pickup(d, n).def = d /\ Pickup(d, n).count = n
  BY DEF InventoryInv, InventoryTypeOK, Pickup, Pickups
<1>3. InventoryTypeOK'
  <2>1. ground' \in Seq(Pickups)
    <3>. DEFINE p == Pickup(d, n)
    <3>1. ground' = Append(ground, p) /\ p \in Pickups
      BY <1>1, <1>2
    <3>. HIDE DEF p
    <3>. QED  BY <1>2, <3>1
  <2>2. ledger' \in [Defs -> Int]
    BY <1>1, <1>2
  <2>. QED  BY <1>1, <2>1, <2>2 DEF InventoryInv, InventoryTypeOK, Pickups
<1>4. ASSUME ~dangled', NEW x \in Defs PROVE Held(x)' + Lying(x)' = ledger'[x] + made'[x]
  <2>1. Held(x)' = Held(x)
    BY <1>1 DEF Held
  <2>2. \A e \in Pickups : e.count \in Int
    BY DEF Pickups
  <2>3. Amount(x, Append(ground, Pickup(d, n))) = Amount(x, ground) + Val(x, Pickup(d, n))
    BY <1>2, <2>2, AmountAppended
  <2>4. Lying(x)' = Lying(x) + (IF x = d THEN n ELSE 0)
    BY <1>1, <1>2, <2>3 DEF Lying, Val
  <2>5. ledger'[x] = ledger[x] + (IF x = d THEN n ELSE 0)
    BY <1>1, <1>2, HeldTyped
  <2>6. /\ Held(x) + Lying(x) = ledger[x] + made[x] /\ made'[x] = made[x]
        /\ Held(x) \in Int /\ Lying(x) \in Int /\ ledger[x] \in Int /\ made[x] \in Nat
    BY <1>1, <1>4, HeldTyped DEF InventoryInv, Conserved
  <2>. QED  BY <2>1, <2>4, <2>5, <2>6
<1>5. \A o \in Owners : \A k \in DOMAIN items'[o] : items'[o][k].count = items'[o][k].inst
  BY <1>1 DEF InventoryInv
<1>. QED  BY <1>3, <1>4, <1>5 DEF InventoryInv, Conserved

\* A pickup goes from the ground to the owner.
LEMMA PickUpKeeps ==
  ASSUME InventoryInv, ~dangled, NEW o \in Owners, NEW i \in DOMAIN ground,
         NEW seen \in Counts(ground[i].def), PickUp(o, i, seen)
  PROVE  InventoryInv'
<1>. DEFINE p == ground[i]
            g == Seqs!RemoveAt(ground, i)
            s == [State(o) EXCEPT !.ground = g]
            t == PickedUp(s, p.def, p.count, seen)
<1>1. /\ Good(State(o)) /\ State(o) \in States /\ State(o).ground = ground /\ ground \in Seq(Pickups)
      /\ p \in Pickups /\ p.def \in Defs /\ p.count \in Nat /\ seen \in 0 .. MaxStack[p.def]
  <2>1. Good(State(o)) /\ State(o) \in States /\ State(o).ground = ground /\ ground \in Seq(Pickups)
    BY InvGood DEF Good
  <2>2. p \in Pickups
    BY <2>1
  <2>. QED  BY <2>1, <2>2 DEF Pickups, Counts
<1>2. /\ EndsAs(o, t, NoFlow) /\ UNCHANGED made
      /\ dangled' = (dangled \/ seen # MaxStack[p.def])
  <2>1. s = [State(o) EXCEPT !.ground = Seqs!RemoveAt(@, i)]
    BY <1>1
  <2>. HIDE DEF s
  <2>. QED  BY <2>1 DEF PickUp, Seen
<1>3. g \in Seq(Pickups)
  <2>1. i \in 1 .. Len(ground)
    BY <1>1
  <2>. QED  BY <1>1, <2>1, Removal
<1>. HIDE DEF g
<1>4. /\ s \in States /\ s.items = State(o).items /\ s.hand = State(o).hand /\ s.room = State(o).room
      /\ s.ledger = State(o).ledger /\ s.ground = g
  <2>1. State(o) \in States
    BY <1>1
  <2>. DEFINE r == State(o)
  <2>. HIDE DEF r
  <2>2. LET q == [r EXCEPT !.ground = g]
        IN /\ q \in States /\ q.items = r.items /\ q.hand = r.hand /\ q.room = r.room
           /\ q.ledger = r.ledger /\ q.ground = g
    BY <1>3, <2>1 DEF States, r
  <2>. QED  BY <2>2 DEF r
<1>. HIDE DEF s
<1>5. Good(s)
  BY <1>1, <1>4 DEF Good
<1>6. Good(t) /\ (seen = MaxStack[p.def] => Gains(s, t, p.def, p.count))
  <2>. HIDE DEF p
  <2>. QED  BY <1>1, <1>5, PicksUp
<1>. HIDE DEF t
<1>7. ASSUME ~dangled', NEW d \in Defs PROVE Balance(t, d) = Balance(State(o), d) + NoFlow[d]
  <2>1. Gains(s, t, p.def, p.count)
    BY <1>2, <1>6, <1>7
  <2>2. \A e \in Pickups : e.count \in Int
    BY DEF Pickups
  <2>3. Amount(d, g) = Amount(d, ground) - Val(d, p)
    BY <1>1, <2>2, AmountRemoved DEF g
  <2>4. /\ Amount(d, State(o).items) \in Int /\ Amount(d, ground) \in Int /\ State(o).ledger[d] \in Int
        /\ Balance(State(o), d) = Amount(d, State(o).items) + Amount(d, ground) - State(o).ledger[d]
    BY <1>1, StateTyped DEF Balance
  <2>5. Balance(s, d) = Amount(d, State(o).items) + Amount(d, g) - State(o).ledger[d]
    BY <1>4 DEF Balance
  <2>6. Balance(t, d) = Balance(s, d) + (IF d = p.def THEN p.count ELSE 0)
    BY <2>1 DEF Gains
  <2>7. NoFlow[d] = 0 /\ Val(d, p) = IF d = p.def THEN p.count ELSE 0
    BY DEF NoFlow, Val
  <2>. HIDE DEF p
  <2>. QED  BY <1>1, <2>3, <2>4, <2>5, <2>6, <2>7
<1>8. NoFlow \in [Defs -> Int]
  BY DEF NoFlow
<1>9. dangled' \in BOOLEAN
  BY <1>2 DEF InventoryInv, InventoryTypeOK
<1>. QED  BY <1>2, <1>6, <1>7, <1>8, <1>9, Ended

\* An item goes to the owner as if picked up.
LEMMA GiveItemToOwnerKeeps ==
  ASSUME InventoryInv, ~dangled, NEW o \in Owners, NEW d \in Defs, NEW n \in Nat,
         NEW seen \in Counts(d), GiveItemToOwner(o, d, n, seen)
  PROVE  InventoryInv'
<1>. DEFINE t == PickedUp(State(o), d, n, seen)
<1>1. Good(State(o)) /\ seen \in 0 .. MaxStack[d]
  BY InvGood DEF Counts
<1>2. EndsAs(o, t, Flow(d, n)) /\ UNCHANGED made /\ dangled' = (dangled \/ seen # MaxStack[d])
  BY DEF GiveItemToOwner, Seen
<1>3. Good(t) /\ (seen = MaxStack[d] => Gains(State(o), t, d, n))
  BY <1>1, PicksUp
<1>. HIDE DEF t
<1>4. Flow(d, n) \in [Defs -> Int] /\ \A x \in Defs : Flow(d, n)[x] = IF x = d THEN n ELSE 0
  BY DEF Flow
<1>5. ~dangled' => \A x \in Defs : Balance(t, x) = Balance(State(o), x) + Flow(d, n)[x]
  BY <1>2, <1>3, <1>4 DEF Gains
<1>6. dangled' \in BOOLEAN
  BY <1>2 DEF InventoryInv, InventoryTypeOK
<1>. QED  BY <1>2, <1>3, <1>4, <1>5, <1>6, Ended

\* An item is given.
LEMMA GiveDirectlyKeeps ==
  ASSUME InventoryInv, ~dangled, NEW o \in Owners, NEW d \in Defs, NEW n \in Nat, GiveDirectly(o, d, n)
  PROVE  InventoryInv'
<1>1. Good(Give(State(o), d, n)) /\ Gains(State(o), Give(State(o), d, n), d, n)
  BY InvGood, Given
<1>2. EndsAs(o, Give(State(o), d, n), Flow(d, n)) /\ UNCHANGED <<made, dangled>>
  BY DEF GiveDirectly
<1>. QED  BY <1>1, <1>2, EndedByGain

\* A weapon is taken in hand: it is that of its place.
LEMMA EquipKeeps ==
  ASSUME InventoryInv, NEW o \in Owners, NEW k \in DOMAIN items[o] \union {0}, Equip(o, k)
  PROVE  InventoryInv'
<1>. DEFINE h == IF k = 0 THEN Unarmed ELSE [at |-> k, def |-> items[o][k].def]
<1>1. /\ hand' = [hand EXCEPT ![o] = h]
      /\ items' = items /\ room' = room /\ ground' = ground /\ ledger' = ledger /\ made' = made
      /\ dangled' = dangled
  BY DEF Equip
<1>2. /\ items[o] \in Seq(Stack) /\ hand \in [Owners -> Hand \union {Unarmed}]
      /\ (k # 0 => k \in 1 .. Len(items[o]) /\ items[o][k].def \in Defs)
  <2>1. items[o] \in Seq(Stack) /\ hand \in [Owners -> Hand \union {Unarmed}]
    BY DEF InventoryInv, InventoryTypeOK
  <2>2. k # 0 => k \in 1 .. Len(items[o]) /\ items[o][k] \in Stack
    BY <2>1
  <2>. QED  BY <2>1, <2>2 DEF Stack
<1>3. h \in Hand \union {Unarmed} /\ HandFits(h, items[o])
  <2>1. Len(items[o]) \in Nat
    BY <1>2
  <2>. QED  BY <1>2, <2>1 DEF Hand, HandFits
<1>. HIDE DEF h
<1>4. InventoryTypeOK'
  <2>1. hand' \in [Owners -> Hand \union {Unarmed}]
    BY <1>1, <1>2, <1>3
  <2>2. ASSUME NEW p \in Owners PROVE Len(items[p]) <= room[p] /\ HandFits(hand'[p], items[p])
    <3>1. CASE p = o
      BY <1>1, <1>2, <1>3, <3>1 DEF InventoryInv, InventoryTypeOK
    <3>2. CASE p # o
      BY <1>1, <1>2, <3>2 DEF InventoryInv, InventoryTypeOK, HandFits
    <3>. QED  BY <3>1, <3>2
  <2>. QED  BY <1>1, <2>1, <2>2 DEF InventoryInv, InventoryTypeOK, HandFits
<1>5. Conserved'
  BY <1>1 DEF InventoryInv, Conserved, Held, Lying
<1>. QED  BY <1>1, <1>4, <1>5 DEF InventoryInv

\* Part of a stack, or all of it, goes to the ground, and what the count makes of it.
LEMMA DropStackKeeps ==
  ASSUME InventoryInv, ~dangled, NEW o \in Owners, NEW k \in DOMAIN items[o], NEW n, DropStack(o, k, n)
  PROVE  InventoryInv'
<1>. DEFINE s == State(o)
            e == items[o][k]
            gone == IF n < 0 THEN e.inst + 1 ELSE n
            rest == IF n < 0 THEN 0 ELSE e.inst - n
            more == IF gone > e.inst THEN 1 ELSE 0
            u == Spawn(s, e.def, gone)
            t == Left(u, k, rest)
<1>1. Good(s) /\ s.items = items[o] /\ k \in DOMAIN s.items /\ s.items[k] = e
  BY InvGood
<1>. HIDE DEF s
<1>2. e.def \in Defs /\ e.count \in Nat /\ e.inst = e.count
  BY <1>1, StackFound
<1>3. /\ n \in -1 .. e.inst + 1 /\ EndsAs(o, t, NoFlow) /\ UNCHANGED dangled
      /\ made' = [made EXCEPT ![e.def] = @ + more]
  BY DEF DropStack, Makes, s
<1>4. /\ gone \in Nat /\ rest \in Int /\ more \in Nat
      /\ gone + ((IF rest <= 0 THEN 0 ELSE rest) - e.count) = more
  <2>. HIDE DEF e
  <2>. QED  BY <1>2, <1>3
<1>. HIDE DEF gone, rest, more
<1>5. Good(u) /\ Gains(s, u, e.def, gone) /\ u.items = s.items
  <2>. HIDE DEF e
  <2>. QED  BY <1>1, <1>2, <1>4, Spawned
<1>. HIDE DEF e
<1>6. Good(t) /\ Gains(u, t, e.def, (IF rest <= 0 THEN 0 ELSE rest) - e.count)
  <2>1. k \in DOMAIN u.items /\ u.items[k] = e
    BY <1>1, <1>5
  <2>. HIDE DEF u
  <2>. QED  BY <1>4, <1>5, <2>1, IsLeft
<1>. HIDE DEF u, t
<1>7. \A x \in Defs : Balance(t, x) = Balance(s, x) + (IF x = e.def THEN more ELSE 0)
  <2>. TAKE x \in Defs
  <2>1. Balance(s, x) \in Int /\ Balance(u, x) \in Int /\ Balance(t, x) \in Int
    BY <1>1, <1>5, <1>6, StateTyped DEF Good
  <2>. DEFINE change == (IF rest <= 0 THEN 0 ELSE rest) - e.count
  <2>2. gone + change = more /\ change \in Int /\ gone \in Nat
    BY <1>2, <1>4
  <2>3. Balance(t, x) = Balance(u, x) + (IF x = e.def THEN change ELSE 0)
    BY <1>6 DEF Gains
  <2>4. Balance(u, x) = Balance(s, x) + (IF x = e.def THEN gone ELSE 0)
    BY <1>5 DEF Gains
  <2>. HIDE DEF change
  <2>. QED  BY <2>1, <2>2, <2>3, <2>4
<1>8. Flow(e.def, 0) = NoFlow
  BY DEF Flow, NoFlow
<1>9. Gains(State(o), t, e.def, 0 + more)
  BY <1>4, <1>7 DEF Gains, s
<1>10. EndsAs(o, t, Flow(e.def, 0))
  BY <1>3, <1>8
<1>. HIDE DEF more
<1>. DEFINE d == e.def
<1>11. d \in Defs /\ EndsAs(o, t, Flow(d, 0)) /\ made' = [made EXCEPT ![d] = @ + more]
       /\ Gains(State(o), t, d, 0 + more)
  BY <1>2, <1>3, <1>9, <1>10
<1>. HIDE DEF d
<1>12. 0 \in Int
  OBVIOUS
<1>. QED  BY <1>3, <1>4, <1>6, <1>11, <1>12, EndedByMaking

\* What is used is in the books, also where the last stack stays.
LEMMA RemoveInventoryItemKeeps ==
  ASSUME InventoryInv, ~dangled, NEW o \in Owners, NEW k \in DOMAIN items[o], NEW n, NEW force,
         RemoveInventoryItem(o, k, n, force)
  PROVE  InventoryInv'
<1>. DEFINE s == State(o)
            e == items[o][k]
            rest == e.inst - (IF n < 0 THEN 0 ELSE n)
            gone == n < 0 \/ rest <= 0 \/ force
            stays == /\ e.def \in KeepsEmpty /\ n > 0
                     /\ \A j \in DOMAIN items[o] \ {k} : items[o][j].def # e.def
<1>1. Good(s) /\ s.items = items[o] /\ k \in DOMAIN s.items /\ s.items[k] = e
  BY InvGood
<1>2. e.def \in Defs /\ e.count \in Nat /\ e.inst = e.count
  <2>. HIDE DEF s
  <2>. QED  BY <1>1, StackFound
<1>3. /\ n \in -1 .. e.inst
      /\ IF gone /\ ~stays THEN EndsAs(o, Take(s, k), Flow(e.def, -e.inst))
         ELSE EndsAs(o, Set(s, k, rest), Flow(e.def, rest - e.inst))
      /\ UNCHANGED <<made, dangled>>
  BY DEF RemoveInventoryItem
<1>4. rest \in Nat
  <2>. HIDE DEF e
  <2>. QED  BY <1>2, <1>3
<1>. HIDE DEF s, rest, gone, stays, e
<1>5. CASE gone /\ ~stays
  <2>1. Good(Take(s, k)) /\ Gains(s, Take(s, k), e.def, -e.count)
    BY <1>1, Taken
  <2>2. -e.count \in Int
    BY <1>2
  <2>. QED  BY <1>2, <1>3, <1>5, <2>1, <2>2, EndedByGain DEF s
<1>6. CASE ~(gone /\ ~stays)
  <2>1. Good(Set(s, k, rest)) /\ Gains(s, Set(s, k, rest), e.def, rest - e.count)
    BY <1>1, <1>4, WasSet
  <2>2. rest - e.count \in Int
    BY <1>2, <1>4
  <2>. QED  BY <1>2, <1>3, <1>6, <2>1, <2>2, EndedByGain DEF s
<1>. QED  BY <1>5, <1>6

\* What a script removes is in the books, and what it makes of a count below zero.
LEMMA RemoveItemKeeps ==
  ASSUME InventoryInv, ~dangled, NEW o \in Owners, NEW k \in DOMAIN items[o], NEW n, NEW force,
         NEW persist, RemoveItem(o, k, n, force, persist)
  PROVE  InventoryInv'
<1>. DEFINE s == State(o)
            e == items[o][k]
            gone == force \/ (~persist /\ (e.inst - n <= 0 \/ n < 0))
            used == IF n < 0 THEN 0 ELSE -n
            more == IF ~gone /\ n < 0 THEN 1 ELSE 0
<1>1. Good(s) /\ s.items = items[o] /\ k \in DOMAIN s.items /\ s.items[k] = e
  BY InvGood
<1>2. e.def \in Defs /\ e.count \in Nat /\ e.inst = e.count
  <2>. HIDE DEF s
  <2>. QED  BY <1>1, StackFound
<1>3. /\ n \in -1 .. e.inst
      /\ IF gone THEN EndsAs(o, Take(s, k), Flow(e.def, -e.inst))
         ELSE EndsAs(o, Set(s, k, e.inst - n), Flow(e.def, used))
      /\ made' = [made EXCEPT ![e.def] = @ + more]
      /\ UNCHANGED dangled
  BY DEF RemoveItem, Makes
<1>. HIDE DEF s, e
<1>4. /\ e.inst - n \in Nat /\ used \in Int /\ more \in Nat /\ -e.count \in Int
      /\ (gone => more = 0) /\ (~gone => (e.inst - n) - e.count = used + more)
  BY <1>2, <1>3
<1>. HIDE DEF gone, used, more
<1>5. CASE gone
  <2>1. Good(Take(s, k)) /\ Gains(s, Take(s, k), e.def, -e.count)
    BY <1>1, Taken
  <2>2. -e.count + more = -e.count
    BY <1>4, <1>5
  <2>. QED  BY <1>2, <1>3, <1>4, <1>5, <2>1, <2>2, EndedByMaking DEF s
<1>6. CASE ~gone
  <2>1. Good(Set(s, k, e.inst - n)) /\ Gains(s, Set(s, k, e.inst - n), e.def, (e.inst - n) - e.count)
    BY <1>1, <1>4, WasSet
  <2>. QED  BY <1>2, <1>3, <1>4, <1>6, <2>1, EndedByMaking DEF s
<1>. QED  BY <1>5, <1>6

\* What went is what the function returns.
LEMMA K2_RemoveItemFromPlayerKeeps ==
  ASSUME InventoryInv, ~dangled, NEW o \in Owners, NEW k \in DOMAIN items[o], NEW n \in Int,
         K2_RemoveItemFromPlayer(o, k, n)
  PROVE  InventoryInv'
<1>. DEFINE s == State(o)
            e == s.items[k]
            rest == IF n < 0 THEN 0 ELSE e.count - n
            t == Left(s, k, rest)
<1>1. Good(s) /\ s.items = items[o] /\ k \in DOMAIN s.items
  BY InvGood
<1>. HIDE DEF s
<1>2. e.def \in Defs /\ e.count \in Nat
  BY <1>1, StackFound
<1>3. EndsAs(o, t, Flow(e.def, -Removed(s, k, n))) /\ UNCHANGED <<made, dangled>>
  BY DEF K2_RemoveItemFromPlayer, s
<1>4. rest \in Int /\ (IF rest <= 0 THEN 0 ELSE rest) - e.count = -Removed(s, k, n)
      /\ -Removed(s, k, n) \in Int
  BY <1>2 DEF Removed
<1>5. Good(t) /\ Gains(s, t, e.def, (IF rest <= 0 THEN 0 ELSE rest) - e.count)
  <2>. HIDE DEF rest
  <2>. QED  BY <1>1, <1>4, IsLeft
<1>. HIDE DEF t, rest, e
<1>6. Good(t) /\ Gains(s, t, e.def, -Removed(s, k, n))
  BY <1>4, <1>5
<1>. QED  BY <1>2, <1>3, <1>4, <1>6, EndedByGain DEF s

\* What is harvested is in a stack or on the ground.
LEMMA HarvestKeeps ==
  ASSUME InventoryInv, ~dangled, NEW o \in Owners, NEW d \in Defs, NEW n \in Nat, Harvest(o, d, n)
  PROVE  InventoryInv'
<1>. DEFINE s == State(o)
            k == First(Of(s, d))
            u == Spawn(s, d, n - MaxStack[d])
<1>1. Good(s) /\ MaxStack[d] \in Nat
  BY InvGood, StackIsMore
<1>2. /\ CASE k # 0 -> EndsAs(o, Harvested(s, k, d, n), Flow(d, n))
           [] k = 0 /\ n > MaxStack[d] -> EndsAs(o, Give(u, d, MaxStack[d]), Flow(d, n))
           [] OTHER -> EndsAs(o, Give(s, d, n), Flow(d, n))
      /\ UNCHANGED <<made, dangled>>
  BY DEF Harvest
<1>. HIDE DEF s
<1>3. k # 0 => k \in DOMAIN s.items /\ s.items[k].def = d
  BY <1>1, FirstIsLeast, OfIsPlaces
<1>. HIDE DEF k
<1>4. CASE k # 0
  <2>1. Good(Harvested(s, k, d, n)) /\ Gains(s, Harvested(s, k, d, n), d, n)
    <3>1. /\ Good(Harvested(s, k, s.items[k].def, n))
          /\ Gains(s, Harvested(s, k, s.items[k].def, n), s.items[k].def, n)
      BY <1>1, <1>3, <1>4, IsHarvested
    <3>. QED  BY <1>3, <1>4, <3>1
  <2>2. EndsAs(o, Harvested(s, k, d, n), Flow(d, n)) /\ UNCHANGED <<made, dangled>>
    BY <1>2, <1>4
  <2>. QED  BY <2>1, <2>2, EndedByGain DEF s
<1>5. CASE k = 0 /\ n > MaxStack[d]
  <2>. DEFINE t == Give(u, d, MaxStack[d])
  <2>1. Good(u) /\ Gains(s, u, d, n - MaxStack[d])
    <3>1. n - MaxStack[d] \in Nat
      BY <1>1, <1>5
    <3>. QED  BY <1>1, <3>1, Spawned
  <2>. HIDE DEF u
  <2>2. Good(t) /\ Gains(u, t, d, MaxStack[d])
    BY <1>1, <2>1, Given
  <2>3. EndsAs(o, t, Flow(d, n)) /\ UNCHANGED <<made, dangled>>
    BY <1>2, <1>5
  <2>. HIDE DEF t
  <2>4. Gains(s, t, d, n)
    <3>. SUFFICES ASSUME NEW x \in Defs
         PROVE  Balance(t, x) = Balance(s, x) + (IF x = d THEN n ELSE 0)
      BY DEF Gains
    <3>1. Balance(s, x) \in Int /\ Balance(u, x) \in Int /\ Balance(t, x) \in Int
      BY <1>1, <2>1, <2>2, StateTyped DEF Good
    <3>2. Balance(u, x) = Balance(s, x) + (IF x = d THEN n - MaxStack[d] ELSE 0)
      BY <2>1 DEF Gains
    <3>3. Balance(t, x) = Balance(u, x) + (IF x = d THEN MaxStack[d] ELSE 0)
      BY <2>2 DEF Gains
    <3>. QED  BY <1>1, <3>1, <3>2, <3>3
  <2>. QED  BY <2>2, <2>3, <2>4, EndedByGain DEF s
<1>6. CASE k = 0 /\ ~(n > MaxStack[d])
  <2>1. Good(Give(s, d, n)) /\ Gains(s, Give(s, d, n), d, n)
    BY <1>1, Given
  <2>2. EndsAs(o, Give(s, d, n), Flow(d, n)) /\ UNCHANGED <<made, dangled>>
    BY <1>2, <1>6
  <2>. QED  BY <2>1, <2>2, EndedByGain DEF s
<1>. QED  BY <1>4, <1>5, <1>6

\* One trap is used, or none of an empty stack.
LEMMA PlaceTrapKeeps ==
  ASSUME InventoryInv, ~dangled, NEW o \in Owners, NEW d \in Defs, PlaceTrap(o, d)
  PROVE  InventoryInv'
<1>. DEFINE s == State(o)
            k == First(Of(s, d))
            c == s.items[k].count
            t == Left(s, k, c - 1)
            n == IF c = 0 THEN 0 ELSE -1
<1>1. Good(s)
  BY InvGood
<1>2. k # 0 /\ EndsAs(o, t, Flow(d, n)) /\ UNCHANGED <<made, dangled>>
  BY DEF PlaceTrap
<1>. HIDE DEF s
<1>3. k \in DOMAIN s.items /\ s.items[k].def = d
  BY <1>1, <1>2, FirstIsLeast, OfIsPlaces
<1>. HIDE DEF k
<1>4. c \in Nat
  BY <1>1, <1>3, StackFound
<1>5. c - 1 \in Int /\ n \in Int /\ (IF c - 1 <= 0 THEN 0 ELSE c - 1) - c = n
  <2>. HIDE DEF c
  <2>. QED  BY <1>4
<1>6. Good(t) /\ Gains(s, t, d, (IF c - 1 <= 0 THEN 0 ELSE c - 1) - c)
  BY <1>1, <1>3, <1>5, IsLeft
<1>. HIDE DEF c, n, t
<1>7. Gains(s, t, d, n)
  BY <1>5, <1>6
<1>. QED  BY <1>2, <1>5, <1>6, <1>7, EndedByGain DEF s

\* The weapon and the resources go, the upgraded weapon comes.
LEMMA UpgradeKeeps ==
  ASSUME InventoryInv, ~dangled, NEW o \in Owners, NEW d \in Defs, Upgrade(o, d)
  PROVE  InventoryInv'
<1>. DEFINE s == State(o)
            k == hand[o].at
            e == s.items[k]
            u == Take(s, k)
            v == Paid(u)
            t == Give(v, d, 1)
            flow == [x \in Defs |->
                      (IF x = d THEN 1 ELSE 0) - (IF x = e.def THEN e.count ELSE 0)
                        - (IF x \in Materials THEN UpgradeCost ELSE 0)]
<1>1. Good(s) /\ s.items = items[o] /\ s.hand = hand[o]
  BY InvGood
<1>2. /\ hand[o] # Unarmed /\ k # 0 /\ e.def \in Primary
      /\ \A r \in Materials : CanPay(s, r)
      /\ EndsAs(o, t, flow) /\ UNCHANGED <<made, dangled>>
  BY <1>1 DEF Upgrade
<1>. HIDE DEF s
<1>3. k \in DOMAIN s.items
  BY <1>1, <1>2 DEF Good, States, Hand, HandFits
<1>. HIDE DEF k
<1>4. e.def \in Defs /\ e.count \in Nat
  BY <1>1, <1>3, StackFound
<1>5. Good(u) /\ Gains(s, u, e.def, -e.count)
  BY <1>1, <1>3, Taken
<1>6. \A r \in Materials : CanPay(u, r)
  <2>. TAKE r \in Materials
  <2>1. e.def # r /\ CanPay(s, r)
    BY <1>2, ResourcesTyped
  <2>. QED  BY <1>1, <1>3, <2>1, FirstStays
<1>. HIDE DEF u, e
<1>7. v \in Paying(u, Len(Resources))
  BY <1>5, <1>6, IsPaid
<1>. HIDE DEF v
<1>8. Good(v) /\ \A x \in Defs : Balance(v, x) = Balance(u, x) - (IF x \in Materials THEN UpgradeCost ELSE 0)
  <2>1. \A x \in Defs : (\E j \in 1 .. Len(Resources) : Resources[j] = x) <=> x \in Materials
    BY ResourcesTyped
  <2>. QED  BY <1>7, <2>1 DEF Paying
<1>9. Good(t) /\ Gains(v, t, d, 1)
  BY <1>8, Given
<1>. HIDE DEF t
<1>10. flow \in [Defs -> Int]
  BY <1>4, ResourcesTyped
<1>11. \A x \in Defs : Balance(t, x) = Balance(s, x) + flow[x]
  <2>. TAKE x \in Defs
  <2>1. Balance(s, x) \in Int /\ Balance(u, x) \in Int /\ Balance(v, x) \in Int /\ Balance(t, x) \in Int
    BY <1>1, <1>5, <1>8, <1>9, StateTyped DEF Good
  <2>2. Balance(u, x) = Balance(s, x) + (IF x = e.def THEN -e.count ELSE 0)
    BY <1>5 DEF Gains
  <2>3. Balance(t, x) = Balance(v, x) + (IF x = d THEN 1 ELSE 0)
    BY <1>9 DEF Gains
  <2>4. UpgradeCost \in Nat
    BY ResourcesTyped
  <2>5. flow[x] = (IF x = d THEN 1 ELSE 0) - (IF x = e.def THEN e.count ELSE 0)
                    - (IF x \in Materials THEN UpgradeCost ELSE 0)
    OBVIOUS
  <2>. HIDE DEF flow
  <2>. QED  BY <1>4, <1>8, <2>1, <2>2, <2>3, <2>4, <2>5
<1>12. dangled' \in BOOLEAN
  BY <1>2 DEF InventoryInv, InventoryTypeOK
<1>. HIDE DEF flow
<1>. QED  BY <1>2, <1>9, <1>10, <1>11, <1>12, Ended DEF s

\* An inventory that is emptied: what goes for good is what the owner had of it.
LEMMA EmptiedKeeps ==
  ASSUME InventoryInv, ~dangled, NEW o \in Owners, NEW drops, NEW goes, drops \intersect goes = {},
         NEW f \in [Defs -> Int],
         \A d \in Defs : f[d] = IF d \in goes THEN -Amount(d, items[o]) ELSE 0,
         EndsAs(o, Emptied(State(o), drops, goes), f), UNCHANGED <<made, dangled>>
  PROVE  InventoryInv'
<1>. DEFINE s == State(o)
            t == Emptied(s, drops, goes)
<1>1. Good(s) /\ s.items = items[o]
  BY InvGood
<1>. HIDE DEF s
<1>2. t \in Emptying(s, 0, drops, goes)
  BY <1>1, IsEmptied
<1>. HIDE DEF t
<1>3. Good(t) /\ t \in States /\ t.items \in Seq(Stack)
  BY <1>2 DEF Emptying, States
<1>4. ASSUME NEW d \in Defs PROVE Balance(t, d) = Balance(s, d) + f[d]
  <2>1. /\ Balance(s, d) \in Int /\ Balance(t, d) \in Int
        /\ Amount(d, s.items) \in Int /\ Amount(d, s.ground) \in Int /\ s.ledger[d] \in Int
    BY <1>1, <1>3, StateTyped DEF Good
  <2>2. CASE d \notin goes
    <3>1. Balance(t, d) = Balance(s, d) /\ f[d] = 0
      BY <1>2, <2>2 DEF Emptying
    <3>. QED  BY <2>1, <3>1
  <2>3. CASE d \in goes
    <3>1. \A k \in DOMAIN t.items : t.items[k].def # d
      <4>. TAKE k \in DOMAIN t.items
      <4>1. k > 0
        BY <1>3
      <4>2. t.items[k].def \notin drops \union goes
        BY <1>2, <4>1 DEF Emptying
      <4>. QED  BY <2>3, <4>2
    <3>2. Amount(d, t.items) = 0
      BY <1>3, <3>1, AmountAbsent
    <3>3. Amount(d, t.ground) = Amount(d, s.ground) /\ t.ledger = s.ledger
      BY <1>2, <2>3 DEF Emptying
    <3>4. f[d] = -Amount(d, s.items)
      BY <1>1, <2>3
    <3>. QED  BY <2>1, <3>2, <3>3, <3>4 DEF Balance
  <2>. QED  BY <2>2, <2>3
<1>5. EndsAs(o, t, f) /\ dangled' \in BOOLEAN
  BY DEF InventoryInv, InventoryTypeOK, t, s
<1>6. \A d \in Defs : Balance(t, d) = Balance(State(o), d) + f[d]
  BY <1>4 DEF s
<1>. QED  BY <1>3, <1>5, <1>6, Ended

\* What is lost is what the owner held of it.
LEMMA LostIsHeld ==
  ASSUME InventoryInv, NEW o \in Owners, NEW goes
  PROVE  /\ Lost(o, goes) \in [Defs -> Int]
         /\ \A d \in Defs : Lost(o, goes)[d] = IF d \in goes THEN -Amount(d, items[o]) ELSE 0
<1>1. \A d \in Defs : Amount(d, items[o]) \in Int
  BY HeldTyped
<1>. QED  BY <1>1 DEF Lost

\* A player dies.
LEMMA DropItemsKeeps ==
  ASSUME InventoryInv, ~dangled, NEW o \in Owners, DropItems(o)
  PROVE  InventoryInv'
<1>1. EndsAs(o, Emptied(State(o), Droppable, {}), NoFlow) /\ UNCHANGED <<made, dangled>>
  BY DEF DropItems
<1>2. NoFlow \in [Defs -> Int] /\ \A d \in Defs : NoFlow[d] = IF d \in {} THEN -Amount(d, items[o]) ELSE 0
  BY DEF NoFlow
<1>3. Droppable \intersect {} = {}
  OBVIOUS
<1>. QED  BY <1>1, <1>2, <1>3, EmptiedKeeps

\* A bot dies.
LEMMA DropInventoryItemsKeeps ==
  ASSUME InventoryInv, ~dangled, NEW o \in Owners, DropInventoryItems(o)
  PROVE  InventoryInv'
<1>1. /\ EndsAs(o, Emptied(State(o), Droppable, Defs \ Droppable), Lost(o, Defs \ Droppable))
      /\ UNCHANGED <<made, dangled>>
  BY DEF DropInventoryItems
<1>2. Droppable \intersect (Defs \ Droppable) = {}
  OBVIOUS
<1>. QED  BY <1>1, <1>2, LostIsHeld, EmptiedKeeps

\* A player boards.
LEMMA BoardAircraftKeeps ==
  ASSUME InventoryInv, ~dangled, NEW o \in Owners, BoardAircraft(o)
  PROVE  InventoryInv'
<1>1. EndsAs(o, Emptied(State(o), {}, Droppable), Lost(o, Droppable)) /\ UNCHANGED <<made, dangled>>
  BY DEF BoardAircraft
<1>2. {} \intersect Droppable = {}
  OBVIOUS
<1>. QED  BY <1>1, <1>2, LostIsHeld, EmptiedKeeps

\* Amounts are numbers.
LEMMA AmountsTyped == ASSUME NEW d \in Defs PROVE Amounts(d) \subseteq Nat
  BY BoundsAssumption DEF Amounts

\* At first there is nothing, and nothing in the books.
LEMMA StartsBalanced == InventoryInit => InventoryInv
<1>. SUFFICES ASSUME InventoryInit PROVE InventoryInv
  OBVIOUS
<1>1. /\ items = [o \in Owners |-> <<>>] /\ room = [o \in Owners |-> 0]
      /\ hand = [o \in Owners |-> Unarmed] /\ ground = <<>> /\ ledger = [d \in Defs |-> 0]
      /\ made = [d \in Defs |-> 0] /\ dangled = FALSE
  BY DEF InventoryInit
<1>2. InventoryTypeOK
  <2>0. <<>> \in Seq(Stack) /\ <<>> \in Seq(Pickups) /\ Len(<<>>) = 0
    BY EmptySeq
  <2>1. \A o \in Owners : items[o] = <<>> /\ room[o] = 0 /\ hand[o] = Unarmed
    BY <1>1
  <2>2. ground \in Seq([def : Defs, count : Nat]) /\ ledger \in [Defs -> Int] /\ dangled \in BOOLEAN
    <3>1. ground \in Seq(Pickups)
      BY <1>1, <2>0
    <3>2. ledger \in [Defs -> Int]
      BY <1>1
    <3>3. dangled \in BOOLEAN
      BY <1>1, Zenon
    <3>. QED  BY <3>1, <3>2, <3>3, Zenon DEF Pickups
  <2>6. made \in [Defs -> Nat]
    BY <1>1
  <2>3. items \in [Owners -> Seq(Stack)]
    BY <1>1, <2>0, <2>1
  <2>4. room \in [Owners -> Nat] /\ hand \in [Owners -> Hand \union {Unarmed}]
    BY <1>1
  <2>5. \A o \in Owners : Len(items[o]) <= room[o]
    BY <2>0, <2>1
  <2>. QED  BY <2>1, <2>2, <2>3, <2>4, <2>5, <2>6 DEF InventoryTypeOK
<1>3. ASSUME NEW d \in Defs PROVE Held(d) + Lying(d) = ledger[d] + made[d]
  <2>. DEFINE f == [o \in Owners |-> Amount(d, items[o])]
  <2>1. \A o \in 1 .. Controllers : f[o] = 0
    BY <1>1, AmountOfNone, OwnersTyped
  <2>2. Sum(f, Controllers) = 0
    <3>. HIDE DEF f
    <3>. QED  BY <2>1, OwnersTyped, SumOfZeros
  <2>. QED  BY <1>1, <2>2, AmountOfNone DEF Held, Lying
<1>. QED  BY <1>1, <1>2, <1>3 DEF InventoryInv, Conserved

\* A stutter changes nothing of it.
LEMMA InventoryStutters == InventoryInv /\ UNCHANGED inventoryVars => InventoryInv'
<1>. SUFFICES ASSUME InventoryInv, UNCHANGED inventoryVars PROVE InventoryInv'
  OBVIOUS
<1>1. /\ items' = items /\ room' = room /\ hand' = hand /\ ground' = ground /\ ledger' = ledger
      /\ made' = made /\ dangled' = dangled
  BY DEF inventoryVars
<1>. QED  BY <1>1 DEF InventoryInv, InventoryTypeOK, Conserved, Held, Lying

\* No operation breaks the invariant.
LEMMA InventoryStepKeeps == InventoryInv /\ InventoryNext => InventoryInv'
<1>. SUFFICES ASSUME InventoryInv, InventoryNext PROVE InventoryInv'
  OBVIOUS
<1>0. ~dangled
  BY DEF InventoryNext
<1>1. ASSUME NEW d \in Defs, NEW n \in Amounts(d), Loot(d, n) PROVE InventoryInv'
  BY <1>1, AmountsTyped, LootKeeps
<1>. SUFFICES ASSUME NEW o \in Owners,
       \/ \E i \in DOMAIN ground : \E seen \in Counts(ground[i].def) : PickUp(o, i, seen)
       \/ \E d \in Defs : \E n \in Amounts(d) : \E seen \in Counts(d) : GiveItemToOwner(o, d, n, seen)
       \/ \E d \in Defs : \E n \in 1 .. MaxStack[d] : GiveDirectly(o, d, n)
       \/ \E k \in DOMAIN items[o] \union {0} : Equip(o, k)
       \/ \E k \in DOMAIN items[o] : \E n \in -1 .. items[o][k].count + 1 :
            \/ DropStack(o, k, n)
            \/ \E force \in BOOLEAN : RemoveInventoryItem(o, k, n, force)
            \/ \E force, persist \in BOOLEAN : RemoveItem(o, k, n, force, persist)
            \/ K2_RemoveItemFromPlayer(o, k, n)
       \/ \E d \in Materials : \E n \in Amounts(d) : Harvest(o, d, n)
       \/ \E d \in Traps : PlaceTrap(o, d)
       \/ \E d \in Upgraded : Upgrade(o, d)
       \/ DropItems(o) \/ DropInventoryItems(o) \/ BoardAircraft(o)
     PROVE InventoryInv'
  BY <1>1 DEF InventoryNext
<1>2. ASSUME NEW i \in DOMAIN ground, NEW seen \in Counts(ground[i].def), PickUp(o, i, seen)
      PROVE  InventoryInv'
  BY <1>0, <1>2, PickUpKeeps
<1>3. ASSUME NEW d \in Defs, NEW n \in Amounts(d), NEW seen \in Counts(d), GiveItemToOwner(o, d, n, seen)
      PROVE  InventoryInv'
  BY <1>0, <1>3, AmountsTyped, GiveItemToOwnerKeeps
<1>4. ASSUME NEW d \in Defs, NEW n \in 1 .. MaxStack[d], GiveDirectly(o, d, n) PROVE InventoryInv'
  BY <1>0, <1>4, GiveDirectlyKeeps
<1>5. ASSUME NEW k \in DOMAIN items[o] \union {0}, Equip(o, k) PROVE InventoryInv'
  BY <1>5, EquipKeeps
<1>6. ASSUME NEW k \in DOMAIN items[o], NEW n \in -1 .. items[o][k].count + 1,
        \/ DropStack(o, k, n)
        \/ \E force \in BOOLEAN : RemoveInventoryItem(o, k, n, force)
        \/ \E force, persist \in BOOLEAN : RemoveItem(o, k, n, force, persist)
        \/ K2_RemoveItemFromPlayer(o, k, n)
      PROVE  InventoryInv'
  <2>1. CASE DropStack(o, k, n)
    BY <1>0, <2>1, DropStackKeeps
  <2>2. ASSUME NEW force \in BOOLEAN, RemoveInventoryItem(o, k, n, force) PROVE InventoryInv'
    BY <1>0, <2>2, RemoveInventoryItemKeeps
  <2>3. ASSUME NEW force \in BOOLEAN, NEW persist \in BOOLEAN, RemoveItem(o, k, n, force, persist)
        PROVE  InventoryInv'
    BY <1>0, <2>3, RemoveItemKeeps
  <2>4. CASE K2_RemoveItemFromPlayer(o, k, n)
    BY <1>0, <2>4, K2_RemoveItemFromPlayerKeeps
  <2>. QED  BY <1>6, <2>1, <2>2, <2>3, <2>4
<1>7. ASSUME NEW d \in Materials, NEW n \in Amounts(d), Harvest(o, d, n) PROVE InventoryInv'
  BY <1>0, <1>7, AmountsTyped, ResourcesTyped, HarvestKeeps
<1>8. ASSUME NEW d \in Traps, PlaceTrap(o, d) PROVE InventoryInv'
  BY <1>0, <1>8, SetsTyped, PlaceTrapKeeps
<1>9. ASSUME NEW d \in Upgraded, Upgrade(o, d) PROVE InventoryInv'
  BY <1>0, <1>9, SetsTyped, UpgradeKeeps
<1>10. DropItems(o) \/ DropInventoryItems(o) \/ BoardAircraft(o) => InventoryInv'
  BY <1>0, DropItemsKeeps, DropInventoryItemsKeeps, BoardAircraftKeeps
<1>. QED  BY <1>2, <1>3, <1>4, <1>5, <1>6, <1>7, <1>8, <1>9, <1>10

\* The invariant the three theorems below rest on.
THEOREM InventoryInvariance == InventorySpec => []InventoryInv
<1>1. InventoryInv /\ [InventoryNext]_inventoryVars => InventoryInv'
  BY InventoryStepKeeps, InventoryStutters
<1>. QED  BY StartsBalanced, <1>1, PTL DEF InventorySpec

\* The inventories are of their types: no more stacks than ReplicatedEntries had room
\* for, and what is in hand is a stack that is there, of that definition.
THEOREM InventoryTypeCorrect == InventorySpec => []InventoryTypeOK
<1>1. InventoryInv => InventoryTypeOK
  BY DEF InventoryInv
<1>. QED  BY InventoryInvariance, <1>1, PTL

\* Whatever the hooks do, in any order, the entry and the instance of a stack
\* agree (Inventory.cpp; Pickups.cpp).
THEOREM CopiesDoAgree == InventorySpec => []CopiesAgree
<1>1. InventoryInv => CopiesAgree
  BY DEF InventoryInv, CopiesAgree
<1>. QED  BY InventoryInvariance, <1>1, PTL

\* No operation loses an item, and only a drop or a removal whose count nobody compares
\* with the stack makes one: the owners together and the ground hold what came in and
\* was so made, less what was used, lost in the books or refused by a full bar.
THEOREM NothingIsLost == InventorySpec => []Conserved
<1>1. InventoryInv => Conserved
  BY DEF InventoryInv
<1>. QED  BY InventoryInvariance, <1>1, PTL

(* No stack is too large. *)

\* Pickups that are split in two at most.
SmallPickups == \A d \in Defs : MaxStack[d] = 1 \/ MaxPickup <= MaxStack[d] + 1

\* The stacks of every owner, and the ground.
AllSized == \A o \in Owners : Sized(made, State(o))

\* What comes at once is small.
LEMMA AmountsAreSmall ==
  ASSUME SmallPickups, NEW d \in Defs, NEW n \in Amounts(d)
  PROVE  n \in Nat /\ n <= MaxStack[d] + 1 /\ (MaxStack[d] = 1 => n <= 1)
<1>1. MaxPickup \in Nat /\ MaxStack[d] \in Nat /\ MaxStack[d] > 0
  BY BoundsAssumption, StackIsMore
<1>2. CASE MaxStack[d] = 1
  BY <1>2 DEF Amounts
<1>3. CASE MaxStack[d] # 1
  BY <1>1, <1>3 DEF Amounts, SmallPickups
<1>. QED  BY <1>2, <1>3

\* So it is small with any slack.
LEMMA AmountsFit ==
  ASSUME SmallPickups, NEW d \in Defs, NEW n \in Amounts(d), NEW slack \in [Defs -> Nat]
  PROVE  n \in Nat /\ Small(slack, d, n)
<1>1. MaxStack[d] \in Nat /\ slack[d] \in Nat
  BY StackIsMore
<1>. QED  BY <1>1, AmountsAreSmall DEF Small

\* A hook that leaves owner o with stacks of the right size, and may make items.
LEMMA EndedSizedMaking ==
  ASSUME InventoryInv, AllSized, NEW o \in Owners, NEW t, Sized(made', t), NEW f, EndsAs(o, t, f),
         made' \in [Defs -> Nat], \A d \in Defs : made[d] <= made'[d]
  PROVE  AllSized'
<1>1. items' = [items EXCEPT ![o] = t.items] /\ ground' = t.ground /\ items \in [Owners -> Seq(Stack)]
  BY DEF EndsAs, InventoryInv, InventoryTypeOK
<1>2. ASSUME NEW p \in Owners PROVE Sized(made, State(p))'
  <2>1. CASE p = o
    <3>1. items'[p] = t.items
      BY <1>1, <2>1
    <3>. QED  BY <1>1, <3>1 DEF Sized, State
  <2>2. CASE p # o
    <3>1. items'[p] = items[p] /\ State(p).items = items[p]
      BY <1>1, <2>2 DEF State
    <3>2. Sized(made', State(p))
      BY InvGood, SizedSlackens DEF AllSized
    <3>3. Sized(made, State(p))' <=> /\ \A k \in DOMAIN items'[p] : Whole(made', items'[p][k])
                                     /\ \A i \in DOMAIN ground' :
                                          Small(made', ground'[i].def, ground'[i].count)
      BY DEF Sized, State
    <3>. QED  BY <1>1, <3>1, <3>2, <3>3 DEF Sized
  <2>. QED  BY <2>1, <2>2
<1>. QED  BY <1>2 DEF AllSized

\* A hook that makes nothing.
LEMMA EndedSized ==
  ASSUME InventoryInv, AllSized, NEW o \in Owners, NEW t, Sized(made, t), NEW f, EndsAs(o, t, f),
         UNCHANGED made
  PROVE  AllSized'
<1>1. /\ made' = made /\ made \in [Defs -> Nat]
      /\ \A d \in Defs : made[d] <= made'[d]
  BY DEF InventoryInv, InventoryTypeOK
<1>2. Sized(made', t)
  BY <1>1
<1>3. made' \in [Defs -> Nat]
  BY <1>1
<1>. QED  BY <1>1, <1>2, <1>3, EndedSizedMaking

\* Loot is small.
LEMMA LootSized ==
  ASSUME InventoryInv, AllSized, SmallPickups, NEW d \in Defs, NEW n \in Amounts(d), Loot(d, n)
  PROVE  AllSized'
<1>1. /\ items' = items /\ ground' = Append(ground, Pickup(d, n)) /\ ground \in Seq(Pickups)
      /\ made' = made
  BY DEF Loot, InventoryInv, InventoryTypeOK, Pickups
<1>2. ASSUME NEW o \in Owners PROVE Sized(made, State(o))'
  <2>1. Good(State(o)) /\ State(o).items = items[o] /\ State(o).ground = ground /\ Sized(made, State(o))
    BY InvGood DEF AllSized
  <2>2. n \in Nat /\ Small(made, d, n) /\ made \in [Defs -> Nat]
    BY InvGood, AmountsFit
  <2>3. Sized(made, Spawn(State(o), d, n))
    BY <2>1, <2>2, SizedSpawned
  <2>4. Spawn(State(o), d, n).items = items[o] /\ Spawn(State(o), d, n).ground = ground'
    BY <1>1, <2>1, <2>2, Spawned
  <2>5. Sized(made, State(o))' <=> /\ \A k \in DOMAIN items'[o] : Whole(made', items'[o][k])
                                   /\ \A i \in DOMAIN ground' :
                                        Small(made', ground'[i].def, ground'[i].count)
    BY DEF Sized, State
  <2>. QED  BY <1>1, <2>3, <2>4, <2>5 DEF Sized
<1>. QED  BY <1>2 DEF AllSized

\* A pickup is taken, and no freed memory was read as something else.
LEMMA PickUpSized ==
  ASSUME InventoryInv, AllSized, ~dangled, NEW o \in Owners, NEW i \in DOMAIN ground,
         NEW seen, PickUp(o, i, seen), ~dangled'
  PROVE  AllSized'
<1>. DEFINE p == ground[i]
            g == Seqs!RemoveAt(ground, i)
            s == [State(o) EXCEPT !.ground = g]
            t == PickedUp(s, p.def, p.count, MaxStack[p.def])
<1>1. /\ Good(State(o)) /\ State(o) \in States /\ State(o).ground = ground /\ ground \in Seq(Pickups)
      /\ Sized(made, State(o)) /\ p.def \in Defs /\ p.count \in Nat /\ Small(made, p.def, p.count)
      /\ i \in 1 .. Len(ground) /\ made \in [Defs -> Nat]
  <2>1. /\ Good(State(o)) /\ State(o) \in States /\ State(o).ground = ground /\ ground \in Seq(Pickups)
        /\ made \in [Defs -> Nat]
    BY InvGood DEF Good
  <2>2. p \in Pickups /\ i \in 1 .. Len(ground)
    BY <2>1
  <2>. QED  BY <2>1, <2>2 DEF Pickups, AllSized, Sized
<1>2. EndsAs(o, t, NoFlow) /\ UNCHANGED made
  <2>1. s = [State(o) EXCEPT !.ground = Seqs!RemoveAt(@, i)]
    BY <1>1
  <2>. HIDE DEF s
  <2>. QED  BY <2>1 DEF PickUp, Seen
<1>3. /\ g \in Seq(Pickups) /\ Len(g) = Len(ground) - 1
      /\ \A j \in 1 .. Len(ground) - 1 : g[j] = IF j < i THEN ground[j] ELSE ground[j + 1]
  BY <1>1, Removal
<1>. HIDE DEF g
<1>4. /\ s \in States /\ s.items = State(o).items /\ s.hand = State(o).hand /\ s.room = State(o).room
      /\ s.ground = g
  <2>. DEFINE r == State(o)
  <2>1. r \in States
    BY <1>1
  <2>. HIDE DEF r
  <2>2. LET q == [r EXCEPT !.ground = g]
        IN /\ q \in States /\ q.items = r.items /\ q.hand = r.hand /\ q.room = r.room /\ q.ground = g
    BY <1>3, <2>1 DEF States
  <2>. QED  BY <2>2 DEF r
<1>. HIDE DEF s
<1>5. Good(s)
  BY <1>1, <1>4 DEF Good
<1>6. Sized(made, s)
  <2>1. ASSUME NEW j \in DOMAIN g PROVE Small(made, g[j].def, g[j].count)
    <3>1. j \in 1 .. Len(ground) - 1 /\ j \in DOMAIN ground /\ j + 1 \in DOMAIN ground
      BY <1>1, <1>3
    <3>. QED  BY <1>1, <1>3, <3>1 DEF Sized
  <2>. QED  BY <1>1, <1>4, <2>1 DEF Sized
<1>7. Sized(made, t)
  <2>. HIDE DEF p
  <2>. QED  BY <1>1, <1>5, <1>6, SizedPickedUp
<1>. HIDE DEF t
<1>. QED  BY <1>2, <1>7, EndedSized

\* An item is given as if picked up.
LEMMA GiveItemToOwnerSized ==
  ASSUME InventoryInv, AllSized, SmallPickups, ~dangled, NEW o \in Owners, NEW d \in Defs,
         NEW n \in Amounts(d), NEW seen, GiveItemToOwner(o, d, n, seen), ~dangled'
  PROVE  AllSized'
<1>1. EndsAs(o, PickedUp(State(o), d, n, MaxStack[d]), Flow(d, n)) /\ UNCHANGED made
  BY DEF GiveItemToOwner, Seen
<1>2. Sized(made, PickedUp(State(o), d, n, MaxStack[d]))
  BY AmountsFit, InvGood, SizedPickedUp DEF AllSized
<1>. QED  BY <1>1, <1>2, EndedSized

\* A stack at most is given.
LEMMA GiveDirectlySized ==
  ASSUME InventoryInv, AllSized, NEW o \in Owners, NEW d \in Defs, NEW n \in 1 .. MaxStack[d],
         GiveDirectly(o, d, n)
  PROVE  AllSized'
<1>1. EndsAs(o, Give(State(o), d, n), Flow(d, n)) /\ UNCHANGED made
  BY DEF GiveDirectly
<1>2. Sized(made, Give(State(o), d, n))
  <2>1. MaxStack[d] \in Nat /\ made[d] \in Nat /\ made \in [Defs -> Nat]
    BY StackIsMore, InvGood
  <2>2. n \in Nat /\ n <= MaxStack[d] + made[d]
    BY <2>1
  <2>. QED  BY <2>1, <2>2, InvGood, SizedGiven DEF AllSized
<1>. QED  BY <1>1, <1>2, EndedSized

\* No more than a stack and what the count makes is dropped.
LEMMA DropStackSized ==
  ASSUME InventoryInv, AllSized, NEW o \in Owners, NEW k \in DOMAIN items[o], NEW n, DropStack(o, k, n)
  PROVE  AllSized'
<1>. DEFINE s == State(o)
            e == items[o][k]
            gone == IF n < 0 THEN e.inst + 1 ELSE n
            rest == IF n < 0 THEN 0 ELSE e.inst - n
            more == IF gone > e.inst THEN 1 ELSE 0
            u == Spawn(s, e.def, gone)
            t == Left(u, k, rest)
<1>1. /\ Good(s) /\ Sized(made, s) /\ s.items = items[o] /\ k \in DOMAIN s.items /\ s.items[k] = e
      /\ made \in [Defs -> Nat]
  BY InvGood DEF AllSized
<1>. HIDE DEF s
<1>2. /\ e.def \in Defs /\ e.count \in Nat /\ e.inst = e.count /\ MaxStack[e.def] \in Nat
      /\ e.count <= MaxStack[e.def] + made[e.def] /\ made[e.def] \in Nat
  BY <1>1, StackFound DEF Sized, Whole
<1>3. /\ n \in -1 .. e.inst + 1 /\ EndsAs(o, t, NoFlow)
      /\ made' = [made EXCEPT ![e.def] = @ + more]
  BY DEF DropStack, Makes, s
<1>. HIDE DEF e
<1>4. /\ gone \in Nat /\ gone <= e.count + more /\ more \in Nat
      /\ rest \in Int /\ rest <= e.count
  BY <1>2, <1>3
<1>. HIDE DEF gone, rest, more
<1>5. made' \in [Defs -> Nat] /\ made'[e.def] = made[e.def] + more /\ \A d \in Defs : made[d] <= made'[d]
  BY <1>1, <1>2, <1>3, <1>4
<1>6. Sized(made', s)
  BY <1>1, <1>5, SizedSlackens
<1>7. Good(u) /\ Sized(made', u) /\ u.items = s.items
  <2>1. Small(made', e.def, gone)
    BY <1>2, <1>4, <1>5 DEF Small
  <2>. QED  BY <1>1, <1>2, <1>4, <1>5, <1>6, <2>1, Spawned, SizedSpawned
<1>. HIDE DEF u
<1>8. Sized(made', t)
  <2>1. k \in DOMAIN u.items /\ rest <= u.items[k].count
    BY <1>1, <1>4, <1>7
  <2>. QED  BY <1>4, <1>5, <1>7, <2>1, SizedLeft
<1>. HIDE DEF t
<1>. QED  BY <1>3, <1>5, <1>8, EndedSizedMaking

\* A stack is left with less, empty only if it may be.
LEMMA RemoveInventoryItemSized ==
  ASSUME InventoryInv, AllSized, NEW o \in Owners, NEW k \in DOMAIN items[o], NEW n, NEW force,
         RemoveInventoryItem(o, k, n, force)
  PROVE  AllSized'
<1>. DEFINE s == State(o)
            e == items[o][k]
            rest == e.inst - (IF n < 0 THEN 0 ELSE n)
            gone == n < 0 \/ rest <= 0 \/ force
            stays == /\ e.def \in KeepsEmpty /\ n > 0
                     /\ \A j \in DOMAIN items[o] \ {k} : items[o][j].def # e.def
<1>1. /\ Good(s) /\ Sized(made, s) /\ s.items = items[o] /\ k \in DOMAIN s.items /\ s.items[k] = e
      /\ made \in [Defs -> Nat]
  BY InvGood DEF AllSized
<1>2. /\ e.def \in Defs /\ e.count \in Nat /\ e.inst = e.count /\ MaxStack[e.def] \in Nat
      /\ e.count <= MaxStack[e.def] + made[e.def] /\ made[e.def] \in Nat
  <2>. HIDE DEF s
  <2>. QED  BY <1>1, StackFound DEF Sized, Whole
<1>3. /\ n \in -1 .. e.inst
      /\ IF gone /\ ~stays THEN EndsAs(o, Take(s, k), Flow(e.def, -e.inst))
         ELSE EndsAs(o, Set(s, k, rest), Flow(e.def, rest - e.inst))
      /\ UNCHANGED made
  BY DEF RemoveInventoryItem
<1>4. /\ rest \in Nat /\ rest <= MaxStack[e.def] + made[e.def]
      /\ (~(gone /\ ~stays) => rest > 0 \/ e.def \in KeepsEmpty)
  <2>1. rest \in Nat /\ rest <= MaxStack[e.def] + made[e.def]
    <3>. HIDE DEF e
    <3>. QED  BY <1>2, <1>3
  <2>2. ~(rest <= 0) => rest > 0
    <3>. HIDE DEF rest
    <3>. QED  BY <2>1
  <2>. HIDE DEF rest
  <2>. QED  BY <2>1, <2>2
<1>. HIDE DEF s, rest, gone, stays, e
<1>5. CASE gone /\ ~stays
  BY <1>1, <1>3, <1>5, SizedTaken, EndedSized
<1>6. CASE ~(gone /\ ~stays)
  <2>1. Whole(made, Full(s.items[k].def, rest))
    BY <1>1, <1>4, <1>6 DEF Whole, Full
  <2>. QED  BY <1>1, <1>3, <1>4, <1>6, <2>1, SizedSet, EndedSized
<1>. QED  BY <1>5, <1>6

\* A script leaves a stack empty only within MaxOdd.
LEMMA RemoveItemSized ==
  ASSUME InventoryInv, AllSized, NEW o \in Owners, NEW k \in DOMAIN items[o], NEW n,
         NEW force \in BOOLEAN, NEW persist \in BOOLEAN, RemoveItem(o, k, n, force, persist)
  PROVE  AllSized'
<1>. DEFINE s == State(o)
            e == items[o][k]
            gone == force \/ (~persist /\ (e.inst - n <= 0 \/ n < 0))
            more == IF ~gone /\ n < 0 THEN 1 ELSE 0
            f == Flow(e.def, IF n < 0 THEN 0 ELSE -n)
<1>1. /\ Good(s) /\ Sized(made, s) /\ s.items = items[o] /\ k \in DOMAIN s.items /\ s.items[k] = e
      /\ made \in [Defs -> Nat]
  BY InvGood DEF AllSized
<1>2. /\ e.def \in Defs /\ e.count \in Nat /\ e.inst = e.count /\ MaxStack[e.def] \in Nat
      /\ e.count <= MaxStack[e.def] + made[e.def] /\ made[e.def] \in Nat
  <2>. HIDE DEF s
  <2>. QED  BY <1>1, StackFound DEF Sized, Whole
<1>3. /\ n \in -1 .. e.inst
      /\ ~gone /\ n = e.inst => FewOdd(o)
      /\ IF gone THEN EndsAs(o, Take(s, k), Flow(e.def, -e.inst))
         ELSE EndsAs(o, Set(s, k, e.inst - n), f)
      /\ made' = [made EXCEPT ![e.def] = @ + more]
  BY DEF RemoveItem, Makes
<1>. HIDE DEF s, e
<1>4. /\ more \in Nat /\ e.inst - n \in Nat
      /\ ~gone => e.inst - n <= MaxStack[e.def] + made[e.def] + more
  BY <1>2, <1>3
<1>5. ~gone => e.inst - n > 0 \/ MaxOdd > 0
  <2>1. FewOdd(o) => MaxOdd > 0
    BY BoundsAssumption DEF FewOdd
  <2>2. n # e.inst => e.inst - n > 0
    BY <1>2, <1>3
  <2>. QED  BY <1>3, <2>1, <2>2
<1>. HIDE DEF gone, more, f
<1>6. made' \in [Defs -> Nat] /\ made'[e.def] = made[e.def] + more /\ \A d \in Defs : made[d] <= made'[d]
  BY <1>1, <1>2, <1>3, <1>4
<1>7. Sized(made', s)
  BY <1>1, <1>6, SizedSlackens
<1>8. CASE gone
  BY <1>1, <1>3, <1>6, <1>7, <1>8, SizedTaken, EndedSizedMaking
<1>9. CASE ~gone
  <2>1. Whole(made', Full(e.def, e.inst - n))
    <3>. DEFINE rest == e.inst - n
    <3>1. /\ rest \in Nat /\ rest <= MaxStack[e.def] + made'[e.def] /\ (rest > 0 \/ MaxOdd > 0)
      BY <1>2, <1>4, <1>5, <1>6, <1>9
    <3>. HIDE DEF rest
    <3>2. Whole(made', Full(e.def, rest))
      BY <3>1 DEF Whole, Full
    <3>. QED  BY <3>2 DEF rest
  <2>2. Sized(made', Set(s, k, e.inst - n))
    BY <1>1, <1>4, <1>6, <1>7, <2>1, SizedSet
  <2>. QED  BY <1>3, <1>6, <1>9, <2>2, EndedSizedMaking
<1>. QED  BY <1>8, <1>9

\* A stack is left with less, or gone.
LEMMA K2_RemoveItemFromPlayerSized ==
  ASSUME InventoryInv, AllSized, NEW o \in Owners, NEW k \in DOMAIN items[o], NEW n \in Int,
         K2_RemoveItemFromPlayer(o, k, n)
  PROVE  AllSized'
<1>. DEFINE s == State(o)
            e == s.items[k]
            rest == IF n < 0 THEN 0 ELSE e.count - n
            t == Left(s, k, rest)
<1>1. Good(s) /\ Sized(made, s) /\ s.items = items[o] /\ k \in DOMAIN s.items /\ made \in [Defs -> Nat]
  BY InvGood DEF AllSized
<1>. HIDE DEF s
<1>2. e.def \in Defs /\ e.count \in Nat
  BY <1>1, StackFound
<1>3. EndsAs(o, t, Flow(e.def, -Removed(s, k, n))) /\ UNCHANGED made
  BY DEF K2_RemoveItemFromPlayer, s
<1>4. rest \in Int /\ rest <= s.items[k].count
  BY <1>2
<1>5. Sized(made, t)
  <2>. HIDE DEF rest
  <2>. QED  BY <1>1, <1>4, SizedLeft
<1>. HIDE DEF t
<1>. QED  BY <1>3, <1>5, EndedSized

\* A small harvest.
LEMMA HarvestSized ==
  ASSUME InventoryInv, AllSized, SmallPickups, NEW o \in Owners, NEW d \in Defs,
         NEW n \in Amounts(d), Harvest(o, d, n)
  PROVE  AllSized'
<1>. DEFINE s == State(o)
            k == First(Of(s, d))
            u == Spawn(s, d, n - MaxStack[d])
<1>1. /\ Good(s) /\ Sized(made, s) /\ MaxStack[d] \in Nat /\ MaxStack[d] > 0 /\ n \in Nat
      /\ n <= MaxStack[d] + 1 /\ (MaxStack[d] = 1 => n <= 1) /\ made \in [Defs -> Nat] /\ made[d] \in Nat
  BY InvGood, StackIsMore, AmountsAreSmall DEF AllSized
<1>2. /\ CASE k # 0 -> EndsAs(o, Harvested(s, k, d, n), Flow(d, n))
           [] k = 0 /\ n > MaxStack[d] -> EndsAs(o, Give(u, d, MaxStack[d]), Flow(d, n))
           [] OTHER -> EndsAs(o, Give(s, d, n), Flow(d, n))
      /\ UNCHANGED made
  BY DEF Harvest
<1>. HIDE DEF s
<1>3. k # 0 => k \in DOMAIN s.items /\ s.items[k].def = d
  BY <1>1, FirstIsLeast, OfIsPlaces
<1>. HIDE DEF k
<1>4. CASE k # 0
  <2>1. EndsAs(o, Harvested(s, k, d, n), Flow(d, n))
    BY <1>2, <1>4
  <2>2. Sized(made, Harvested(s, k, s.items[k].def, n))
    <3>1. n <= MaxStack[s.items[k].def] + 1 /\ (MaxStack[s.items[k].def] = 1 => n <= 1)
      BY <1>1, <1>3, <1>4
    <3>. QED  BY <1>1, <1>3, <1>4, <3>1, SizedHarvested
  <2>. QED  BY <1>2, <1>3, <1>4, <2>1, <2>2, EndedSized
<1>5. CASE k = 0 /\ n > MaxStack[d]
  <2>1. EndsAs(o, Give(u, d, MaxStack[d]), Flow(d, n))
    BY <1>2, <1>5
  <2>2. n - MaxStack[d] \in Nat /\ Small(made, d, n - MaxStack[d])
    BY <1>1, <1>5 DEF Small
  <2>3. Good(u) /\ Sized(made, u)
    BY <1>1, <2>2, Spawned, SizedSpawned
  <2>. HIDE DEF u
  <2>4. Sized(made, Give(u, d, MaxStack[d]))
    BY <1>1, <2>3, SizedGiven
  <2>. QED  BY <1>2, <2>1, <2>4, EndedSized
<1>6. CASE k = 0 /\ ~(n > MaxStack[d])
  <2>1. EndsAs(o, Give(s, d, n), Flow(d, n))
    BY <1>2, <1>6
  <2>2. Sized(made, Give(s, d, n))
    BY <1>1, <1>6, SizedGiven
  <2>. QED  BY <1>2, <2>1, <2>2, EndedSized
<1>. QED  BY <1>4, <1>5, <1>6

\* A stack is left with one trap less.
LEMMA PlaceTrapSized ==
  ASSUME InventoryInv, AllSized, NEW o \in Owners, NEW d \in Defs, PlaceTrap(o, d)
  PROVE  AllSized'
<1>. DEFINE s == State(o)
            k == First(Of(s, d))
            c == s.items[k].count
            t == Left(s, k, c - 1)
            f == Flow(d, IF c = 0 THEN 0 ELSE -1)
<1>1. Good(s) /\ Sized(made, s) /\ made \in [Defs -> Nat]
  BY InvGood DEF AllSized
<1>2. k # 0 /\ EndsAs(o, t, f) /\ UNCHANGED made
  BY DEF PlaceTrap
<1>. HIDE DEF s, f
<1>3. k \in DOMAIN s.items
  BY <1>1, <1>2, FirstIsLeast, OfIsPlaces
<1>. HIDE DEF k
<1>4. c \in Nat /\ c - 1 \in Int /\ c - 1 <= s.items[k].count
  <2>1. s.items[k].count \in Nat
    BY <1>1, <1>3, StackFound
  <2>. QED  BY <2>1
<1>5. Sized(made, t)
  BY <1>1, <1>3, <1>4, SizedLeft
<1>. HIDE DEF t
<1>. QED  BY <1>2, <1>5, EndedSized

\* The resources are left with less, one weapon comes.
LEMMA UpgradeSized ==
  ASSUME InventoryInv, AllSized, NEW o \in Owners, NEW d \in Defs, Upgrade(o, d)
  PROVE  AllSized'
<1>. DEFINE s == State(o)
            k == hand[o].at
            e == s.items[k]
            u == Take(s, k)
            v == Paid(u)
            t == Give(v, d, 1)
<1>1. Good(s) /\ Sized(made, s) /\ s.items = items[o] /\ s.hand = hand[o] /\ made \in [Defs -> Nat]
  BY InvGood DEF AllSized
<1>2. /\ hand[o] # Unarmed /\ k # 0 /\ e.def \in Primary
      /\ \A r \in Materials : CanPay(s, r)
      /\ \E f : EndsAs(o, t, f)
      /\ UNCHANGED made
  BY <1>1 DEF Upgrade
<1>. HIDE DEF s
<1>3. k \in DOMAIN s.items
  BY <1>1, <1>2 DEF Good, States, Hand, HandFits
<1>. HIDE DEF k
<1>4. Good(u) /\ Sized(made, u)
  BY <1>1, <1>3, Taken, SizedTaken
<1>5. \A r \in Materials : CanPay(u, r)
  <2>. TAKE r \in Materials
  <2>1. e.def # r /\ CanPay(s, r)
    BY <1>2, ResourcesTyped
  <2>. QED  BY <1>1, <1>3, <2>1, FirstStays
<1>. HIDE DEF u
<1>6. Good(v) /\ Sized(made, v)
  BY <1>1, <1>4, <1>5, IsPaid DEF Paying
<1>. HIDE DEF v
<1>7. Sized(made, t)
  <2>1. 1 \in Nat /\ 1 <= MaxStack[d] + made[d]
    BY <1>1, StackIsMore
  <2>. QED  BY <1>1, <1>6, <2>1, SizedGiven
<1>. HIDE DEF t
<1>. QED  BY <1>2, <1>7, EndedSized

\* An inventory is emptied.
LEMMA EmptiedSized ==
  ASSUME InventoryInv, AllSized, NEW o \in Owners, NEW drops, NEW goes, NEW f,
         EndsAs(o, Emptied(State(o), drops, goes), f), UNCHANGED made
  PROVE  AllSized'
<1>1. Good(State(o)) /\ Sized(made, State(o)) /\ made \in [Defs -> Nat]
  BY InvGood DEF AllSized
<1>2. Sized(made, Emptied(State(o), drops, goes))
  BY <1>1, IsEmptied DEF Emptying
<1>. QED  BY <1>2, EndedSized

\* As long as no freed memory was read as something else, no step makes a stack
\* too large.
LEMMA SizedSteps ==
  InventoryInv /\ (~dangled => AllSized) /\ SmallPickups /\ [InventoryNext]_inventoryVars
    => (~dangled' => AllSized')
<1>. SUFFICES ASSUME InventoryInv, ~dangled => AllSized, SmallPickups,
                     [InventoryNext]_inventoryVars, ~dangled'
              PROVE  AllSized'
  OBVIOUS
<1>1. CASE UNCHANGED inventoryVars
  <2>1. items' = items /\ ground' = ground /\ made' = made /\ dangled' = dangled
    BY <1>1 DEF inventoryVars
  <2>. QED  BY <2>1 DEF AllSized, Sized, State
<1>. SUFFICES ASSUME InventoryNext PROVE AllSized'
  BY <1>1
<1>0. ~dangled /\ AllSized
  BY DEF InventoryNext
<1>2. ASSUME NEW d \in Defs, NEW n \in Amounts(d), Loot(d, n) PROVE AllSized'
  BY <1>0, <1>2, LootSized
<1>. SUFFICES ASSUME NEW o \in Owners,
       \/ \E i \in DOMAIN ground : \E seen \in Counts(ground[i].def) : PickUp(o, i, seen)
       \/ \E d \in Defs : \E n \in Amounts(d) : \E seen \in Counts(d) : GiveItemToOwner(o, d, n, seen)
       \/ \E d \in Defs : \E n \in 1 .. MaxStack[d] : GiveDirectly(o, d, n)
       \/ \E k \in DOMAIN items[o] \union {0} : Equip(o, k)
       \/ \E k \in DOMAIN items[o] : \E n \in -1 .. items[o][k].count + 1 :
            \/ DropStack(o, k, n)
            \/ \E force \in BOOLEAN : RemoveInventoryItem(o, k, n, force)
            \/ \E force, persist \in BOOLEAN : RemoveItem(o, k, n, force, persist)
            \/ K2_RemoveItemFromPlayer(o, k, n)
       \/ \E d \in Materials : \E n \in Amounts(d) : Harvest(o, d, n)
       \/ \E d \in Traps : PlaceTrap(o, d)
       \/ \E d \in Upgraded : Upgrade(o, d)
       \/ DropItems(o) \/ DropInventoryItems(o) \/ BoardAircraft(o)
     PROVE AllSized'
  BY <1>2 DEF InventoryNext
<1>3. ASSUME NEW i \in DOMAIN ground, NEW seen \in Counts(ground[i].def), PickUp(o, i, seen)
      PROVE  AllSized'
  BY <1>0, <1>3, PickUpSized
<1>4. ASSUME NEW d \in Defs, NEW n \in Amounts(d), NEW seen \in Counts(d), GiveItemToOwner(o, d, n, seen)
      PROVE  AllSized'
  BY <1>0, <1>4, GiveItemToOwnerSized
<1>5. ASSUME NEW d \in Defs, NEW n \in 1 .. MaxStack[d], GiveDirectly(o, d, n) PROVE AllSized'
  BY <1>0, <1>5, GiveDirectlySized
<1>6. ASSUME NEW k \in DOMAIN items[o] \union {0}, Equip(o, k) PROVE AllSized'
  <2>1. items' = items /\ ground' = ground /\ made' = made
    BY <1>6 DEF Equip
  <2>. QED  BY <1>0, <2>1 DEF AllSized, Sized, State
<1>7. ASSUME NEW k \in DOMAIN items[o], NEW n \in -1 .. items[o][k].count + 1,
        \/ DropStack(o, k, n)
        \/ \E force \in BOOLEAN : RemoveInventoryItem(o, k, n, force)
        \/ \E force, persist \in BOOLEAN : RemoveItem(o, k, n, force, persist)
        \/ K2_RemoveItemFromPlayer(o, k, n)
      PROVE  AllSized'
  <2>1. CASE DropStack(o, k, n)
    BY <1>0, <2>1, DropStackSized
  <2>2. ASSUME NEW force \in BOOLEAN, RemoveInventoryItem(o, k, n, force) PROVE AllSized'
    BY <1>0, <2>2, RemoveInventoryItemSized
  <2>3. ASSUME NEW force \in BOOLEAN, NEW persist \in BOOLEAN, RemoveItem(o, k, n, force, persist)
        PROVE  AllSized'
    BY <1>0, <2>3, RemoveItemSized
  <2>4. CASE K2_RemoveItemFromPlayer(o, k, n)
    BY <1>0, <2>4, K2_RemoveItemFromPlayerSized
  <2>. QED  BY <1>7, <2>1, <2>2, <2>3, <2>4
<1>8. ASSUME NEW d \in Materials, NEW n \in Amounts(d), Harvest(o, d, n) PROVE AllSized'
  BY <1>0, <1>8, ResourcesTyped, HarvestSized
<1>9. ASSUME NEW d \in Traps, PlaceTrap(o, d) PROVE AllSized'
  BY <1>0, <1>9, SetsTyped, PlaceTrapSized
<1>10. ASSUME NEW d \in Upgraded, Upgrade(o, d) PROVE AllSized'
  BY <1>0, <1>10, SetsTyped, UpgradeSized
<1>11. DropItems(o) \/ DropInventoryItems(o) \/ BoardAircraft(o) => AllSized'
  BY <1>0, EmptiedSized DEF DropItems, DropInventoryItems, BoardAircraft
<1>. QED  BY <1>3, <1>4, <1>5, <1>6, <1>7, <1>8, <1>9, <1>10, <1>11

\* Provided that no pickup or harvest is more than a stack and one, no sequence of
\* operations makes a stack larger than its size and what a count made of it, or
\* leaves one empty that may not be and that nobody asked to keep.
THEOREM StacksAreBounded ==
  ASSUME SmallPickups
  PROVE  InventorySpec => []StacksBounded
<1>1. InventoryInit => (~dangled => AllSized)
  BY DEF InventoryInit, AllSized, Sized, State
<1>2. InventoryInv /\ (~dangled => AllSized) /\ [InventoryNext]_inventoryVars => (~dangled => AllSized)'
  BY SizedSteps
<1>3. InventoryInv /\ (~dangled => AllSized) => StacksBounded
  BY InvGood DEF AllSized, Sized, Whole, StacksBounded
<1>. QED  BY InventoryInvariance, <1>1, <1>2, <1>3, PTL DEF InventorySpec

(* The bar. *)

\* What a step does to the bars, but for what nobody looks at them for.
BarsKept == \A o \in Owners : Fills(items[o], items'[o]) \/ Gift(o)

\* Fewer slots in use.
LEMMA LighterFills ==
  ASSUME NEW seq, NEW new, Slots(new) <= Slots(seq)
  PROVE  Fills(seq, new)
  BY DEF Fills

\* A hook that leaves owner o with t.
LEMMA EndedFills ==
  ASSUME InventoryInv, NEW o \in Owners, NEW t, NEW f, EndsAs(o, t, f), Fills(items[o], t.items)
  PROVE  BarsKept
<1>1. items' = [items EXCEPT ![o] = t.items] /\ items \in [Owners -> Seq(Stack)]
  BY DEF EndsAs, InventoryInv, InventoryTypeOK
<1>2. ASSUME NEW p \in Owners PROVE Fills(items[p], items'[p])
  <2>1. CASE p = o
    <3>1. items'[p] = t.items
      BY <1>1, <2>1
    <3>. QED  BY <2>1, <3>1
  <2>2. CASE p # o
    <3>1. items'[p] = items[p]
      BY <1>1, <2>2
    <3>2. Slots(items[p]) <= Slots(items[p])
      BY InvGood, SlotsTyped
    <3>. QED  BY <3>1, <3>2, LighterFills
  <2>. QED  BY <2>1, <2>2
<1>. QED  BY <1>2 DEF BarsKept

\* A gift to o leaves the bars of the others as they were.
LEMMA GiftFills ==
  ASSUME InventoryInv, NEW o \in Owners, Gift(o), NEW t, NEW f, EndsAs(o, t, f)
  PROVE  BarsKept
<1>1. items' = [items EXCEPT ![o] = t.items] /\ items \in [Owners -> Seq(Stack)]
  BY DEF EndsAs, InventoryInv, InventoryTypeOK
<1>2. ASSUME NEW p \in Owners PROVE Fills(items[p], items'[p]) \/ Gift(p)
  <2>1. CASE p = o
    BY <2>1
  <2>2. CASE p # o
    <3>1. items'[p] = items[p]
      BY <1>1, <2>2
    <3>2. Slots(items[p]) <= Slots(items[p])
      BY InvGood, SlotsTyped
    <3>. QED  BY <3>1, <3>2, LighterFills
  <2>. QED  BY <2>1, <2>2
<1>. QED  BY <1>2 DEF BarsKept

\* The inventories do not change.
LEMMA SameBars ==
  ASSUME InventoryInv, items' = items
  PROVE  BarsKept
<1>1. ASSUME NEW o \in Owners PROVE Slots(items'[o]) <= Slots(items[o])
  BY InvGood, SlotsTyped
<1>. QED  BY <1>1, LighterFills DEF BarsKept

\* A pickup is taken.
LEMMA PickUpKeepsBars ==
  ASSUME InventoryInv, OnePlaceEach, NEW o \in Owners, NEW i \in DOMAIN ground,
         NEW seen \in Counts(ground[i].def), PickUp(o, i, seen)
  PROVE  BarsKept
<1>. DEFINE p == ground[i]
            g == Seqs!RemoveAt(ground, i)
            s == [State(o) EXCEPT !.ground = g]
            t == PickedUp(s, p.def, p.count, seen)
<1>1. /\ Good(State(o)) /\ State(o) \in States /\ State(o).ground = ground /\ ground \in Seq(Pickups)
      /\ State(o).items = items[o] /\ p.def \in Defs /\ p.count \in Nat
      /\ i \in 1 .. Len(ground) /\ seen \in 0 .. MaxStack[p.def]
  <2>1. /\ Good(State(o)) /\ State(o) \in States /\ State(o).ground = ground /\ ground \in Seq(Pickups)
        /\ State(o).items = items[o]
    BY InvGood DEF Good
  <2>2. p \in Pickups /\ i \in 1 .. Len(ground)
    BY <2>1
  <2>. QED  BY <2>1, <2>2 DEF Pickups, Counts
<1>2. EndsAs(o, t, NoFlow)
  <2>1. s = [State(o) EXCEPT !.ground = Seqs!RemoveAt(@, i)]
    BY <1>1
  <2>. HIDE DEF s
  <2>. QED  BY <2>1 DEF PickUp
<1>3. g \in Seq(Pickups)
  BY <1>1, Removal
<1>. HIDE DEF g
<1>4. /\ s \in States /\ s.items = State(o).items /\ s.hand = State(o).hand /\ s.room = State(o).room
  <2>. DEFINE r == State(o)
  <2>1. r \in States
    BY <1>1
  <2>. HIDE DEF r
  <2>2. LET q == [r EXCEPT !.ground = g]
        IN /\ q \in States /\ q.items = r.items /\ q.hand = r.hand /\ q.room = r.room
    BY <1>3, <2>1 DEF States
  <2>. QED  BY <2>2 DEF r
<1>. HIDE DEF s
<1>5. Good(s)
  BY <1>1, <1>4 DEF Good
<1>6. Fills(s.items, t.items)
  <2>. HIDE DEF p
  <2>. QED  BY <1>1, <1>5, PickUpFills
<1>. HIDE DEF t
<1>7. Fills(items[o], t.items)
  BY <1>1, <1>4, <1>6
<1>. QED  BY <1>2, <1>7, EndedFills

\* A stack is left with less, or goes.
LEMMA LeftKeepsBars ==
  ASSUME InventoryInv, NEW o \in Owners, NEW k \in DOMAIN items[o], NEW n \in Int, NEW f,
         EndsAs(o, Left(State(o), k, n), f) \/ EndsAs(o, Take(State(o), k), f)
  PROVE  BarsKept
<1>1. Good(State(o)) /\ State(o).items = items[o] /\ k \in DOMAIN State(o).items
  BY InvGood
<1>2. /\ Slots(Left(State(o), k, n).items) <= Slots(items[o])
      /\ Slots(Take(State(o), k).items) <= Slots(items[o])
  BY <1>1, LeftWeighs
<1>. QED  BY <1>2, LighterFills, EndedFills

\* A stack is set.
LEMMA SetKeepsBars ==
  ASSUME InventoryInv, NEW o \in Owners, NEW k \in DOMAIN items[o], NEW n \in Nat, NEW f,
         EndsAs(o, Set(State(o), k, n), f)
  PROVE  BarsKept
<1>1. Good(State(o)) /\ State(o).items = items[o] /\ k \in DOMAIN State(o).items
  BY InvGood
<1>2. Slots(Set(State(o), k, n).items) <= Slots(items[o])
  BY <1>1, SetWeighs, WeightsTyped, BarTyped DEF Slots
<1>. QED  BY <1>2, LighterFills, EndedFills

\* What is given does not go to the bar.
LEMMA GiveKeepsBars ==
  ASSUME InventoryInv, NEW o \in Owners, NEW s, Good(s), Slots(s.items) <= Slots(items[o]),
         NEW d \in Defs \ Primary, NEW n \in Nat, NEW f, EndsAs(o, Give(s, d, n), f)
  PROVE  BarsKept
<1>1. Slots(Give(s, d, n).items) <= Slots(items[o])
  <2>1. SlotsOf[d] = 0 /\ SlotsOf \in [Defs -> Int] /\ Weigh(SlotsOf, s.items) \in Int
    BY WeightsTyped, BarTyped
  <2>. QED  BY <2>1, GivenWeighs DEF Slots
<1>. QED  BY <1>1, LighterFills, EndedFills

\* A drop.
LEMMA DropStackKeepsBars ==
  ASSUME InventoryInv, NEW o \in Owners, NEW k \in DOMAIN items[o], NEW n, DropStack(o, k, n)
  PROVE  BarsKept
<1>. DEFINE s == State(o)
            e == items[o][k]
            gone == IF n < 0 THEN e.inst + 1 ELSE n
            rest == IF n < 0 THEN 0 ELSE e.inst - n
            u == Spawn(s, e.def, gone)
            t == Left(u, k, rest)
<1>1. Good(s) /\ s.items = items[o] /\ k \in DOMAIN s.items /\ s.items[k] = e
  BY InvGood
<1>. HIDE DEF s
<1>2. e.def \in Defs /\ e.inst \in Nat
  BY <1>1, StackFound
<1>3. n \in -1 .. e.inst + 1 /\ EndsAs(o, t, NoFlow)
  BY DEF DropStack, s
<1>4. gone \in Nat /\ rest \in Int
  <2>. HIDE DEF e
  <2>. QED  BY <1>2, <1>3
<1>. HIDE DEF gone, rest
<1>5. Good(u) /\ u.items = items[o]
  <2>. HIDE DEF e
  <2>. QED  BY <1>1, <1>2, <1>4, Spawned
<1>. HIDE DEF u, e
<1>6. Slots(t.items) <= Slots(items[o])
  BY <1>4, <1>5, LeftWeighs
<1>. HIDE DEF t
<1>. QED  BY <1>3, <1>6, LighterFills, EndedFills

\* The three ways to remove items.
LEMMA RemovalsKeepBars ==
  ASSUME InventoryInv, NEW o \in Owners, NEW k \in DOMAIN items[o], NEW n \in Int, NEW force,
         NEW persist,
         \/ RemoveInventoryItem(o, k, n, force) \/ RemoveItem(o, k, n, force, persist)
         \/ K2_RemoveItemFromPlayer(o, k, n)
  PROVE  BarsKept
<1>1. items[o][k].count \in Nat /\ items[o][k].inst \in Nat /\ State(o).items = items[o]
  BY InvGood, StackFound
<1>2. CASE RemoveInventoryItem(o, k, n, force)
  <2>. DEFINE rest == items[o][k].inst - (IF n < 0 THEN 0 ELSE n)
  <2>1. n \in -1 .. items[o][k].inst
    BY <1>2 DEF RemoveInventoryItem
  <2>2. rest \in Nat
    BY <1>1, <2>1
  <2>3. (\E f : EndsAs(o, Take(State(o), k), f)) \/ (\E f : EndsAs(o, Set(State(o), k, rest), f))
    BY <1>2 DEF RemoveInventoryItem
  <2>. HIDE DEF rest
  <2>. QED  BY <2>2, <2>3, LeftKeepsBars, SetKeepsBars
<1>3. CASE RemoveItem(o, k, n, force, persist)
  <2>1. n \in -1 .. items[o][k].inst
    BY <1>3 DEF RemoveItem
  <2>2. items[o][k].inst - n \in Nat
    BY <1>1, <2>1
  <2>3. \/ \E f : EndsAs(o, Take(State(o), k), f)
        \/ \E f : EndsAs(o, Set(State(o), k, items[o][k].inst - n), f)
    BY <1>3 DEF RemoveItem
  <2>. QED  BY <2>2, <2>3, LeftKeepsBars, SetKeepsBars
<1>4. CASE K2_RemoveItemFromPlayer(o, k, n)
  <2>. DEFINE rest == IF n < 0 THEN 0 ELSE items[o][k].count - n
  <2>1. rest \in Int /\ \E f : EndsAs(o, Left(State(o), k, rest), f)
    BY <1>1, <1>4 DEF K2_RemoveItemFromPlayer
  <2>. HIDE DEF rest
  <2>. QED  BY <2>1, LeftKeepsBars
<1>. QED  BY <1>2, <1>3, <1>4

\* Resources do not go to the bar.
LEMMA HarvestKeepsBars ==
  ASSUME InventoryInv, NEW o \in Owners, NEW d \in Materials, NEW n \in Nat, Harvest(o, d, n)
  PROVE  BarsKept
<1>. DEFINE s == State(o)
            k == First(Of(s, d))
            u == Spawn(s, d, n - MaxStack[d])
<1>1. /\ Good(s) /\ s.items = items[o] /\ d \in Defs \ Primary /\ MaxStack[d] \in Nat
      /\ Slots(s.items) <= Slots(items[o])
  BY InvGood, ResourcesTyped, StackIsMore, SlotsTyped
<1>2. (CASE k # 0 -> EndsAs(o, Harvested(s, k, d, n), Flow(d, n))
         [] k = 0 /\ n > MaxStack[d] -> EndsAs(o, Give(u, d, MaxStack[d]), Flow(d, n))
         [] OTHER -> EndsAs(o, Give(s, d, n), Flow(d, n)))
  BY DEF Harvest
<1>. HIDE DEF s
<1>3. k # 0 => k \in DOMAIN s.items /\ s.items[k].def = d /\ s.items[k].count \in Nat
  BY <1>1, FirstIsLeast, OfIsPlaces, StackFound
<1>. HIDE DEF k
<1>4. CASE k # 0
  <2>. DEFINE sum == s.items[k].count + n
              v == Spawn(s, d, sum - MaxStack[d])
              t == Harvested(s, k, d, n)
  <2>1. EndsAs(o, t, Flow(d, n)) /\ sum \in Nat
    BY <1>2, <1>3, <1>4
  <2>2. CASE sum > MaxStack[d]
    <3>1. t = Set(v, k, MaxStack[d]) /\ sum - MaxStack[d] \in Nat
      BY <1>1, <2>1, <2>2 DEF Harvested
    <3>2. Good(v) /\ v.items = s.items
      <4>. HIDE DEF sum
      <4>. QED  BY <1>1, <3>1, Spawned
    <3>. HIDE DEF v
    <3>3. Weigh(SlotsOf, Set(v, k, MaxStack[d]).items) = Weigh(SlotsOf, v.items)
      BY <1>1, <1>3, <1>4, <3>2, SetWeighs, WeightsTyped
    <3>. HIDE DEF t
    <3>4. Slots(t.items) <= Slots(items[o])
      BY <1>1, <3>1, <3>2, <3>3 DEF Slots
    <3>. QED  BY <2>1, <3>4, LighterFills, EndedFills
  <2>3. CASE ~(sum > MaxStack[d])
    <3>1. t = Set(s, k, sum)
      BY <2>3 DEF Harvested
    <3>. HIDE DEF sum
    <3>2. Weigh(SlotsOf, Set(s, k, sum).items) = Weigh(SlotsOf, s.items)
      BY <1>1, <1>3, <1>4, <2>1, SetWeighs, WeightsTyped
    <3>. HIDE DEF t
    <3>3. Slots(t.items) <= Slots(items[o])
      BY <1>1, <3>1, <3>2 DEF Slots
    <3>. QED  BY <2>1, <3>3, LighterFills, EndedFills
  <2>. QED  BY <2>2, <2>3
<1>5. CASE k = 0 /\ n > MaxStack[d]
  <2>1. EndsAs(o, Give(u, d, MaxStack[d]), Flow(d, n))
    BY <1>2, <1>5
  <2>2. n - MaxStack[d] \in Nat
    BY <1>1, <1>5
  <2>3. Good(u) /\ u.items = s.items
    BY <1>1, <2>2, Spawned
  <2>. HIDE DEF u
  <2>. QED  BY <1>1, <2>1, <2>3, GiveKeepsBars
<1>6. CASE k = 0 /\ ~(n > MaxStack[d])
  <2>1. EndsAs(o, Give(s, d, n), Flow(d, n))
    BY <1>2, <1>6
  <2>. QED  BY <1>1, <2>1, GiveKeepsBars
<1>. QED  BY <1>4, <1>5, <1>6

\* A trap is used.
LEMMA PlaceTrapKeepsBars ==
  ASSUME InventoryInv, NEW o \in Owners, NEW d \in Defs, PlaceTrap(o, d)
  PROVE  BarsKept
<1>. DEFINE k == First(Of(State(o), d))
            n == State(o).items[k].count - 1
<1>1. k # 0 /\ \E f : EndsAs(o, Left(State(o), k, n), f)
  BY DEF PlaceTrap
<1>2. Good(State(o)) /\ State(o).items = items[o] /\ k \in DOMAIN items[o]
  BY <1>1, InvGood, FirstIsLeast, OfIsPlaces
<1>. HIDE DEF k
<1>3. n \in Int
  <2>1. State(o).items[k].count \in Nat
    BY <1>2, StackFound
  <2>. QED  BY <2>1
<1>. HIDE DEF n
<1>. QED  BY <1>1, <1>2, <1>3, LeftKeepsBars

\* The upgraded weapon takes the place of the one in hand.
LEMMA UpgradeKeepsBars ==
  ASSUME InventoryInv, OnePlaceEach, NEW o \in Owners, NEW d \in Defs, Upgrade(o, d)
  PROVE  BarsKept
<1>. DEFINE s == State(o)
            k == hand[o].at
            e == s.items[k]
            u == Take(s, k)
            v == Paid(u)
            t == Give(v, d, 1)
<1>1. Good(s) /\ s.items = items[o] /\ s.hand = hand[o]
  BY InvGood
<1>2. /\ hand[o] # Unarmed /\ k # 0 /\ e.def \in Primary
      /\ \A r \in Materials : CanPay(s, r)
      /\ \E f : EndsAs(o, t, f)
  BY <1>1 DEF Upgrade
<1>. HIDE DEF s
<1>3. k \in DOMAIN s.items
  BY <1>1, <1>2 DEF Good, States, Hand, HandFits
<1>. HIDE DEF k
<1>4. Good(u) /\ Weigh(SlotsOf, u.items) = Weigh(SlotsOf, s.items) - SlotsOf[e.def]
  BY <1>1, <1>3, Taken, TakenWeighs, WeightsTyped
<1>5. \A r \in Materials : CanPay(u, r)
  <2>. TAKE r \in Materials
  <2>1. e.def # r /\ CanPay(s, r)
    BY <1>2, ResourcesTyped
  <2>. QED  BY <1>1, <1>3, <2>1, FirstStays
<1>6. e.def \in Defs /\ SlotsOf[e.def] = 1 /\ SlotsOf[d] \in {0, 1}
  <2>1. e.def \in Defs
    BY <1>1, <1>3, StackFound
  <2>. QED  BY <1>2, <2>1, WeightsTyped DEF OnePlaceEach
<1>. HIDE DEF u, e
<1>7. Good(v) /\ Slots(v.items) <= Slots(u.items)
  BY <1>4, <1>5, IsPaid DEF Paying
<1>. HIDE DEF v
<1>8. Weigh(SlotsOf, t.items) = Weigh(SlotsOf, v.items) + SlotsOf[d]
  BY <1>7, GivenWeighs, WeightsTyped
<1>9. /\ Weigh(SlotsOf, s.items) \in Int /\ Weigh(SlotsOf, u.items) \in Int
      /\ Weigh(SlotsOf, v.items) \in Int
  BY <1>1, <1>4, <1>7, BarTyped, WeightsTyped
<1>. HIDE DEF t
<1>10. Slots(t.items) <= Slots(items[o])
  BY <1>1, <1>4, <1>6, <1>7, <1>8, <1>9 DEF Slots
<1>. QED  BY <1>2, <1>10, LighterFills, EndedFills

\* An inventory is emptied.
LEMMA EmptiedKeepsBars ==
  ASSUME InventoryInv, NEW o \in Owners, NEW drops, NEW goes, NEW f,
         EndsAs(o, Emptied(State(o), drops, goes), f)
  PROVE  BarsKept
<1>1. Good(State(o)) /\ State(o).items = items[o]
  BY InvGood
<1>2. Slots(Emptied(State(o), drops, goes).items) <= Slots(items[o])
  BY <1>1, IsEmptied DEF Emptying
<1>. QED  BY <1>2, LighterFills, EndedFills

\* Every step keeps every bar, or adds a stack.
LEMMA StepKeepsBars == InventoryInv /\ OnePlaceEach /\ InventoryNext => BarsKept
<1>. SUFFICES ASSUME InventoryInv, OnePlaceEach, InventoryNext PROVE BarsKept
  OBVIOUS
<1>1. ASSUME NEW d \in Defs, NEW n \in Amounts(d), Loot(d, n) PROVE BarsKept
  BY <1>1, SameBars DEF Loot
<1>. SUFFICES ASSUME NEW o \in Owners,
       \/ \E i \in DOMAIN ground : \E seen \in Counts(ground[i].def) : PickUp(o, i, seen)
       \/ \E d \in Defs : \E n \in Amounts(d) : \E seen \in Counts(d) : GiveItemToOwner(o, d, n, seen)
       \/ \E d \in Defs : \E n \in 1 .. MaxStack[d] : GiveDirectly(o, d, n)
       \/ \E k \in DOMAIN items[o] \union {0} : Equip(o, k)
       \/ \E k \in DOMAIN items[o] : \E n \in -1 .. items[o][k].count + 1 :
            \/ DropStack(o, k, n)
            \/ \E force \in BOOLEAN : RemoveInventoryItem(o, k, n, force)
            \/ \E force, persist \in BOOLEAN : RemoveItem(o, k, n, force, persist)
            \/ K2_RemoveItemFromPlayer(o, k, n)
       \/ \E d \in Materials : \E n \in Amounts(d) : Harvest(o, d, n)
       \/ \E d \in Traps : PlaceTrap(o, d)
       \/ \E d \in Upgraded : Upgrade(o, d)
       \/ DropItems(o) \/ DropInventoryItems(o) \/ BoardAircraft(o)
     PROVE BarsKept
  BY <1>1 DEF InventoryNext
<1>2. ASSUME NEW i \in DOMAIN ground, NEW seen \in Counts(ground[i].def), PickUp(o, i, seen)
      PROVE  BarsKept
  BY <1>2, PickUpKeepsBars
<1>3. ASSUME NEW d \in Defs, NEW n \in Amounts(d), NEW seen \in Counts(d), GiveItemToOwner(o, d, n, seen)
      PROVE  BarsKept
  <2>1. EndsAs(o, PickedUp(State(o), d, n, seen), Flow(d, n))
    BY <1>3 DEF GiveItemToOwner
  <2>2. Fills(items[o], PickedUp(State(o), d, n, seen).items)
    <3>1. n \in Nat /\ seen \in 0 .. MaxStack[d]
      BY AmountsTyped DEF Counts
    <3>. QED  BY <3>1, InvGood, PickUpFills
  <2>. QED  BY <2>1, <2>2, EndedFills
<1>4. ASSUME NEW d \in Defs, NEW n \in 1 .. MaxStack[d], GiveDirectly(o, d, n) PROVE BarsKept
  <2>1. Slots(State(o).items) <= Slots(items[o]) /\ Good(State(o)) /\ n \in Nat
    BY InvGood, SlotsTyped, StackIsMore
  <2>2. EndsAs(o, Give(State(o), d, n), Flow(d, n))
    BY <1>4 DEF GiveDirectly
  <2>3. CASE d \in Primary
    <3>1. Gift(o)
      BY <1>4, <2>3 DEF Gift
    <3>. QED  BY <2>2, <3>1, GiftFills
  <2>4. CASE d \notin Primary
    <3>1. d \in Defs \ Primary
      BY <2>4
    <3>. QED  BY <2>1, <2>2, <3>1, GiveKeepsBars
  <2>. QED  BY <2>3, <2>4
<1>5. ASSUME NEW k \in DOMAIN items[o] \union {0}, Equip(o, k) PROVE BarsKept
  BY <1>5, SameBars DEF Equip
<1>6. ASSUME NEW k \in DOMAIN items[o], NEW n \in -1 .. items[o][k].count + 1,
        \/ DropStack(o, k, n)
        \/ \E force \in BOOLEAN : RemoveInventoryItem(o, k, n, force)
        \/ \E force, persist \in BOOLEAN : RemoveItem(o, k, n, force, persist)
        \/ K2_RemoveItemFromPlayer(o, k, n)
      PROVE  BarsKept
  <2>1. n \in Int
    OBVIOUS
  <2>. QED  BY <1>6, <2>1, DropStackKeepsBars, RemovalsKeepBars
<1>7. ASSUME NEW d \in Materials, NEW n \in Amounts(d), Harvest(o, d, n) PROVE BarsKept
  BY <1>7, AmountsTyped, ResourcesTyped, HarvestKeepsBars
<1>8. ASSUME NEW d \in Traps, PlaceTrap(o, d) PROVE BarsKept
  BY <1>8, SetsTyped, PlaceTrapKeepsBars
<1>9. ASSUME NEW d \in Upgraded, Upgrade(o, d) PROVE BarsKept
  BY <1>9, SetsTyped, UpgradeKeepsBars
<1>10. DropItems(o) \/ DropInventoryItems(o) \/ BoardAircraft(o) => BarsKept
  BY EmptiedKeepsBars DEF DropItems, DropInventoryItems, BoardAircraft
<1>. QED  BY <1>2, <1>3, <1>4, <1>5, <1>6, <1>7, <1>8, <1>9, <1>10

\* If each item of the bar takes one place of it and may be swapped, what takes an
\* inventory beyond its bar is a stack that spilled (Pickups.cpp:120) or what was
\* given without a look at the bar (Inventory.cpp:7).
THEOREM SpillsAndGiftsOverflowTheBar ==
  ASSUME OnePlaceEach
  PROVE  InventorySpec => BarOverflowsBySpillOrGift
<1>. DEFINE A == \A o \in Owners : Used(o)' > QuickbarSize /\ Used(o)' > Used(o) =>
                     Stacked(o)' > Stacked(o) \/ Gift(o)
<1>1. InventoryInv /\ InventoryInv' /\ [InventoryNext]_inventoryVars => [A]_inventoryVars
  <2>. SUFFICES ASSUME InventoryInv, InventoryInv', InventoryNext PROVE A
    OBVIOUS
  <2>1. BarsKept
    BY StepKeepsBars
  <2>2. \A o \in Owners : /\ Used(o) \in Int /\ Used(o) = Slots(items[o])
                          /\ Used(o)' = Slots(items'[o])
                          /\ Stacked(o) = Weigh(StacksOf, items[o])
                          /\ Stacked(o)' = Weigh(StacksOf, items'[o])
    BY InvGood, SlotsTyped DEF Used, Stacked
  <2>3. \A o \in Owners : Slots(items'[o]) \in Int
    <3>. TAKE o \in Owners
    <3>1. items'[o] \in Seq(Stack)
      BY DEF InventoryInv, InventoryTypeOK
    <3>. QED  BY <3>1, WeightsTyped, WeighTyped DEF Slots
  <2>4. QuickbarSize \in Nat
    BY BoundsAssumption
  <2>. QED  BY <2>1, <2>2, <2>3, <2>4 DEF BarsKept, Fills
<1>2. InventorySpec => [][A]_inventoryVars
  BY InventoryInvariance, <1>1, PTL DEF InventorySpec
<1>. QED  BY <1>2 DEF BarOverflowsBySpillOrGift
-----------------------------------------------------------------------------
(* The records of the season, athena and common_core. *)

(* The data of a request. *)
LEMMA RequestType ==
  ASSUME NEW q \in Request
  PROVE  /\ q.kind \in Kinds \union {None} /\ q.step \in ProgressSteps
         /\ q.season \in Season /\ q.athena \in Athena /\ q.common \in CommonCore
         /\ q.season.level \in Nat /\ q.season.xp \in Nat /\ q.season.due \in Nat
         /\ q.season.bought \in Nat /\ q.season.earned \in Nat /\ q.season.allXpGained \in Nat
         /\ q.athena.battlestars \in Nat /\ q.athena.spent \in Nat /\ q.athena.sold \in Nat
         /\ q.common.mtx \in Nat /\ q.common.earned \in Nat /\ q.common.paid \in Nat
         /\ q.common.given \in Nat
BY DEF Request, Season, Athena, CommonCore

LEMMA PlanType ==
  ASSUME NEW q, q.kind \in Kinds, q.plan \in PlansOf[q.kind]
  PROVE  /\ q.kind = "results" => q.plan \in Game /\ q.plan.xp \in Nat /\ q.plan.kills \in Nat /\ Pays(q.plan) \in Nat
         /\ q.kind = "purchase" => q.plan \in Offer /\ q.plan.price \in Nat /\ q.plan.levels \in Nat
         /\ q.kind = "exchange" => q.plan \in Exchange /\ q.plan.cost \in Nat /\ q.plan.mtx \in Nat
<1>1. CASE q.kind = "results"
  <2>1. q.plan \in Game
    BY <1>1, ProgressAssumption DEF PlansOf
  <2>2. q.plan.xp \in Nat /\ q.plan.kills \in Nat
    BY <2>1 DEF Game
  <2>3. Pays(q.plan) \in Nat
    BY <2>2 DEF Pays, KillPays, WinPays
  <2>. QED  BY <1>1, <2>1, <2>2, <2>3
<1>2. CASE q.kind = "purchase"
  BY <1>2, ProgressAssumption DEF PlansOf, Offer
<1>3. CASE q.kind = "exchange"
  BY <1>3, ProgressAssumption DEF PlansOf, Exchange
<1>. QED  BY <1>1, <1>2, <1>3 DEF Kinds

LEMMA IdleRequest ==
  ASSUME NEW at \in {"new", "done"}
  PROVE  /\ At(at) \in Request /\ Planned(At(at))
         /\ At(at).step = at /\ At(at).kind = None
         /\ At(at).season = Blank /\ At(at).athena = NoStars /\ At(at).common = NoMtx
<1>1. Blank \in Season /\ NoStars \in Athena /\ NoMtx \in CommonCore
  BY DEF Blank, Season, NoStars, Athena, NoMtx, CommonCore
<1>. QED  BY <1>1 DEF At, Request, Planned, ProgressSteps

(* An idle request has nothing to save. *)
LEMMA NothingOut ==
  ASSUME NEW q, q.step \in {"new", "done"}
  PROVE  Copies(q) /\ LevelsOut(q) = 0 /\ MtxOut(q) = 0 /\ PayOut(q) = 0 /\ StarsOut(q) = 0
BY DEF Copies, LevelsOut, MtxOut, PayOut, StarsOut, Is

LEMMA Working ==
  ASSUME ProgressInv, NEW r \in Running
  PROVE  /\ r \in Requests /\ request[r] \in Request /\ Planned(request[r])
         /\ request[r].kind \in Kinds /\ request[r].plan \in PlansOf[request[r].kind]
         /\ request[r].step \in StepsOf[request[r].kind]
         /\ mishaps \subseteq Kinds => Copies(request[r]) /\ Books(request[r])
<1>1. r \in Requests /\ request[r].step \notin {"new", "done"}
  BY DEF Running
<1>2. request[r] \in Request /\ Planned(request[r])
  BY <1>1 DEF ProgressInv, ProgressTypeOK
<1>3. request[r] # At("new") /\ request[r] # At("done")
  BY <1>1, IdleRequest
<1>4. mishaps \subseteq Kinds => Copies(request[r]) /\ Books(request[r])
  BY DEF ProgressInv, AtWork
<1>. QED  BY <1>1, <1>2, <1>3, <1>4 DEF Planned

(* Any step of a request, or its end. *)
LEMMA StepKeeps ==
  ASSUME ProgressInv, NEW r \in Running, NEW q \in Request, Planned(q),
         q.step \notin {"new"}, Goes(r, q),
         season' \in Season, athena' \in Athena, common' \in CommonCore,
         mishaps' \in {mishaps} \union {mishaps \union {what} : what \in Kinds \union {"unread", "unsaved"}},
         mishaps' \subseteq Kinds => Copies(q)' /\ Books(q)'
  PROVE  ProgressInv'
<1>. USE Working
<1>1. request' = [request EXCEPT ![r] = q] /\ r \in Requests
  BY DEF Goes
<1>2. request' \in [Requests -> Request] /\ request'[r] = q
      /\ \A other \in Requests \ {r} : request'[other] = request[other]
  BY <1>1 DEF ProgressInv, ProgressTypeOK
<1>3. ProgressTypeOK'
  BY <1>2 DEF ProgressTypeOK, ProgressInv
<1>4. (\A other \in Requests : Planned(request[other]))'
  BY <1>2 DEF ProgressInv, Planned
<1>5. Running' = IF q.step = "done" THEN Running \ {r} ELSE Running
  BY <1>2 DEF Running
<1>6. ASSUME mishaps' \subseteq Kinds
      PROVE  (/\ \A other, another \in Running : other = another
              /\ \A p \in AtWork : Copies(p) /\ Books(p))'
  <2>1. mishaps \subseteq Kinds
    BY <1>6
  <2>2. Running = {r}
    BY <2>1 DEF ProgressInv
  <2>3. Running' = IF q.step = "done" THEN {} ELSE {r}
    BY <2>2, <1>5
  <2>4. Copies(q)' /\ Books(q)'
    BY <1>6
  <2>5. CASE q.step = "done"
    <3>1. q = At("done")
      BY <2>5, IdleRequest DEF Planned, StepsOf, Kinds
    <3>2. AtWork' = {q}
      BY <2>3, <2>5, <3>1 DEF AtWork
    <3>. QED  BY <2>3, <2>5, <3>2, <2>4
  <2>6. CASE q.step # "done"
    <3>1. AtWork' = {q}
      BY <2>3, <2>6, <1>2 DEF AtWork
    <3>. QED  BY <2>3, <2>6, <3>1, <2>4
  <2>. QED  BY <2>5, <2>6
<1>. QED  BY <1>3, <1>4, <1>6 DEF ProgressInv
(* The records as they are stored. *)
LEMMA RecordType ==
  ASSUME ProgressInv
  PROVE  /\ season \in Season /\ athena \in Athena /\ common \in CommonCore
         /\ season.level \in Nat /\ season.xp \in Nat /\ season.due \in Nat
         /\ season.bought \in Nat /\ season.earned \in Nat /\ season.allXpGained \in Nat
         /\ season.purchasedVip \in BOOLEAN
         /\ athena.battlestars \in Nat /\ athena.spent \in Nat /\ athena.sold \in Nat
         /\ common.mtx \in Nat /\ common.earned \in Nat /\ common.paid \in Nat /\ common.given \in Nat
<1>1. season \in Season /\ athena \in Athena /\ common \in CommonCore
  BY DEF ProgressInv, ProgressTypeOK
<1>. QED  BY <1>1 DEF Season, Athena, CommonCore

(* A request that breaks off leaves the books as the order of the saves promises. *)
LEMMA BrokenOff ==
  ASSUME ProgressInv, NEW r \in Running, mishaps \subseteq Kinds,
         UNCHANGED <<season, athena, common>>,
         mishaps' = mishaps \union {request[r].kind},
         NEW q, q.step = "done"
  PROVE  Books(q)'
<1>. DEFINE p == request[r]
<1>1. /\ p \in Request /\ p.kind \in Kinds /\ p.plan \in PlansOf[p.kind]
      /\ Copies(p) /\ Books(p)
  BY Working
<1>2. /\ p.season.due \in Nat /\ season.due \in Nat
      /\ p.kind = "results" => Pays(p.plan) \in Nat
      /\ p.kind = "purchase" => p.plan.levels \in Nat
      /\ p.kind = "exchange" => p.plan.mtx \in Nat
  BY <1>1, RequestType, PlanType, RecordType
<1>3. LevelsOut(p) \in Nat /\ MtxOut(p) \in Nat /\ PayOut(p) \in Nat
  BY <1>2 DEF LevelsOut, MtxOut, PayOut, Is
<1>4. p.kind \in {"results", "exchange"} => StarsOut(p) \in Nat
  BY <1>1, <1>2 DEF StarsOut, Copies, Is, StarsDue
<1>5. Copies(q)' /\ LevelsOut(q)' = 0 /\ MtxOut(q)' = 0 /\ PayOut(q)' = 0 /\ StarsOut(q)' = 0
  BY DEF Copies, LevelsOut, MtxOut, PayOut, StarsOut, Is
<1>6. /\ (season.bought >= common.paid)' /\ (common.given >= athena.sold)'
      /\ (common.earned >= season.earned)'
  BY <1>1, <1>3, RecordType DEF Books
<1>7. (mishaps \subseteq {"results", "exchange"} =>
         athena.battlestars + athena.spent >= season.due)'
  <2>1. SUFFICES ASSUME mishaps' \subseteq {"results", "exchange"}
                 PROVE  athena.battlestars + athena.spent >= season.due
    OBVIOUS
  <2>2. mishaps \subseteq {"results", "exchange"} /\ p.kind \in {"results", "exchange"}
    BY <2>1
  <2>3. athena.battlestars + athena.spent >= season.due + StarsOut(p)
    BY <1>1, <2>2 DEF Books
  <2>. QED  BY <2>2, <2>3, <1>4, RecordType
<1>8. mishaps' # {}
  OBVIOUS
<1>9. /\ (common.paid + 0 = common.paid)' /\ (athena.sold + 0 = athena.sold)'
      /\ (season.earned + 0 = season.earned)' /\ (season.due + 0 = season.due)'
  BY RecordType
<1>. QED  BY <1>5, <1>6, <1>7, <1>8, <1>9 DEF Books

(* A read changes nothing that is stored. *)
LEMMA ReadKeeps ==
  ASSUME ProgressInv, NEW r \in Running, NEW q \in Request, Planned(q),
         q.step # "new", Goes(r, q), UNCHANGED <<season, athena, common, mishaps>>,
         LevelsOut(request[r]) = LevelsOut(q), MtxOut(request[r]) = MtxOut(q),
         PayOut(request[r]) = PayOut(q), StarsOut(request[r]) = StarsOut(q),
         mishaps \subseteq Kinds => Copies(q)
  PROVE  ProgressInv'
<1>1. mishaps \subseteq Kinds => Books(request[r])
  BY Working
<1>2. mishaps \subseteq Kinds => Books(q)
  BY <1>1 DEF Books
<1>3. /\ season' = season /\ athena' = athena /\ common' = common /\ mishaps' = mishaps
  OBVIOUS
<1>4. mishaps' \subseteq Kinds => Copies(q)'
  BY <1>3 DEF Copies, StarsDue, MoreStars, MoreSold, MoreMtx, MoreSeason
<1>5. mishaps' \subseteq Kinds => Books(q)'
  BY <1>2, <1>3 DEF Books, LevelsOut, MtxOut, PayOut, StarsOut, StarsDue
<1>6. season' \in Season /\ athena' \in Athena /\ common' \in CommonCore
  BY <1>3, RecordType
<1>. QED  BY <1>3, <1>4, <1>5, <1>6, StepKeeps

(* So does an end of a request that has nothing out. *)
LEMMA EndKeeps ==
  ASSUME ProgressInv, NEW r \in Running, Ends(r), UNCHANGED <<season, athena, common, mishaps>>,
         LevelsOut(request[r]) = 0, MtxOut(request[r]) = 0,
         PayOut(request[r]) = 0, StarsOut(request[r]) = 0
  PROVE  ProgressInv'
<1>1. Goes(r, At("done"))
  BY DEF Ends
<1>. QED  BY <1>1, IdleRequest, NothingOut, ReadKeeps

LEMMA BeginKeeps ==
  ASSUME ProgressInv, NEW r \in Requests, NEW kind \in Kinds, NEW plan \in PlansOf[kind],
         NEW at \in {"athena", "common"}, kind = "purchase" <=> at = "common",
         Begin(r, kind, plan, at)
  PROVE  ProgressInv'
<1>. DEFINE q == [At(at) EXCEPT !.kind = kind, !.plan = plan]
<1>1. At(at) \in Request /\ At(at).step = at
  <2>1. Blank \in Season /\ NoStars \in Athena /\ NoMtx \in CommonCore
    BY DEF Blank, Season, NoStars, Athena, NoMtx, CommonCore
  <2>. QED  BY <2>1 DEF At, Request, ProgressSteps
<1>2. q.kind = kind /\ q.plan = plan /\ q.step = at
  BY <1>1 DEF Request
<1>3. plan \in Game \union Offer \union Exchange
  BY ProgressAssumption DEF PlansOf, Kinds
<1>4. q \in Request
  BY <1>1, <1>3 DEF Request
<1>5. Planned(q)
  BY <1>2 DEF Planned, StepsOf, Kinds
<1>6. /\ request[r].step = "new" /\ request' = [request EXCEPT ![r] = q]
      /\ season' = season /\ athena' = athena /\ common' = common
      /\ mishaps' = IF Running = {} THEN mishaps ELSE mishaps \union {"overlap"}
  BY DEF Begin, Goes
<1>7. request' \in [Requests -> Request] /\ request'[r] = q
      /\ \A other \in Requests \ {r} : request'[other] = request[other]
  BY <1>4, <1>6 DEF ProgressInv, ProgressTypeOK
<1>8. ProgressTypeOK'
  BY <1>6, <1>7 DEF ProgressInv, ProgressTypeOK
<1>9. (\A other \in Requests : Planned(request[other]))'
  BY <1>5, <1>7 DEF ProgressInv, Planned
<1>10. ASSUME mishaps' \subseteq Kinds
       PROVE  (/\ \A other, another \in Running : other = another
               /\ \A p \in AtWork : Copies(p) /\ Books(p))'
  <2>1. Running = {} /\ mishaps' = mishaps
    BY <1>6, <1>10 DEF Kinds
  <2>2. Running' = {r}
    BY <2>1, <1>2, <1>7 DEF Running
  <2>3. AtWork' = {q}
    BY <2>2, <1>7 DEF AtWork
  <2>4. Books(At("done"))
    BY <2>1, <1>10 DEF ProgressInv, AtWork
  <2>5. LevelsOut(q) = 0 /\ MtxOut(q) = 0 /\ PayOut(q) = 0 /\ StarsOut(q) = 0
    BY <1>2 DEF LevelsOut, MtxOut, PayOut, StarsOut, Is
  <2>6. Books(q)
    BY <2>4, <2>5, IdleRequest, NothingOut DEF Books
  <2>7. StarsOut(q)' = 0
    BY <1>2 DEF StarsOut, Is
  <2>8. Books(q)'
    BY <2>1, <2>5, <2>6, <2>7, <1>6 DEF Books, LevelsOut, MtxOut, PayOut
  <2>9. Copies(q)'
    BY <1>2 DEF Copies, Is
  <2>. QED  BY <2>2, <2>3, <2>8, <2>9
<1>. QED  BY <1>8, <1>9, <1>10 DEF ProgressInv

(* What is paid and what is bought, in the copies of a purchase. *)
LEMMA BoughtType ==
  ASSUME NEW q \in Request, q.kind = "purchase", q.plan \in PlansOf[q.kind],
         q.common.mtx >= q.plan.price
  PROVE  /\ Bought(q) \in Request /\ Bought(q).kind = q.kind /\ Bought(q).plan = q.plan
         /\ Bought(q).season = q.season
         /\ Bought(q).step = IF q.plan.pass THEN "pass" ELSE "levels"
         /\ Bought(q).common.paid = q.common.paid + q.plan.levels
         /\ Bought(q).common.earned = q.common.earned
         /\ Bought(q).common.given = q.common.given
         /\ Bought(q).athena.battlestars = q.athena.battlestars + Stars * q.plan.levels
         /\ Bought(q).athena.spent = q.athena.spent /\ Bought(q).athena.sold = q.athena.sold
<1>. DEFINE c == [q.common EXCEPT !.mtx = @ - q.plan.price, !.paid = @ + q.plan.levels]
            a == [q.athena EXCEPT !.battlestars = @ + Stars * q.plan.levels]
            to == IF q.plan.pass THEN "pass" ELSE "levels"
<1>1. q.plan.price \in Nat /\ q.plan.levels \in Nat /\ q.common.mtx \in Nat
      /\ q.common \in CommonCore /\ q.athena \in Athena
  BY PlanType, RequestType DEF Kinds
<1>2. c \in CommonCore /\ c.paid = q.common.paid + q.plan.levels
      /\ c.earned = q.common.earned /\ c.given = q.common.given
  <2>1. PICK m \in Nat : m = q.common.mtx - q.plan.price
    BY <1>1
  <2>2. PICK n \in Nat : n = q.common.paid + q.plan.levels
    BY <1>1, RequestType
  <2>3. c = [q.common EXCEPT !.mtx = m, !.paid = n]
    BY <2>1, <2>2
  <2>. QED  BY <1>1, <2>2, <2>3 DEF CommonCore
<1>3. a \in Athena /\ a.battlestars = q.athena.battlestars + Stars * q.plan.levels
      /\ a.spent = q.athena.spent /\ a.sold = q.athena.sold
  <2>1. PICK n \in Nat : n = q.athena.battlestars + Stars * q.plan.levels
    BY <1>1, RequestType DEF Stars
  <2>2. a = [q.athena EXCEPT !.battlestars = n]
    BY <2>1
  <2>. QED  BY <1>1, <2>1, <2>2 DEF Athena
<1>4. Bought(q) = [q EXCEPT !.step = to, !.common = c, !.athena = a]
  BY DEF Bought
<1>5. to \in ProgressSteps
  BY DEF ProgressSteps
<1>. HIDE DEF c, a, to
<1>6. Bought(q) \in Request /\ Bought(q).kind = q.kind /\ Bought(q).plan = q.plan
      /\ Bought(q).season = q.season /\ Bought(q).step = to
      /\ Bought(q).common = c /\ Bought(q).athena = a
  BY <1>2, <1>3, <1>4, <1>5 DEF Request
<1>. QED  BY <1>2, <1>3, <1>6 DEF to

LEMMA ExchangedType ==
  ASSUME NEW q \in Request, q.kind = "exchange", q.plan \in PlansOf[q.kind],
         q.athena.battlestars >= q.plan.cost
  PROVE  /\ Exchanged(q) \in Request /\ Exchanged(q).kind = q.kind /\ Exchanged(q).plan = q.plan
         /\ Exchanged(q).step = IF q.plan.mtx > 0 THEN "mtx" ELSE "saveAthena"
         /\ Exchanged(q).athena.battlestars + Exchanged(q).athena.spent = q.athena.battlestars + q.athena.spent
         /\ Exchanged(q).athena.sold = q.athena.sold + q.plan.mtx
<1>. DEFINE a == [q.athena EXCEPT !.battlestars = @ - q.plan.cost, !.spent = @ + q.plan.cost,
                                  !.sold = @ + q.plan.mtx]
            to == IF q.plan.mtx > 0 THEN "mtx" ELSE "saveAthena"
<1>1. q.plan.cost \in Nat /\ q.plan.mtx \in Nat /\ q.athena \in Athena
      /\ q.athena.battlestars \in Nat /\ q.athena.spent \in Nat
  BY PlanType, RequestType DEF Kinds
<1>2. a \in Athena /\ a.battlestars = q.athena.battlestars - q.plan.cost
      /\ a.spent = q.athena.spent + q.plan.cost /\ a.sold = q.athena.sold + q.plan.mtx
  <2>1. PICK l \in Nat : l = q.athena.battlestars - q.plan.cost
    BY <1>1
  <2>2. PICK m \in Nat : m = q.athena.spent + q.plan.cost
    BY <1>1
  <2>3. PICK n \in Nat : n = q.athena.sold + q.plan.mtx
    BY <1>1, RequestType
  <2>4. a = [q.athena EXCEPT !.battlestars = l, !.spent = m, !.sold = n]
    BY <2>1, <2>2, <2>3
  <2>. QED  BY <1>1, <2>1, <2>2, <2>3, <2>4 DEF Athena
<1>3. Exchanged(q) = [q EXCEPT !.step = to, !.athena = a]
  BY DEF Exchanged
<1>4. to \in ProgressSteps
  BY DEF ProgressSteps
<1>. HIDE DEF a, to
<1>5. Exchanged(q) \in Request /\ Exchanged(q).kind = q.kind /\ Exchanged(q).plan = q.plan
      /\ Exchanged(q).step = to /\ Exchanged(q).athena = a
  BY <1>2, <1>3, <1>4 DEF Request
<1>. QED  BY <1>1, <1>2, <1>5 DEF to

LEMMA ReadAthenaKeeps ==
  ASSUME ProgressInv, NEW r \in Requests, ReadAthena(r)
  PROVE  ProgressInv'
<1>. DEFINE p == request[r]
            q == [p EXCEPT !.athena = athena]
<1>1. r \in Running /\ p.step = "athena"
  BY DEF ReadAthena, Running, ProgressInv, ProgressTypeOK, Request
<1>2. /\ p \in Request /\ p.kind \in Kinds /\ p.plan \in PlansOf[p.kind]
      /\ p.step \in StepsOf[p.kind] /\ (mishaps \subseteq Kinds => Copies(p))
  BY <1>1, Working
<1>3. /\ q \in Request /\ q.kind = p.kind /\ q.plan = p.plan /\ q.step = p.step
      /\ q.athena = athena /\ q.common = p.common /\ q.season = p.season
  BY <1>2, RecordType DEF Request
<1>4. LevelsOut(p) = 0 /\ MtxOut(p) = 0 /\ PayOut(p) = 0 /\ StarsOut(p) = 0
  BY <1>1 DEF LevelsOut, MtxOut, PayOut, StarsOut, Is
<1>5. UNCHANGED <<season, athena, common, mishaps>>
  BY DEF ReadAthena
<1>6. CASE p.kind = "results" /\ Goes(r, [q EXCEPT !.step = "common"])
  <2>. DEFINE t == [q EXCEPT !.step = "common"]
  <2>1. /\ t \in Request /\ t.kind = "results" /\ t.plan = p.plan /\ t.step = "common"
        /\ t.athena = athena
    BY <1>3, <1>6 DEF Request, ProgressSteps
  <2>. HIDE DEF t
  <2>2. Planned(t)
    BY <2>1, <1>2, <1>6 DEF Planned, StepsOf
  <2>3. LevelsOut(t) = 0 /\ MtxOut(t) = 0 /\ PayOut(t) = 0 /\ StarsOut(t) = 0
    BY <2>1 DEF LevelsOut, MtxOut, PayOut, StarsOut, Is
  <2>4. Copies(t)
    BY <2>1, RecordType DEF Copies, Is, MoreStars, MoreSold
  <2>5. Goes(r, t)
    BY <1>6 DEF t
  <2>. QED  BY <1>1, <1>4, <1>5, <2>1, <2>2, <2>3, <2>4, <2>5, ReadKeeps
<1>7. CASE p.kind = "purchase" /\ q.common.mtx >= q.plan.price /\ Goes(r, Bought(q))
  <2>. DEFINE t == Bought(q)
  <2>1. /\ t \in Request /\ t.kind = "purchase" /\ t.plan = p.plan
        /\ t.step \in {"pass", "levels"}
        /\ t.common.paid = p.common.paid + p.plan.levels
        /\ t.common.earned = p.common.earned /\ t.common.given = p.common.given
        /\ t.athena.battlestars = athena.battlestars + Stars * p.plan.levels
        /\ t.athena.spent = athena.spent /\ t.athena.sold = athena.sold
    BY <1>2, <1>3, <1>7, BoughtType
  <2>. HIDE DEF t
  <2>2. Planned(t)
    BY <2>1, <1>2, <1>7 DEF Planned, StepsOf
  <2>3. LevelsOut(t) = 0 /\ MtxOut(t) = 0 /\ PayOut(t) = 0 /\ StarsOut(t) = 0
    BY <2>1 DEF LevelsOut, MtxOut, PayOut, StarsOut, Is
  <2>4. ASSUME mishaps \subseteq Kinds
        PROVE  Copies(t)
    <3>1. MoreMtx(p.common, 0, 0, 0)
      BY <1>1, <1>2, <1>7, <2>4 DEF Copies, Is
    <3>2. p.plan.levels \in Nat
      BY <1>2, <1>7, PlanType
    <3>3. MoreMtx(t.common, 0, t.plan.levels, 0)
      BY <2>1, <3>1, <3>2, RecordType DEF MoreMtx
    <3>4. MoreStars(t.athena, Stars * t.plan.levels) /\ MoreSold(t.athena, 0)
      BY <2>1, <3>2, RecordType DEF MoreStars, MoreSold, Stars
    <3>. QED  BY <2>1, <3>3, <3>4 DEF Copies, Is
  <2>5. Goes(r, t)
    BY <1>7 DEF t
  <2>6. t.step # "new"
    BY <2>1
  <2>. QED  BY <1>1, <1>4, <1>5, <2>1, <2>2, <2>3, <2>4, <2>5, <2>6, ReadKeeps
<1>8. CASE p.kind = "exchange" /\ athena.battlestars >= q.plan.cost /\ Goes(r, Exchanged(q))
  <2>. DEFINE t == Exchanged(q)
  <2>1. /\ t \in Request /\ t.kind = "exchange" /\ t.plan = p.plan
        /\ t.step = IF p.plan.mtx > 0 THEN "mtx" ELSE "saveAthena"
        /\ t.athena.battlestars + t.athena.spent = athena.battlestars + athena.spent
        /\ t.athena.sold = athena.sold + p.plan.mtx
    BY <1>2, <1>3, <1>8, ExchangedType
  <2>2. p.plan.mtx \in Nat
    BY <1>2, <1>8, PlanType
  <2>. HIDE DEF t
  <2>3. Planned(t)
    BY <2>1, <1>2, <1>8 DEF Planned, StepsOf
  <2>4. LevelsOut(t) = 0 /\ MtxOut(t) = 0 /\ PayOut(t) = 0 /\ StarsOut(t) = 0
    BY <2>1, <2>2 DEF LevelsOut, MtxOut, PayOut, StarsOut, Is
  <2>5. Copies(t)
    BY <2>1, <2>2, RecordType DEF Copies, Is, MoreStars, MoreSold
  <2>6. Goes(r, t)
    BY <1>8 DEF t
  <2>7. t.step # "new"
    BY <2>1
  <2>. QED  BY <1>1, <1>4, <1>5, <2>1, <2>3, <2>4, <2>5, <2>6, <2>7, ReadKeeps
<1>9. CASE Ends(r)
  BY <1>1, <1>4, <1>5, <1>9, EndKeeps
<1>. QED  BY <1>3, <1>6, <1>7, <1>8, <1>9 DEF ReadAthena

LEMMA ReadCommonKeeps ==
  ASSUME ProgressInv, NEW r \in Requests, ReadCommon(r)
  PROVE  ProgressInv'
<1>. DEFINE p == request[r]
            q == [p EXCEPT !.common = common]
            t == [q EXCEPT !.step = IF q.kind = "results" THEN "season" ELSE "athena"]
<1>1. r \in Running /\ p.step = "common"
  BY DEF ReadCommon, Running, ProgressInv, ProgressTypeOK, Request
<1>2. /\ p \in Request /\ p.kind \in Kinds /\ p.plan \in PlansOf[p.kind]
      /\ p.step \in StepsOf[p.kind] /\ (mishaps \subseteq Kinds => Copies(p))
  BY <1>1, Working
<1>3. p.kind \in {"results", "purchase"}
  BY <1>1, <1>2 DEF StepsOf, Kinds
<1>4. /\ q \in Request /\ q.kind = p.kind /\ q.plan = p.plan
      /\ q.athena = p.athena /\ q.common = common
  BY <1>2, RecordType DEF Request
<1>5. /\ t \in Request /\ t.kind = p.kind /\ t.plan = p.plan
      /\ t.step = (IF p.kind = "results" THEN "season" ELSE "athena")
      /\ t.athena = p.athena /\ t.common = common
  BY <1>4 DEF Request, ProgressSteps
<1>6. LevelsOut(p) = 0 /\ MtxOut(p) = 0 /\ PayOut(p) = 0 /\ StarsOut(p) = 0
  BY <1>1 DEF LevelsOut, MtxOut, PayOut, StarsOut, Is
<1>7. UNCHANGED <<season, athena, common, mishaps>>
  BY DEF ReadCommon
<1>8. CASE Goes(r, t)
  <2>. HIDE DEF q, t
  <2>1. Planned(t) /\ t.step # "new"
    BY <1>2, <1>3, <1>5 DEF Planned, StepsOf
  <2>2. LevelsOut(t) = 0 /\ MtxOut(t) = 0 /\ PayOut(t) = 0 /\ StarsOut(t) = 0
    BY <1>3, <1>5 DEF LevelsOut, MtxOut, PayOut, StarsOut, Is
  <2>3. MoreMtx(t.common, 0, 0, 0)
    BY <1>5, RecordType DEF MoreMtx
  <2>4. mishaps \subseteq Kinds => Copies(t)
    BY <1>1, <1>2, <1>3, <1>5, <2>3 DEF Copies, Is
  <2>. QED  BY <1>1, <1>5, <1>6, <1>7, <1>8, <2>1, <2>2, <2>4, ReadKeeps
<1>9. CASE Ends(r)
  BY <1>1, <1>6, <1>7, <1>9, EndKeeps
<1>. QED  BY <1>8, <1>9 DEF ReadCommon

(* After a call that failed unnoticed, nothing is said of the books. *)
LEMMA UnnoticedKeeps ==
  ASSUME ProgressInv, NEW r \in Running, NEW q \in Request, Planned(q),
         q.step # "new", Goes(r, q),
         season' \in Season, athena' \in Athena, common' \in CommonCore,
         NEW what \in {"unread", "unsaved"}, mishaps' = mishaps \union {what}
  PROVE  ProgressInv'
<1>1. ~ (mishaps' \subseteq Kinds)
  BY DEF Kinds
<1>. QED  BY <1>1, StepKeeps

(* The free part of the pass brings a level and its stars, or nothing. *)
LEMMA PassedType ==
  ASSUME NEW s \in Season
  PROVE  /\ Passed(s) \in Season /\ Passed(s).earned = s.earned /\ Passed(s).bought = s.bought
         /\ Passed(s).due - s.due \in Nat
<1>1. s.level \in Nat /\ s.due \in Nat
  BY DEF Season
<1>2. PICK l \in Nat : l = s.level + 1
  BY <1>1
<1>3. PICK d \in Nat : d = s.due + Stars
  BY <1>1 DEF Stars
<1>4. Passed(s) = s \/ Passed(s) = [s EXCEPT !.purchasedVip = TRUE, !.level = l, !.due = d]
  BY <1>2, <1>3 DEF Passed
<1>5. [s EXCEPT !.purchasedVip = TRUE, !.level = l, !.due = d] \in Season
  BY DEF Season
<1>6. /\ [s EXCEPT !.purchasedVip = TRUE, !.level = l, !.due = d].earned = s.earned
      /\ [s EXCEPT !.purchasedVip = TRUE, !.level = l, !.due = d].bought = s.bought
      /\ [s EXCEPT !.purchasedVip = TRUE, !.level = l, !.due = d].due = d
  BY DEF Season
<1>7. CASE Passed(s) = s
  <2>1. s.due - s.due \in Nat
    BY <1>1
  <2>. QED  BY <1>7, <2>1
<1>8. CASE Passed(s) = [s EXCEPT !.purchasedVip = TRUE, !.level = l, !.due = d]
  <2>1. d - s.due \in Nat
    BY <1>1, <1>3 DEF Stars
  <2>. QED  BY <1>5, <1>6, <1>8, <2>1
<1>. QED  BY <1>4, <1>7, <1>8

(* XP never falls below none: the loop takes what it finds and no more. *)
LEMMA CostPaid ==
  ASSUME NEW level \in Nat, NEW xp \in Nat, NEW to, Climbs(level, xp, to)
  PROVE  to \in Nat /\ Cost(level, to) \in Int /\ Cost(level, to) <= xp
<1>1. CASE level \in 1..Last
  <2>1. to \in level..(Last + 1) /\ Cost(level, to) <= xp
    BY <1>1 DEF Climbs
  <2>2. Total[level] \in Nat /\ Total[to] \in Nat
    BY <1>1, <2>1, ProgressAssumption
  <2>. QED  BY <1>1, <2>1, <2>2, ProgressAssumption DEF Cost
<1>2. CASE level \notin 1..Last
  BY <1>2 DEF Climbs, Cost
<1>. QED  BY <1>1, <1>2

LEMMA ClimbedType ==
  ASSUME NEW s \in Season, NEW xp \in Nat, NEW to, Climbs(s.level, s.xp + xp, to)
  PROVE  /\ Climbed(s, xp, to) \in Season
         /\ Climbed(s, xp, to).earned = s.earned /\ Climbed(s, xp, to).bought = s.bought
         /\ Climbed(s, xp, to).due - s.due \in Nat
<1>. DEFINE taken == (s.level..(to - 1)) \intersect Starred
            more == IF s.purchasedVip THEN Stars * Cardinality(taken) ELSE 0
<1>1. s.level \in Nat /\ s.xp \in Nat /\ s.allXpGained \in Nat /\ s.due \in Nat
  BY DEF Season
<1>2. to \in Nat /\ Cost(s.level, to) \in Int /\ Cost(s.level, to) <= s.xp + xp
  <2>1. s.xp + xp \in Nat
    BY <1>1
  <2>. QED  BY <1>1, <2>1, CostPaid
<1>3. Cardinality(taken) \in Nat
  <2>1. IsFiniteSet(s.level..(to - 1))
    <3>1. s.level \in Int /\ to - 1 \in Int
      BY <1>1, <1>2
    <3>. QED  BY <3>1, FS_Interval
  <2>2. IsFiniteSet(taken)
    BY <2>1, FS_Subset
  <2>. QED  BY <2>2, FS_CardinalityType
<1>4. more \in Nat
  BY <1>3 DEF Stars
<1>5. PICK x \in Nat : x = s.xp + xp - Cost(s.level, to)
  BY <1>1, <1>2
<1>6. PICK g \in Nat : g = s.allXpGained + xp
  BY <1>1
<1>7. PICK d \in Nat : d = s.due + more
  BY <1>1, <1>4
<1>8. Climbed(s, xp, to) = [s EXCEPT !.level = to, !.xp = x, !.allXpGained = g, !.due = d]
  BY <1>5, <1>6, <1>7 DEF Climbed
<1>. HIDE DEF more
<1>9. /\ Climbed(s, xp, to) \in Season
      /\ Climbed(s, xp, to).earned = s.earned /\ Climbed(s, xp, to).bought = s.bought
      /\ Climbed(s, xp, to).due = d
  BY <1>2, <1>8 DEF Season
<1>. QED  BY <1>1, <1>4, <1>7, <1>9

LEMMA FreshType ==
  /\ Fresh \in Season /\ Blank \in Season
BY DEF Fresh, Blank, Season

(* The results are worked out on what the request read. *)
LEMMA FindSeasonKeeps ==
  ASSUME ProgressInv, NEW r \in Requests, FindSeason(r)
  PROVE  ProgressInv'
<1>. DEFINE p == request[r]
<1>1. r \in Running /\ p.step = "season"
  BY DEF FindSeason, Running, ProgressInv, ProgressTypeOK, Request
<1>2. /\ p \in Request /\ p.kind \in Kinds /\ p.plan \in PlansOf[p.kind]
      /\ p.step \in StepsOf[p.kind] /\ (mishaps \subseteq Kinds => Copies(p))
  BY <1>1, Working
<1>3. p.kind = "results" /\ p.plan.xp \in Nat /\ Pays(p.plan) \in Nat
  BY <1>1, <1>2, PlanType DEF StepsOf, Kinds
<1>4. LevelsOut(p) = 0 /\ MtxOut(p) = 0 /\ PayOut(p) = 0 /\ StarsOut(p) = 0
  BY <1>1 DEF LevelsOut, MtxOut, PayOut, StarsOut, Is
<1>5. UNCHANGED <<season, athena, common>>
  BY DEF FindSeason
<1>6. CASE Ends(r) /\ UNCHANGED mishaps
  BY <1>1, <1>4, <1>5, <1>6, EndKeeps
<1>7. ASSUME NEW found \in {season, Fresh},
             NEW to \in Passed(found).level..(Passed(found).level + Last),
             Climbs(Passed(found).level, Passed(found).xp + p.plan.xp, to),
             NEW s, s = [Climbed(Passed(found), p.plan.xp, to) EXCEPT !.earned = @ + Pays(p.plan)],
             NEW a, a = [p.athena EXCEPT !.battlestars = @ + s.due - found.due],
             NEW c, c = [p.common EXCEPT !.mtx = @ + Pays(p.plan), !.earned = @ + Pays(p.plan)],
             NEW q, q = [p EXCEPT !.step = "saveCommon", !.season = s, !.athena = a, !.common = c],
             Goes(r, q), IF found = season THEN UNCHANGED mishaps ELSE Mishap("unread")
      PROVE  ProgressInv'
  <2>1. found \in Season /\ Passed(found) \in Season /\ Passed(found).earned = found.earned
        /\ Passed(found).bought = found.bought /\ Passed(found).due - found.due \in Nat
    BY RecordType, FreshType, PassedType
  <2>. DEFINE k == Climbed(Passed(found), p.plan.xp, to)
  <2>2. k \in Season /\ k.earned = found.earned /\ k.bought = found.bought
        /\ k.due - Passed(found).due \in Nat
    BY <1>3, <1>7, <2>1, ClimbedType
  <2>3. found.due \in Nat /\ k.due \in Nat /\ Passed(found).due \in Nat /\ found.earned \in Nat
    BY <2>1, <2>2 DEF Season
  <2>. HIDE DEF k
  <2>4. PICK e \in Nat : e = k.earned + Pays(p.plan)
    BY <1>3, <2>2, <2>3
  <2>5. s = [k EXCEPT !.earned = e]
    BY <1>7, <2>4 DEF k
  <2>6. s \in Season /\ s.earned = e /\ s.due = k.due /\ s.bought = found.bought
    BY <2>2, <2>5 DEF Season
  <2>7. s.due - found.due \in Nat
    BY <2>1, <2>2, <2>3, <2>6
  <2>8. PICK b \in Nat : b = p.athena.battlestars + s.due - found.due
    BY <1>2, <2>3, <2>6, <2>7, RequestType
  <2>9. a = [p.athena EXCEPT !.battlestars = b]
    BY <1>7, <2>8
  <2>10. a \in Athena /\ a.battlestars = b /\ a.spent = p.athena.spent /\ a.sold = p.athena.sold
    BY <1>2, <2>9, RequestType DEF Athena
  <2>11. PICK m \in Nat : m = p.common.mtx + Pays(p.plan)
    BY <1>2, <1>3, RequestType
  <2>12. PICK n \in Nat : n = p.common.earned + Pays(p.plan)
    BY <1>2, <1>3, RequestType
  <2>13. c = [p.common EXCEPT !.mtx = m, !.earned = n]
    BY <1>7, <2>11, <2>12
  <2>14. c \in CommonCore /\ c.earned = n /\ c.paid = p.common.paid /\ c.given = p.common.given
    BY <1>2, <2>13, RequestType DEF CommonCore
  <2>15. /\ q \in Request /\ q.kind = "results" /\ q.plan = p.plan /\ q.step = "saveCommon"
         /\ q.season = s /\ q.athena = a /\ q.common = c
    BY <1>2, <1>3, <1>7, <2>6, <2>10, <2>14 DEF Request, ProgressSteps
  <2>16. Planned(q) /\ q.step # "new"
    BY <1>2, <1>3, <2>15 DEF Planned, StepsOf
  <2>17. CASE found = season
    <3>1. UNCHANGED <<season, athena, common, mishaps>>
      BY <1>5, <1>7, <2>17
    <3>2. LevelsOut(q) = 0 /\ MtxOut(q) = 0 /\ PayOut(q) = 0 /\ StarsOut(q) = 0
      BY <2>15 DEF LevelsOut, MtxOut, PayOut, StarsOut, Is
    <3>3. ASSUME mishaps \subseteq Kinds
          PROVE  Copies(q)
      <4>1. MoreStars(p.athena, 0) /\ MoreSold(p.athena, 0) /\ MoreMtx(p.common, 0, 0, 0)
        BY <1>1, <1>2, <1>3, <3>3 DEF Copies, Is
      <4>2. MoreMtx(c, Pays(p.plan), 0, 0)
        BY <1>3, <2>12, <2>14, <4>1, RecordType DEF MoreMtx
      <4>3. StarsDue(q) = s.due - season.due
        BY <2>15 DEF StarsDue
      <4>4. MoreStars(a, StarsDue(q)) /\ MoreSold(a, 0)
        BY <1>2, <2>3, <2>6, <2>8, <2>10, <2>17, <4>1, <4>3, RecordType, RequestType
          DEF MoreStars, MoreSold
      <4>5. MoreSeason(s, Pays(p.plan), StarsDue(q), 0) /\ StarsDue(q) >= 0
        BY <1>3, <2>2, <2>3, <2>4, <2>6, <2>7, <2>17, <4>3, RecordType DEF MoreSeason
      <4>. QED  BY <2>15, <4>2, <4>4, <4>5 DEF Copies, Is
    <3>. QED  BY <1>1, <1>4, <1>7, <2>15, <2>16, <3>1, <3>2, <3>3, ReadKeeps
  <2>18. CASE found # season
    <3>1. mishaps' = mishaps \union {"unread"}
      BY <1>7, <2>18 DEF Mishap
    <3>2. season' \in Season /\ athena' \in Athena /\ common' \in CommonCore
      BY <1>5, RecordType
    <3>. QED  BY <1>1, <1>7, <2>15, <2>16, <3>1, <3>2, UnnoticedKeeps
  <2>. QED  BY <2>17, <2>18
<1>. QED  BY <1>6, <1>7 DEF FindSeason

LEMMA FindForPassKeeps ==
  ASSUME ProgressInv, NEW r \in Requests, FindForPass(r)
  PROVE  ProgressInv'
<1>. DEFINE p == request[r]
<1>1. r \in Running /\ p.step = "pass"
  BY DEF FindForPass, Running, ProgressInv, ProgressTypeOK, Request
<1>2. /\ p \in Request /\ p.kind \in Kinds /\ p.plan \in PlansOf[p.kind]
      /\ p.step \in StepsOf[p.kind] /\ (mishaps \subseteq Kinds => Copies(p))
  BY <1>1, Working
<1>3. p.kind = "purchase"
  BY <1>1, <1>2 DEF StepsOf, Kinds
<1>4. PICK found \in {season, Blank} :
        /\ Goes(r, [p EXCEPT !.step = "savePass", !.season = [found EXCEPT !.purchasedVip = TRUE]])
        /\ IF found = season THEN UNCHANGED mishaps ELSE Mishap("unread")
  BY DEF FindForPass
<1>5. UNCHANGED <<season, athena, common>>
  BY DEF FindForPass
<1>. DEFINE s == [found EXCEPT !.purchasedVip = TRUE]
            q == [p EXCEPT !.step = "savePass", !.season = s]
<1>6. s \in Season /\ s.earned = found.earned /\ s.due = found.due /\ s.bought = found.bought
  <2>1. found \in Season
    BY RecordType, FreshType
  <2>. QED  BY <2>1 DEF Season
<1>. HIDE DEF s
<1>7. /\ q \in Request /\ q.kind = "purchase" /\ q.plan = p.plan /\ q.step = "savePass"
      /\ q.season = s /\ q.athena = p.athena /\ q.common = p.common
  BY <1>2, <1>3, <1>6 DEF Request, ProgressSteps
<1>8. Goes(r, q)
  BY <1>4 DEF s
<1>. HIDE DEF q
<1>9. Planned(q) /\ q.step # "new"
  BY <1>2, <1>3, <1>7 DEF Planned, StepsOf
<1>10. CASE found = season
  <2>1. UNCHANGED <<season, athena, common, mishaps>>
    BY <1>4, <1>5, <1>10
  <2>2. /\ LevelsOut(p) = 0 /\ MtxOut(p) = 0 /\ PayOut(p) = 0 /\ StarsOut(p) = 0
        /\ LevelsOut(q) = 0 /\ MtxOut(q) = 0 /\ PayOut(q) = 0 /\ StarsOut(q) = 0
    BY <1>1, <1>7 DEF LevelsOut, MtxOut, PayOut, StarsOut, Is
  <2>3. ASSUME mishaps \subseteq Kinds
        PROVE  Copies(q)
    <3>1. MoreMtx(p.common, 0, p.plan.levels, 0) /\ MoreStars(p.athena, Stars * p.plan.levels)
          /\ MoreSold(p.athena, 0)
      BY <1>1, <1>2, <1>3, <2>3 DEF Copies, Is
    <3>2. MoreSeason(s, 0, 0, 0)
      BY <1>6, <1>10, RecordType DEF MoreSeason
    <3>. QED  BY <1>7, <3>1, <3>2 DEF Copies, Is
  <2>. QED  BY <1>1, <1>7, <1>8, <1>9, <2>1, <2>2, <2>3, ReadKeeps
<1>11. CASE found # season
  <2>1. mishaps' = mishaps \union {"unread"}
    BY <1>4, <1>11 DEF Mishap
  <2>2. season' \in Season /\ athena' \in Athena /\ common' \in CommonCore
    BY <1>5, RecordType
  <2>. QED  BY <1>1, <1>7, <1>8, <1>9, <2>1, <2>2, UnnoticedKeeps
<1>. QED  BY <1>10, <1>11

LEMMA FindForLevelsKeeps ==
  ASSUME ProgressInv, NEW r \in Requests, FindForLevels(r)
  PROVE  ProgressInv'
<1>. DEFINE p == request[r]
            n == p.plan.levels
<1>1. r \in Running /\ p.step = "levels"
  BY DEF FindForLevels, Running, ProgressInv, ProgressTypeOK, Request
<1>2. /\ p \in Request /\ p.kind \in Kinds /\ p.plan \in PlansOf[p.kind]
      /\ p.step \in StepsOf[p.kind] /\ (mishaps \subseteq Kinds => Copies(p))
  BY <1>1, Working
<1>3. p.kind = "purchase"
  BY <1>1, <1>2 DEF StepsOf, Kinds
<1>4. n \in Nat
  BY <1>2, <1>3, PlanType
<1>5. UNCHANGED <<season, athena, common>>
  BY DEF FindForLevels
<1>6. LevelsOut(p) = 0 /\ MtxOut(p) = 0 /\ PayOut(p) = 0 /\ StarsOut(p) = 0
  BY <1>1 DEF LevelsOut, MtxOut, PayOut, StarsOut, Is
<1>7. ASSUME mishaps \subseteq Kinds
      PROVE  /\ MoreMtx(p.common, 0, n, 0) /\ MoreStars(p.athena, Stars * n)
             /\ MoreSold(p.athena, 0)
  BY <1>1, <1>2, <1>3, <1>7 DEF Copies, Is
<1>8. CASE n = 0 /\ Moves(r, "saveCommon") /\ UNCHANGED mishaps
  <2>. DEFINE q == [p EXCEPT !.step = "saveCommon"]
  <2>1. /\ q \in Request /\ q.kind = "purchase" /\ q.plan = p.plan /\ q.step = "saveCommon"
        /\ q.athena = p.athena /\ q.common = p.common
    BY <1>2, <1>3 DEF Request, ProgressSteps
  <2>2. Goes(r, q)
    BY <1>8 DEF Moves
  <2>. HIDE DEF q
  <2>3. Planned(q) /\ q.step # "new"
    BY <1>2, <1>3, <2>1 DEF Planned, StepsOf
  <2>4. LevelsOut(q) = 0 /\ MtxOut(q) = 0 /\ PayOut(q) = 0 /\ StarsOut(q) = 0
    BY <1>8, <2>1 DEF LevelsOut, MtxOut, PayOut, StarsOut, Is, Stars
  <2>5. mishaps \subseteq Kinds => Copies(q)
    BY <1>7, <2>1 DEF Copies, Is
  <2>. QED  BY <1>1, <1>5, <1>6, <1>8, <2>1, <2>2, <2>3, <2>4, <2>5, ReadKeeps
<1>9. CASE n > 0
  <2>1. PICK found \in {season, Blank} :
          /\ Goes(r, [p EXCEPT !.step = "saveLevels", !.season =
                  [found EXCEPT !.level = @ + n, !.due = @ + Stars * n, !.bought = @ + n]])
          /\ IF found = season THEN UNCHANGED mishaps ELSE Mishap("unread")
    BY <1>9 DEF FindForLevels
  <2>. DEFINE s == [found EXCEPT !.level = @ + n, !.due = @ + Stars * n, !.bought = @ + n]
              q == [p EXCEPT !.step = "saveLevels", !.season = s]
  <2>2. found \in Season /\ found.level \in Nat /\ found.due \in Nat /\ found.bought \in Nat
    <3>1. found \in Season
      BY RecordType, FreshType
    <3>. QED  BY <3>1 DEF Season
  <2>3. PICK l \in Nat : l = found.level + n
    BY <1>4, <2>2
  <2>4. PICK d \in Nat : d = found.due + Stars * n
    BY <1>4, <2>2 DEF Stars
  <2>5. PICK b \in Nat : b = found.bought + n
    BY <1>4, <2>2
  <2>6. s = [found EXCEPT !.level = l, !.due = d, !.bought = b]
    BY <2>3, <2>4, <2>5
  <2>7. s \in Season /\ s.earned = found.earned /\ s.due = d /\ s.bought = b
    BY <2>2, <2>6 DEF Season
  <2>. HIDE DEF s
  <2>8. /\ q \in Request /\ q.kind = "purchase" /\ q.plan = p.plan /\ q.step = "saveLevels"
        /\ q.season = s /\ q.athena = p.athena /\ q.common = p.common
    BY <1>2, <1>3, <2>7 DEF Request, ProgressSteps
  <2>9. Goes(r, q)
    BY <2>1 DEF s
  <2>. HIDE DEF q
  <2>10. Planned(q) /\ q.step # "new"
    BY <1>2, <1>3, <2>8 DEF Planned, StepsOf
  <2>11. CASE found = season
    <3>1. UNCHANGED <<season, athena, common, mishaps>>
      BY <1>5, <2>1, <2>11
    <3>2. LevelsOut(q) = 0 /\ MtxOut(q) = 0 /\ PayOut(q) = 0 /\ StarsOut(q) = 0
      BY <2>8 DEF LevelsOut, MtxOut, PayOut, StarsOut, Is
    <3>3. MoreSeason(s, 0, Stars * n, n)
      BY <1>4, <2>4, <2>5, <2>7, <2>11, RecordType DEF MoreSeason, Stars
    <3>4. mishaps \subseteq Kinds => Copies(q)
      BY <1>7, <2>8, <3>3 DEF Copies, Is
    <3>. QED  BY <1>1, <1>6, <2>8, <2>9, <2>10, <3>1, <3>2, <3>4, ReadKeeps
  <2>12. CASE found # season
    <3>1. mishaps' = mishaps \union {"unread"}
      BY <2>1, <2>12 DEF Mishap
    <3>2. season' \in Season /\ athena' \in Athena /\ common' \in CommonCore
      BY <1>5, RecordType
    <3>. QED  BY <1>1, <2>8, <2>9, <2>10, <3>1, <3>2, UnnoticedKeeps
  <2>. QED  BY <2>11, <2>12
<1>. QED  BY <1>4, <1>8, <1>9 DEF FindForLevels

LEMMA FindForMtxKeeps ==
  ASSUME ProgressInv, NEW r \in Requests, FindForMtx(r)
  PROVE  ProgressInv'
<1>. DEFINE p == request[r]
            x == p.plan.mtx
<1>1. r \in Running /\ p.step = "mtx"
  BY DEF FindForMtx, Running, ProgressInv, ProgressTypeOK, Request
<1>2. /\ p \in Request /\ p.kind \in Kinds /\ p.plan \in PlansOf[p.kind]
      /\ p.step \in StepsOf[p.kind] /\ (mishaps \subseteq Kinds => Copies(p))
  BY <1>1, Working
<1>3. p.kind = "exchange"
  BY <1>1, <1>2 DEF StepsOf, Kinds
<1>4. x \in Nat
  BY <1>2, <1>3, PlanType
<1>5. UNCHANGED <<season, athena, common>>
  BY DEF FindForMtx
<1>. DEFINE c == [common EXCEPT !.mtx = @ + x, !.given = @ + x]
            q == [p EXCEPT !.step = "saveMtx", !.common = c]
            t == [p EXCEPT !.step = "saveAthena"]
<1>6. CASE Goes(r, q) /\ UNCHANGED mishaps
  <2>1. PICK m \in Nat : m = common.mtx + x
    BY <1>4, RecordType
  <2>2. PICK g \in Nat : g = common.given + x
    BY <1>4, RecordType
  <2>3. c = [common EXCEPT !.mtx = m, !.given = g]
    BY <2>1, <2>2
  <2>4. c \in CommonCore /\ c.given = g /\ c.paid = common.paid /\ c.earned = common.earned
    BY <2>3, RecordType DEF CommonCore
  <2>. HIDE DEF c
  <2>5. /\ q \in Request /\ q.kind = "exchange" /\ q.plan = p.plan /\ q.step = "saveMtx"
        /\ q.athena = p.athena /\ q.common = c
    BY <1>2, <1>3, <2>4 DEF Request, ProgressSteps
  <2>6. Goes(r, q)
    BY <1>6
  <2>. HIDE DEF q
  <2>7. Planned(q) /\ q.step # "new"
    BY <1>2, <1>3, <2>5 DEF Planned, StepsOf
  <2>8. /\ LevelsOut(p) = 0 /\ MtxOut(p) = 0 /\ PayOut(p) = 0 /\ StarsOut(p) = 0
        /\ LevelsOut(q) = 0 /\ MtxOut(q) = 0 /\ PayOut(q) = 0 /\ StarsOut(q) = 0
    BY <1>1, <2>5 DEF LevelsOut, MtxOut, PayOut, StarsOut, Is
  <2>9. MoreMtx(c, 0, 0, x)
    BY <1>4, <2>2, <2>4, RecordType DEF MoreMtx
  <2>10. mishaps \subseteq Kinds => Copies(q)
    BY <1>1, <1>2, <1>3, <2>5, <2>9 DEF Copies, Is
  <2>11. UNCHANGED <<season, athena, common, mishaps>>
    BY <1>5, <1>6
  <2>. QED  BY <1>1, <2>5, <2>6, <2>7, <2>8, <2>10, <2>11, ReadKeeps
<1>7. CASE Moves(r, "saveAthena") /\ Mishap("unsaved")
  <2>1. t \in Request /\ t.kind = "exchange" /\ t.plan = p.plan /\ t.step = "saveAthena"
    BY <1>2, <1>3 DEF Request, ProgressSteps
  <2>2. Goes(r, t)
    BY <1>7 DEF Moves
  <2>. HIDE DEF t
  <2>3. Planned(t) /\ t.step # "new"
    BY <1>2, <1>3, <2>1 DEF Planned, StepsOf
  <2>4. mishaps' = mishaps \union {"unsaved"}
    BY <1>7 DEF Mishap
  <2>5. season' \in Season /\ athena' \in Athena /\ common' \in CommonCore
    BY <1>5, RecordType
  <2>. QED  BY <1>1, <2>1, <2>2, <2>3, <2>4, <2>5, UnnoticedKeeps
<1>. QED  BY <1>6, <1>7 DEF FindForMtx

(* What follows a save, for the kinds that make it. *)
LEMMA GoesOnType ==
  ASSUME ProgressInv, NEW r \in Running, GoesOn(r),
         request[r].step \in {"saveCommon", "saveMtx", "saveAthena", "saveSeason", "savePass", "saveLevels"}
  PROVE  \E q \in Request :
           /\ Goes(r, q) /\ Planned(q) /\ q.step # "new"
           /\ q.step = Follows(request[r].kind)[request[r].step]
           /\ q.step # "done" => /\ q.kind = request[r].kind /\ q.plan = request[r].plan
                                 /\ q.season = request[r].season /\ q.athena = request[r].athena
                                 /\ q.common = request[r].common
<1>. DEFINE p == request[r]
            next == Follows(p.kind)[p.step]
<1>1. /\ p \in Request /\ p.kind \in Kinds /\ p.plan \in PlansOf[p.kind]
      /\ p.step \in StepsOf[p.kind]
  BY Working
<1>2. CASE next = "done"
  <2>1. Goes(r, At("done"))
    BY <1>2 DEF GoesOn, Ends
  <2>. QED  BY <1>2, <2>1, IdleRequest
<1>3. CASE next # "done"
  <2>. DEFINE q == [p EXCEPT !.step = next]
  <2>1. next \in StepsOf[p.kind] \ {"new"} /\ next \in ProgressSteps
    BY <1>1, <1>3 DEF Follows, StepsOf, Kinds, ProgressSteps
  <2>2. Goes(r, q)
    BY <1>3 DEF GoesOn, Moves
  <2>. HIDE DEF next
  <2>3. /\ q \in Request /\ q.kind = p.kind /\ q.plan = p.plan /\ q.step = next
        /\ q.season = p.season /\ q.athena = p.athena /\ q.common = p.common
    BY <1>1, <2>1 DEF Request
  <2>4. Planned(q)
    BY <1>1, <2>1, <2>3 DEF Planned
  <2>. QED  BY <2>1, <2>2, <2>3, <2>4 DEF next
<1>. QED  BY <1>2, <1>3

(* A save that fails ends the results, and goes unnoticed in the other requests. *)
LEMMA UnsavedKeeps ==
  ASSUME ProgressInv, NEW r \in Running, Unsaved(r, GoesOn(r)),
         request[r].step \in {"saveCommon", "saveMtx", "saveAthena", "saveSeason", "savePass", "saveLevels"},
         UNCHANGED <<season, athena, common>>
  PROVE  ProgressInv'
<1>1. season' \in Season /\ athena' \in Athena /\ common' \in CommonCore
  BY RecordType
<1>2. CASE request[r].kind = "results"
  <2>1. Goes(r, At("done")) /\ mishaps' = mishaps \union {"results"}
    BY <1>2 DEF Unsaved, Ends, Mishap
  <2>2. mishaps' \subseteq Kinds => Copies(At("done"))' /\ Books(At("done"))'
    <3>1. mishaps' \subseteq Kinds => Books(At("done"))'
      BY <1>2, <2>1, IdleRequest, BrokenOff
    <3>2. Copies(At("done"))'
      BY IdleRequest DEF Copies, Is
    <3>. QED  BY <3>1, <3>2
  <2>3. At("done") \in Request /\ Planned(At("done")) /\ At("done").step = "done"
    BY IdleRequest
  <2>4. "results" \in Kinds
    BY DEF Kinds
  <2>. QED  BY <1>1, <2>1, <2>2, <2>3, <2>4, StepKeeps
<1>3. CASE request[r].kind # "results"
  <2>1. GoesOn(r) /\ mishaps' = mishaps \union {"unsaved"}
    BY <1>3 DEF Unsaved, Mishap
  <2>. QED  BY <1>1, <2>1, GoesOnType, UnnoticedKeeps
<1>. QED  BY <1>2, <1>3

LEMMA SaveCommonKeeps ==
  ASSUME ProgressInv, NEW r \in Requests, SaveCommon(r)
  PROVE  ProgressInv'
<1>. DEFINE p == request[r]
<1>1. r \in Running /\ p.step \in {"saveCommon", "saveMtx"}
  BY DEF SaveCommon, Running, ProgressInv, ProgressTypeOK, Request
<1>2. /\ p \in Request /\ p.kind \in Kinds /\ p.plan \in PlansOf[p.kind]
      /\ p.step \in StepsOf[p.kind] /\ (mishaps \subseteq Kinds => Copies(p) /\ Books(p))
  BY <1>1, Working
<1>3. UNCHANGED <<season, athena>>
  BY DEF SaveCommon
<1>4. CASE common' = p.common /\ GoesOn(r) /\ UNCHANGED mishaps
  <2>1. PICK q \in Request :
           /\ Goes(r, q) /\ Planned(q) /\ q.step # "new" /\ q.step = Follows(p.kind)[p.step]
           /\ q.step # "done" => /\ q.kind = p.kind /\ q.plan = p.plan
                                 /\ q.season = p.season /\ q.athena = p.athena
                                 /\ q.common = p.common
    BY <1>1, <1>4, GoesOnType
  <2>2. q.step = "saveAthena" /\ q.kind = p.kind /\ q.plan = p.plan
        /\ q.season = p.season /\ q.athena = p.athena
    BY <1>1, <2>1 DEF Follows
  <2>3. season' \in Season /\ athena' \in Athena /\ common' \in CommonCore
    BY <1>2, <1>3, <1>4, RecordType, RequestType
  <2>4. season' = season /\ athena' = athena /\ common' = p.common /\ mishaps' = mishaps
    BY <1>3, <1>4
  <2>5. ASSUME mishaps \subseteq Kinds
        PROVE  Copies(q)' /\ Books(q)'
    <3>1. CASE p.kind = "results" /\ p.step = "saveCommon"
      <4>1. Pays(p.plan) \in Nat
        BY <1>2, <3>1, PlanType
      <4>2. /\ MoreMtx(p.common, Pays(p.plan), 0, 0)
            /\ MoreStars(p.athena, StarsDue(p)) /\ MoreSold(p.athena, 0)
            /\ MoreSeason(p.season, Pays(p.plan), StarsDue(p), 0) /\ StarsDue(p) >= 0
        BY <1>2, <2>5, <3>1 DEF Copies, Is
      <4>3. Copies(q)'
        BY <2>2, <2>4, <3>1, <4>2
          DEF Copies, Is, MoreStars, MoreSold, MoreSeason, StarsDue
      <4>4. /\ LevelsOut(p) = 0 /\ MtxOut(p) = 0 /\ PayOut(p) = 0 /\ StarsOut(p) = 0
            /\ LevelsOut(q)' = 0 /\ MtxOut(q)' = 0 /\ PayOut(q)' = Pays(p.plan) /\ StarsOut(q)' = 0
        BY <2>2, <3>1 DEF LevelsOut, MtxOut, PayOut, StarsOut, Is
      <4>5. Books(q)'
        BY <1>2, <2>4, <2>5, <4>1, <4>2, <4>4, RecordType DEF Books, MoreMtx
      <4>. QED  BY <4>3, <4>5
    <3>2. CASE p.kind = "purchase" /\ p.step = "saveCommon"
      <4>1. p.plan.levels \in Nat
        BY <1>2, <3>2, PlanType
      <4>2. /\ MoreMtx(p.common, 0, p.plan.levels, 0)
            /\ MoreStars(p.athena, Stars * p.plan.levels) /\ MoreSold(p.athena, 0)
        BY <1>2, <2>5, <3>2 DEF Copies, Is
      <4>3. Copies(q)'
        BY <2>2, <2>4, <3>2, <4>2 DEF Copies, Is, MoreStars, MoreSold
      <4>4. /\ LevelsOut(p) = p.plan.levels /\ MtxOut(p) = 0 /\ PayOut(p) = 0
            /\ LevelsOut(q)' = 0 /\ MtxOut(q)' = 0 /\ PayOut(q)' = 0
            /\ StarsOut(p) = 0 - Stars * p.plan.levels /\ StarsOut(q)' = 0 - Stars * p.plan.levels
        BY <2>2, <3>2 DEF LevelsOut, MtxOut, PayOut, StarsOut, Is
      <4>5. Books(q)'
        BY <1>2, <2>4, <2>5, <4>1, <4>2, <4>4, RecordType DEF Books, MoreMtx
      <4>. QED  BY <4>3, <4>5
    <3>3. CASE p.kind = "exchange" /\ p.step = "saveMtx"
      <4>1. p.plan.mtx \in Nat
        BY <1>2, <3>3, PlanType
      <4>2. /\ MoreMtx(p.common, 0, 0, p.plan.mtx)
            /\ MoreStars(p.athena, 0) /\ MoreSold(p.athena, p.plan.mtx)
        BY <1>2, <2>5, <3>3 DEF Copies, Is
      <4>3. Copies(q)'
        BY <2>2, <2>4, <3>3, <4>2 DEF Copies, Is, MoreStars, MoreSold
      <4>4. /\ LevelsOut(p) = 0 /\ MtxOut(p) = 0 /\ PayOut(p) = 0 /\ StarsOut(p) = 0
            /\ LevelsOut(q)' = 0 /\ MtxOut(q)' = p.plan.mtx /\ PayOut(q)' = 0 /\ StarsOut(q)' = 0
        BY <2>2, <3>3 DEF LevelsOut, MtxOut, PayOut, StarsOut, Is
      <4>5. Books(q)'
        BY <1>2, <2>4, <2>5, <4>1, <4>2, <4>4, RecordType DEF Books, MoreMtx
      <4>. QED  BY <4>3, <4>5
    <3>. QED  BY <1>1, <1>2, <3>1, <3>2, <3>3 DEF StepsOf, Kinds
  <2>. QED  BY <1>1, <2>1, <2>3, <2>4, <2>5, StepKeeps
<1>5. CASE UNCHANGED common /\ Unsaved(r, GoesOn(r))
  BY <1>1, <1>3, <1>5, UnsavedKeeps
<1>. QED  BY <1>4, <1>5 DEF SaveCommon

LEMMA SaveAthenaKeeps ==
  ASSUME ProgressInv, NEW r \in Requests, SaveAthena(r)
  PROVE  ProgressInv'
<1>. DEFINE p == request[r]
<1>1. r \in Running /\ p.step = "saveAthena"
  BY DEF SaveAthena, Running, ProgressInv, ProgressTypeOK, Request
<1>2. /\ p \in Request /\ p.kind \in Kinds /\ p.plan \in PlansOf[p.kind]
      /\ p.step \in StepsOf[p.kind] /\ (mishaps \subseteq Kinds => Copies(p) /\ Books(p))
  BY <1>1, Working
<1>3. UNCHANGED <<season, common>>
  BY DEF SaveAthena
<1>4. CASE athena' = p.athena /\ GoesOn(r) /\ UNCHANGED mishaps
  <2>1. PICK q \in Request :
           /\ Goes(r, q) /\ Planned(q) /\ q.step # "new" /\ q.step = Follows(p.kind)[p.step]
           /\ q.step # "done" => /\ q.kind = p.kind /\ q.plan = p.plan
                                 /\ q.season = p.season /\ q.athena = p.athena
                                 /\ q.common = p.common
    BY <1>1, <1>4, GoesOnType
  <2>2. q.step = IF p.kind = "results" THEN "saveSeason" ELSE "done"
    BY <1>1, <2>1 DEF Follows
  <2>3. season' \in Season /\ athena' \in Athena /\ common' \in CommonCore
    BY <1>2, <1>3, <1>4, RecordType, RequestType
  <2>4. season' = season /\ athena' = p.athena /\ common' = common /\ mishaps' = mishaps
    BY <1>3, <1>4
  <2>5. p.season.due \in Nat /\ p.athena.battlestars \in Nat /\ p.athena.spent \in Nat
        /\ p.athena.sold \in Nat
    BY <1>2, RequestType
  <2>6. ASSUME mishaps \subseteq Kinds
        PROVE  Copies(q)' /\ Books(q)'
    <3>1. CASE p.kind = "results"
      <4>1. /\ q.step = "saveSeason" /\ q.kind = "results" /\ q.plan = p.plan
            /\ q.season = p.season
        BY <2>1, <2>2, <3>1
      <4>2. /\ MoreStars(p.athena, StarsDue(p)) /\ MoreSold(p.athena, 0)
            /\ MoreSeason(p.season, Pays(p.plan), StarsDue(p), 0) /\ StarsDue(p) >= 0
        BY <1>1, <1>2, <2>6, <3>1 DEF Copies, Is
      <4>3. Copies(q)'
        BY <2>4, <4>1, <4>2 DEF Copies, Is, MoreSeason, StarsDue
      <4>4. Pays(p.plan) \in Nat /\ StarsDue(p) \in Int
        BY <1>2, <2>5, <3>1, PlanType, RecordType DEF StarsDue
      <4>5. /\ LevelsOut(p) = 0 /\ MtxOut(p) = 0 /\ PayOut(p) = Pays(p.plan) /\ StarsOut(p) = 0
            /\ LevelsOut(q)' = 0 /\ MtxOut(q)' = 0 /\ PayOut(q)' = Pays(p.plan)
            /\ StarsOut(q)' = StarsDue(p)
        BY <1>1, <2>4, <3>1, <4>1 DEF LevelsOut, MtxOut, PayOut, StarsOut, Is, StarsDue
      <4>6. Books(q)'
        BY <1>2, <2>4, <2>5, <2>6, <4>2, <4>4, <4>5, RecordType DEF Books, MoreStars, MoreSold
      <4>. QED  BY <4>3, <4>6
    <3>2. CASE p.kind = "purchase"
      <4>1. p.plan.levels \in Nat
        BY <1>2, <3>2, PlanType
      <4>2. MoreStars(p.athena, Stars * p.plan.levels) /\ MoreSold(p.athena, 0)
        BY <1>1, <1>2, <2>6, <3>2 DEF Copies, Is
      <4>3. Copies(q)'
        BY <2>2, <3>2 DEF Copies, Is
      <4>4. /\ LevelsOut(p) = 0 /\ MtxOut(p) = 0 /\ PayOut(p) = 0
            /\ LevelsOut(q)' = 0 /\ MtxOut(q)' = 0 /\ PayOut(q)' = 0
            /\ StarsOut(p) = 0 - Stars * p.plan.levels /\ StarsOut(q)' = 0
        BY <1>1, <2>2, <3>2 DEF LevelsOut, MtxOut, PayOut, StarsOut, Is
      <4>5. Books(q)'
        BY <1>2, <2>4, <2>5, <2>6, <4>1, <4>2, <4>4, RecordType DEF Books, MoreStars, MoreSold, Stars
      <4>. QED  BY <4>3, <4>5
    <3>3. CASE p.kind = "exchange"
      <4>1. p.plan.mtx \in Nat
        BY <1>2, <3>3, PlanType
      <4>2. MoreStars(p.athena, 0) /\ MoreSold(p.athena, p.plan.mtx)
        BY <1>1, <1>2, <2>6, <3>3 DEF Copies, Is
      <4>3. Copies(q)'
        BY <2>2, <3>3 DEF Copies, Is
      <4>4. /\ LevelsOut(p) = 0 /\ MtxOut(p) = p.plan.mtx /\ PayOut(p) = 0 /\ StarsOut(p) = 0
            /\ LevelsOut(q)' = 0 /\ MtxOut(q)' = 0 /\ PayOut(q)' = 0 /\ StarsOut(q)' = 0
        BY <1>1, <2>2, <3>3 DEF LevelsOut, MtxOut, PayOut, StarsOut, Is
      <4>5. Books(q)'
        BY <1>2, <2>4, <2>5, <2>6, <4>1, <4>2, <4>4, RecordType DEF Books, MoreStars, MoreSold
      <4>. QED  BY <4>3, <4>5
    <3>. QED  BY <1>2, <3>1, <3>2, <3>3 DEF Kinds
  <2>. QED  BY <1>1, <2>1, <2>3, <2>4, <2>6, StepKeeps
<1>5. CASE UNCHANGED athena /\ Unsaved(r, GoesOn(r))
  BY <1>1, <1>3, <1>5, UnsavedKeeps
<1>. QED  BY <1>4, <1>5 DEF SaveAthena

LEMMA SaveSeasonKeeps ==
  ASSUME ProgressInv, NEW r \in Requests, SaveSeason(r)
  PROVE  ProgressInv'
<1>. DEFINE p == request[r]
<1>1. r \in Running /\ p.step \in {"saveSeason", "savePass", "saveLevels"}
  BY DEF SaveSeason, Running, ProgressInv, ProgressTypeOK, Request
<1>2. /\ p \in Request /\ p.kind \in Kinds /\ p.plan \in PlansOf[p.kind]
      /\ p.step \in StepsOf[p.kind] /\ (mishaps \subseteq Kinds => Copies(p) /\ Books(p))
  BY <1>1, Working
<1>3. UNCHANGED <<athena, common>>
  BY DEF SaveSeason
<1>4. CASE season' = p.season /\ GoesOn(r) /\ UNCHANGED mishaps
  <2>1. PICK q \in Request :
           /\ Goes(r, q) /\ Planned(q) /\ q.step # "new" /\ q.step = Follows(p.kind)[p.step]
           /\ q.step # "done" => /\ q.kind = p.kind /\ q.plan = p.plan
                                 /\ q.season = p.season /\ q.athena = p.athena
                                 /\ q.common = p.common
    BY <1>1, <1>4, GoesOnType
  <2>2. /\ p.step = "saveSeason" => q.step = "done"
        /\ p.step = "savePass" => q.step = "levels"
        /\ p.step = "saveLevels" => q.step = "saveCommon"
    BY <2>1 DEF Follows
  <2>3. season' \in Season /\ athena' \in Athena /\ common' \in CommonCore
    BY <1>2, <1>3, <1>4, RecordType, RequestType
  <2>4. season' = p.season /\ athena' = athena /\ common' = common /\ mishaps' = mishaps
    BY <1>3, <1>4
  <2>5. p.season.due \in Nat /\ p.season.earned \in Nat /\ p.season.bought \in Nat
    BY <1>2, RequestType
  <2>6. ASSUME mishaps \subseteq Kinds
        PROVE  Copies(q)' /\ Books(q)'
    <3>1. CASE p.kind = "results" /\ p.step = "saveSeason"
      <4>1. Pays(p.plan) \in Nat /\ StarsDue(p) = p.season.due - season.due
        BY <1>2, <3>1, PlanType DEF StarsDue
      <4>2. MoreSeason(p.season, Pays(p.plan), StarsDue(p), 0)
        BY <1>2, <2>6, <3>1 DEF Copies, Is
      <4>3. Copies(q)'
        BY <2>2, <3>1 DEF Copies, Is
      <4>4. /\ LevelsOut(p) = 0 /\ MtxOut(p) = 0 /\ PayOut(p) = Pays(p.plan)
            /\ StarsOut(p) = StarsDue(p)
            /\ LevelsOut(q)' = 0 /\ MtxOut(q)' = 0 /\ PayOut(q)' = 0 /\ StarsOut(q)' = 0
        BY <2>2, <3>1 DEF LevelsOut, MtxOut, PayOut, StarsOut, Is
      <4>5. Books(q)'
        BY <1>2, <2>4, <2>5, <2>6, <4>1, <4>2, <4>4, RecordType DEF Books, MoreSeason
      <4>. QED  BY <4>3, <4>5
    <3>2. CASE p.kind = "purchase" /\ p.step = "savePass"
      <4>1. p.plan.levels \in Nat
        BY <1>2, <3>2, PlanType
      <4>2. /\ MoreMtx(p.common, 0, p.plan.levels, 0) /\ MoreSeason(p.season, 0, 0, 0)
            /\ MoreStars(p.athena, Stars * p.plan.levels) /\ MoreSold(p.athena, 0)
        BY <1>2, <2>6, <3>2 DEF Copies, Is
      <4>3. q.step = "levels" /\ q.kind = "purchase" /\ q.plan = p.plan
            /\ q.athena = p.athena /\ q.common = p.common
        BY <2>1, <2>2, <3>2
      <4>4. Copies(q)'
        BY <2>4, <4>2, <4>3 DEF Copies, Is, MoreMtx, MoreStars, MoreSold
      <4>5. /\ LevelsOut(p) = 0 /\ MtxOut(p) = 0 /\ PayOut(p) = 0 /\ StarsOut(p) = 0
            /\ LevelsOut(q)' = 0 /\ MtxOut(q)' = 0 /\ PayOut(q)' = 0 /\ StarsOut(q)' = 0
        BY <3>2, <4>3 DEF LevelsOut, MtxOut, PayOut, StarsOut, Is
      <4>6. Books(q)'
        BY <1>2, <2>4, <2>5, <2>6, <4>2, <4>5, RecordType DEF Books, MoreSeason
      <4>. QED  BY <4>4, <4>6
    <3>3. CASE p.kind = "purchase" /\ p.step = "saveLevels"
      <4>1. p.plan.levels \in Nat
        BY <1>2, <3>3, PlanType
      <4>2. /\ MoreMtx(p.common, 0, p.plan.levels, 0)
            /\ MoreSeason(p.season, 0, Stars * p.plan.levels, p.plan.levels)
            /\ MoreStars(p.athena, Stars * p.plan.levels) /\ MoreSold(p.athena, 0)
        BY <1>2, <2>6, <3>3 DEF Copies, Is
      <4>3. q.step = "saveCommon" /\ q.kind = "purchase" /\ q.plan = p.plan
            /\ q.athena = p.athena /\ q.common = p.common
        BY <2>1, <2>2, <3>3
      <4>4. Copies(q)'
        BY <2>4, <4>2, <4>3 DEF Copies, Is, MoreMtx, MoreStars, MoreSold
      <4>5. /\ LevelsOut(p) = 0 /\ MtxOut(p) = 0 /\ PayOut(p) = 0 /\ StarsOut(p) = 0
            /\ LevelsOut(q)' = p.plan.levels /\ MtxOut(q)' = 0 /\ PayOut(q)' = 0
            /\ StarsOut(q)' = 0 - Stars * p.plan.levels
        BY <3>3, <4>3 DEF LevelsOut, MtxOut, PayOut, StarsOut, Is
      <4>6. Books(q)'
        BY <1>2, <2>4, <2>5, <2>6, <4>1, <4>2, <4>5, RecordType DEF Books, MoreSeason, Stars
      <4>. QED  BY <4>4, <4>6
    <3>. QED  BY <1>1, <1>2, <3>1, <3>2, <3>3 DEF StepsOf, Kinds
  <2>. QED  BY <1>1, <2>1, <2>3, <2>4, <2>6, StepKeeps
<1>5. CASE UNCHANGED season /\ Unsaved(r, GoesOn(r))
  BY <1>1, <1>3, <1>5, UnsavedKeeps
<1>. QED  BY <1>4, <1>5 DEF SaveSeason

(* What is stored when the process ends is what the order of the saves promises. *)
LEMMA ProgressCrashKeeps ==
  ASSUME ProgressInv, Crash
  PROVE  ProgressInv'
<1>1. /\ Running # {}
      /\ request' = [r \in Requests |-> IF r \in Running THEN At("done") ELSE request[r]]
      /\ mishaps' = mishaps \union {request[r].kind : r \in Running}
      /\ UNCHANGED <<season, athena, common>>
  BY DEF Crash
<1>2. \A r \in Requests : request'[r] = IF r \in Running THEN At("done") ELSE request[r]
  BY <1>1
<1>3. \A r \in Requests : request'[r] \in Request /\ Planned(request'[r])
  <2>1. At("done") \in Request /\ Planned(At("done"))
    BY IdleRequest
  <2>. QED  BY <1>2, <2>1 DEF ProgressInv, ProgressTypeOK
<1>4. \A r \in Running : request[r].kind \in Kinds
  BY Working
<1>5. ProgressTypeOK'
  BY <1>1, <1>3, <1>4 DEF ProgressInv, ProgressTypeOK
<1>6. (\A r \in Requests : Planned(request[r]))'
  BY <1>3 DEF Planned
<1>7. Running' = {} /\ AtWork' = {At("done")}
  <2>1. Running' = {}
    BY <1>2, IdleRequest DEF Running
  <2>. QED  BY <2>1 DEF AtWork
<1>8. mishaps' \subseteq Kinds => Copies(At("done"))' /\ Books(At("done"))'
  <2>1. SUFFICES ASSUME mishaps' \subseteq Kinds
                 PROVE  Copies(At("done"))' /\ Books(At("done"))'
    OBVIOUS
  <2>2. mishaps \subseteq Kinds
    BY <1>1, <2>1
  <2>3. PICK r \in Running : Running = {r}
    BY <1>1, <2>2 DEF ProgressInv
  <2>4. mishaps' = mishaps \union {request[r].kind}
    BY <1>1, <2>3
  <2>5. Books(At("done"))'
    BY <1>1, <2>2, <2>4, IdleRequest, BrokenOff
  <2>6. Copies(At("done"))'
    BY IdleRequest DEF Copies, Is
  <2>. QED  BY <2>5, <2>6
<1>. QED  BY <1>5, <1>6, <1>7, <1>8 DEF ProgressInv

LEMMA ProgressInitHolds ==
  ASSUME ProgressInit
  PROVE  ProgressInv
<1>1. /\ season = Fresh /\ athena = NoStars /\ common = [NoMtx EXCEPT !.mtx = Opening]
      /\ request = [r \in Requests |-> At("new")] /\ mishaps = {}
  BY DEF ProgressInit
<1>2. common \in CommonCore /\ common.earned = 0 /\ common.paid = 0 /\ common.given = 0
  <2>1. NoMtx \in CommonCore /\ NoMtx.earned = 0 /\ NoMtx.paid = 0 /\ NoMtx.given = 0
    BY DEF NoMtx, CommonCore
  <2>2. Opening \in Nat
    BY ProgressAssumption
  <2>. QED  BY <1>1, <2>1, <2>2 DEF CommonCore
<1>3. season \in Season /\ athena \in Athena /\ common \in CommonCore
  BY <1>1, <1>2, FreshType DEF NoStars, Athena
<1>4. /\ season.due = 0 /\ season.bought = 0 /\ season.earned = 0
      /\ athena.battlestars = 0 /\ athena.spent = 0 /\ athena.sold = 0
      /\ common.paid = 0 /\ common.given = 0 /\ common.earned = 0
  BY <1>1, <1>2 DEF Fresh, Blank, NoStars
<1>5. ProgressTypeOK /\ \A r \in Requests : Planned(request[r])
  BY <1>1, <1>3, IdleRequest DEF ProgressTypeOK
<1>6. Running = {} /\ AtWork = {At("done")}
  BY <1>1, IdleRequest DEF Running, AtWork
<1>7. Books(At("done"))
  <2>1. At("done").step = "done"
    BY IdleRequest
  <2>. QED  BY <1>4, <2>1, NothingOut DEF Books
<1>8. Copies(At("done"))
  BY IdleRequest, NothingOut
<1>. QED  BY <1>5, <1>6, <1>7, <1>8 DEF ProgressInv

LEMMA ProgressNextKeeps ==
  ASSUME ProgressInv, [ProgressNext]_progressVars
  PROVE  ProgressInv'
<1>1. ASSUME NEW r \in Requests, NEW game \in Games, POSTBroadcastMatchResults(r, game)
      PROVE  ProgressInv'
  BY <1>1, BeginKeeps DEF POSTBroadcastMatchResults, PlansOf, Kinds
<1>2. ASSUME NEW r \in Requests, NEW offer \in Offers, POSTPurchaseMultipleCatalogEntries(r, offer)
      PROVE  ProgressInv'
  BY <1>2, BeginKeeps DEF POSTPurchaseMultipleCatalogEntries, PlansOf, Kinds
<1>3. ASSUME NEW r \in Requests, NEW exchange \in Exchanges,
             POSTExchangeGameCurrencyForBattlePassOffer(r, exchange)
      PROVE  ProgressInv'
  BY <1>3, BeginKeeps DEF POSTExchangeGameCurrencyForBattlePassOffer, PlansOf, Kinds
<1>4. ASSUME NEW r \in Requests,
             \/ ReadAthena(r) \/ ReadCommon(r) \/ FindSeason(r)
             \/ FindForPass(r) \/ FindForLevels(r) \/ FindForMtx(r)
             \/ SaveCommon(r) \/ SaveAthena(r) \/ SaveSeason(r)
      PROVE  ProgressInv'
  BY <1>4, ReadAthenaKeeps, ReadCommonKeeps, FindSeasonKeeps, FindForPassKeeps,
     FindForLevelsKeeps, FindForMtxKeeps, SaveCommonKeeps, SaveAthenaKeeps, SaveSeasonKeeps
<1>5. CASE Crash
  BY <1>5, ProgressCrashKeeps
<1>6. CASE UNCHANGED progressVars
  <2>1. /\ season' = season /\ athena' = athena /\ common' = common
        /\ request' = request /\ mishaps' = mishaps
    BY <1>6 DEF progressVars
  <2>. QED  BY <2>1 DEF ProgressInv, ProgressTypeOK, Planned, Running, AtWork, Copies, Books,
       LevelsOut, MtxOut, PayOut, StarsOut, StarsDue, MoreStars, MoreSold, MoreMtx, MoreSeason
<1>. QED  BY <1>1, <1>2, <1>3, <1>4, <1>5, <1>6 DEF ProgressNext

THEOREM ProgressInvariance == ProgressSpec => []ProgressInv
<1>1. ProgressInit => ProgressInv
  BY ProgressInitHolds
<1>2. ProgressInv /\ [ProgressNext]_progressVars => ProgressInv'
  BY ProgressNextKeeps
<1>. QED  BY <1>1, <1>2, PTL DEF ProgressSpec

(* The records and the copies of the requests are typed: no V-Bucks, stars or XP *)
(* below none are ever saved, whoever overlaps.                                  *)
THEOREM ProgressTypeCorrect == ProgressSpec => []ProgressTypeOK
<1>1. ProgressInv => ProgressTypeOK
  BY DEF ProgressInv
<1>. QED  BY <1>1, ProgressInvariance, PTL

LEMMA AtWorkSome ==
  ASSUME ProgressInv, mishaps \subseteq Kinds
  PROVE  \E q \in AtWork : /\ Copies(q) /\ Books(q)
                           /\ \/ Running = {} /\ q.step = "done"
                              \/ \E r \in Running : q = request[r]
<1>1. CASE Running = {}
  BY <1>1, IdleRequest DEF ProgressInv, AtWork
<1>2. CASE Running # {}
  BY <1>2 DEF ProgressInv, AtWork
<1>. QED  BY <1>1, <1>2

(* Results and exchanges that break off, at any point and however often, take no *)
(* stars that the levels are worth.                                              *)
THEOREM StarsAreCovered == ProgressSpec => []StarsCoverLevels
<1>1. ASSUME ProgressInv
      PROVE  StarsCoverLevels
  <2>1. SUFFICES ASSUME mishaps \subseteq {"results", "exchange"},
                        \A r \in Requests : request[r].kind # "purchase"
                 PROVE  athena.battlestars + athena.spent >= season.due
    BY DEF StarsCoverLevels
  <2>2. mishaps \subseteq Kinds
    BY <2>1 DEF Kinds
  <2>3. PICK q \in AtWork : /\ Copies(q) /\ Books(q)
                            /\ \/ Running = {} /\ q.step = "done"
                               \/ \E r \in Running : q = request[r]
    BY <1>1, <2>2, AtWorkSome
  <2>4. StarsOut(q) \in Nat
    <3>1. CASE q.step = "done"
      BY <3>1, NothingOut
    <3>2. CASE \E r \in Running : q = request[r]
      <4>1. q \in Request /\ q.kind # "purchase"
        BY <1>1, <2>1, <3>2, Working
      <4>. QED  BY <1>1, <2>3, <4>1, RequestType, RecordType DEF StarsOut, Copies, Is, StarsDue
    <3>. QED  BY <2>3, <3>1, <3>2
  <2>. QED  BY <1>1, <2>1, <2>3, <2>4, RecordType DEF Books
<1>. QED  BY <1>1, ProgressInvariance, PTL

(* Whatever breaks off, nothing is taken before what it pays for is given. *)
THEOREM GivenFirst == ProgressSpec => []GivenBeforeTaken
<1>1. ASSUME ProgressInv
      PROVE  GivenBeforeTaken
  <2>1. SUFFICES ASSUME mishaps \subseteq Kinds
                 PROVE  /\ common.paid <= season.bought /\ athena.sold <= common.given
                        /\ season.earned <= common.earned
    BY DEF GivenBeforeTaken
  <2>2. PICK q \in AtWork : /\ Copies(q) /\ Books(q)
                            /\ \/ Running = {} /\ q.step = "done"
                               \/ \E r \in Running : q = request[r]
    BY <1>1, <2>1, AtWorkSome
  <2>3. LevelsOut(q) \in Nat /\ MtxOut(q) \in Nat /\ PayOut(q) \in Nat
    <3>1. CASE q.step = "done"
      BY <3>1, NothingOut
    <3>2. CASE \E r \in Running : q = request[r]
      <4>1. q.kind \in Kinds /\ q.plan \in PlansOf[q.kind]
        BY <1>1, <3>2, Working
      <4>. QED  BY <4>1, PlanType DEF LevelsOut, MtxOut, PayOut, Is
    <3>. QED  BY <2>2, <3>1, <3>2
  <2>. QED  BY <1>1, <2>2, <2>3, RecordType DEF Books
<1>. QED  BY <1>1, ProgressInvariance, PTL

(* Undisturbed requests, of any number and in any order, leave the books balanced. *)
THEOREM RecordsDoAgree == ProgressSpec => []RecordsAgree
<1>1. ASSUME ProgressInv
      PROVE  RecordsAgree
  <2>1. SUFFICES ASSUME mishaps = {}, Running = {}
                 PROVE  /\ athena.battlestars + athena.spent = season.due
                        /\ common.paid = season.bought /\ athena.sold = common.given
                        /\ season.earned = common.earned
    BY DEF RecordsAgree
  <2>2. Books(At("done")) /\ At("done").step = "done"
    BY <1>1, <2>1, IdleRequest DEF ProgressInv, AtWork
  <2>. QED  BY <1>1, <2>1, <2>2, NothingOut, RecordType DEF Books
<1>. QED  BY <1>1, ProgressInvariance, PTL
-----------------------------------------------------------------------------
(* The phases of the match. *)

USE TimesAssumption, ZonesAssumption, UnsetAssumption

\* The step of t is that of s or the next one.
InOrder(s, t) ==
  \/ t.step = s.step /\ t.zone = s.zone
  \/ Rank(t.step, t.zone) = Rank(s.step, s.zone) + 1

\* What is proved of every part of the tick.
Keeps(s, t) == Sound(t) /\ t.skips = s.skips /\ (s.skips \/ InOrder(s, t))

(* The three parts of the tick that return. *)
LEMMA CountdownKeeps ==
  ASSUME NEW s, Sound(s), ~ s.skips
  PROVE  /\ GetsReady(s) => Keeps(s, MadeReady(s))
         /\ TakesOff(s) => Keeps(s, TakenOff(s))
         /\ Unlocks(s) => Keeps(s, Unlocked(s))
PROOF
<1>1. s \in Match /\ WithFlight(s)
  BY DEF Sound
<1>2. ASSUME GetsReady(s) PROVE Keeps(s, MadeReady(s))
  <2>. DEFINE t == MadeReady(s)
  <2>1. t \in Match
    BY <1>1 DEF Match, MadeReady, Statics, Steps
  <2>2. WithFlight(t) /\ t.skips = s.skips
    BY <1>1, <1>2 DEF Match, MadeReady, WithFlight, GetsReady, NoneAboard
  <2>3. InOrder(s, t)
    BY <1>1, <1>2 DEF Match, MadeReady, WithFlight, GetsReady, InOrder, Rank
  <2>. QED  BY <2>1, <2>2, <2>3 DEF Keeps, Sound
<1>3. ASSUME TakesOff(s) PROVE Keeps(s, TakenOff(s))
  <2>. DEFINE t == TakenOff(s)
  <2>1. t \in Match
    BY <1>1 DEF Match, TakenOff, Steps, Phases, Moved, Deadlines
  <2>2. WithFlight(t) /\ t.skips = s.skips
    BY <1>1, <1>3, MapAssumption DEF Match, TakenOff, WithFlight, TakesOff, Deadlines
  <2>3. InOrder(s, t)
    BY <1>1, <1>3 DEF Match, TakenOff, WithFlight, TakesOff, InOrder, Rank
  <2>. QED  BY <2>1, <2>2, <2>3 DEF Keeps, Sound
<1>4. ASSUME Unlocks(s) PROVE Keeps(s, Unlocked(s))
  <2>. DEFINE t == Unlocked(s)
  <2>1. t \in Match
    BY <1>1 DEF Match, Unlocked, Statics, Steps
  <2>2. WithFlight(t) /\ t.skips = s.skips
    BY <1>1, <1>4 DEF Match, Unlocked, WithFlight, Unlocks
  <2>3. InOrder(s, t)
    BY <1>1, <1>4 DEF Match, Unlocked, WithFlight, Unlocks, InOrder, Rank
  <2>. QED  BY <2>1, <2>2, <2>3 DEF Keeps, Sound
<1>. QED  BY <1>2, <1>3, <1>4

(* The part of the tick that may fall through to the zones: when the storm *)
(* forms, no zone can form in the same frame.                              *)
LEMMA FlownKeeps ==
  ASSUME NEW s, Sound(s), ~ (~ s.skips /\ Unlocks(s))
  PROVE  LET t == Flown(s)
         IN  /\ Keeps(s, t)
             /\ t # s => ~ FormsZone(t) /\ "formedZone" \notin t.done
PROOF
<1>. DEFINE t == Flown(s)
<1>1. s \in Match
  BY DEF Sound
<1>2. CASE s.skips /\ "finishedFlight" \notin s.done
  <2>1. t = Skipped(s)
    BY <1>1, <1>2 DEF Flown
  <2>2. t \in Match
    <3>1. Skipped(s) \in Match
      BY <1>1 DEF Match, Skipped, Statics, Steps, Phases
    <3>. QED  BY <2>1, <3>1
  <2>3. WithoutFlight(s)
    BY <1>2 DEF Sound
  <2>4. t.skips = s.skips /\ t.where = s.where /\ t.left = s.left
        /\ t.done = s.done \union {"finishedFlight"} /\ t.phase = "SafeZones"
    BY <1>1, <2>1 DEF Match, Skipped
  <2>5. WithoutFlight(t)
    BY <2>3, <2>4 DEF WithoutFlight, NoneAboard
  <2>6. ~ FormsZone(t) /\ "formedZone" \notin t.done
    BY <2>3, <2>4, <2>5 DEF WithoutFlight, FormsZone, Due
  <2>. QED  BY <1>2, <2>2, <2>4, <2>5, <2>6 DEF Keeps, Sound
<1>3. CASE ~ s.skips /\ Forms(s)
  <2>1. t = Formed(s)
    BY <1>1, <1>3 DEF Flown
  <2>2. t \in Match
    <3>1. Formed(s) \in Match
      BY <1>1 DEF Match, Formed, Statics, Steps, Phases, Moved, Deadlines
    <3>. QED  BY <2>1, <3>1
  <2>3. WithFlight(s)
    BY <1>3 DEF Sound
  <2>4. /\ t.skips = s.skips /\ t.done = s.done \union {"startedForming"}
        /\ t.phase = "SafeZones" /\ t.step = "StormForming" /\ t.zone = s.zone
        /\ t.left = [s.left EXCEPT !["zones"] = ZoneDelay] /\ t.aircraft = s.aircraft
        /\ t.socket = s.socket /\ t.where = Moved(s.where, {"aircraft"}, "ground")
    BY <1>1, <2>1 DEF Match, Formed
  <2>5. s.phase = "Aircraft" /\ s.left["dropStart"] = 0 /\ Alive(s) # {}
    BY <1>3, <2>3 DEF Forms, Due, WithFlight
  <2>6. "busUnlocked" \in s.done
    BY <1>3, <2>5 DEF Unlocks, Due
  <2>7. NoneAboard(t)
    BY <2>4 DEF NoneAboard, Moved
  <2>8. t.left["zones"] = ZoneDelay /\ t.left["warmup"] = s.left["warmup"]
    BY <1>1, <2>4 DEF Match, Deadlines
  <2>9. "formedZone" \notin t.done /\ "bUpdatedPhase" \notin t.done
    BY <2>3, <2>4, <2>5 DEF WithFlight
  <2>10. WithFlight(t)
    BY <2>3, <2>4, <2>5, <2>7, <2>8, <2>9 DEF WithFlight
  <2>11. ~ FormsZone(t)
    BY <2>8, MapAssumption DEF FormsZone, Due
  <2>12. s.step = "BusFlying"
    BY <2>3, <2>5, <2>6 DEF WithFlight
  <2>13. InOrder(s, t)
    BY <2>4, <2>12 DEF InOrder, Rank
  <2>. QED  BY <1>3, <2>2, <2>4, <2>9, <2>10, <2>11, <2>13 DEF Keeps, Sound
<1>4. CASE t = s
  BY <1>4 DEF Keeps, InOrder
<1>. QED  BY <1>2, <1>3, <1>4 DEF Flown

(* The end of the flight changes neither step nor zone. *)
LEMMA LandedKeeps ==
  ASSUME NEW s, Sound(s), s.phase = "SafeZones"
  PROVE  LET t == Landed(s)
         IN  /\ Sound(t) /\ t.skips = s.skips /\ t.phase = s.phase /\ t.step = s.step
             /\ t.zone = s.zone /\ FormsZone(t) = FormsZone(s)
             /\ ("formedZone" \in t.done) = ("formedZone" \in s.done)
PROOF
<1>. DEFINE u == [s EXCEPT !.done = @ \union {"finishedFlight"}, !.aircraft = FALSE]
<1>1. s \in Match
  BY DEF Sound
<1>2. u \in Match
  BY <1>1 DEF Match, Statics
<1>3. /\ u.skips = s.skips /\ u.phase = s.phase /\ u.step = s.step /\ u.zone = s.zone
      /\ u.left = s.left /\ u.where = s.where /\ u.socket = s.socket
      /\ u.done = s.done \union {"finishedFlight"}
  BY <1>1 DEF Match
<1>4. FormsZone(u) = FormsZone(s)
  BY <1>3 DEF FormsZone, Due, Alive
<1>. HIDE DEF u
<1>5. Landed(s) = u \/ Landed(s) = s
  BY DEF Landed, u
<1>6. ("formedZone" \in u.done) = ("formedZone" \in s.done)
  BY <1>3
<1>7. CASE s.skips
  <2>1. WithoutFlight(u)
    BY <1>3, <1>7 DEF Sound, WithoutFlight, NoneAboard
  <2>. QED  BY <1>2, <1>3, <1>4, <1>5, <1>6, <1>7, <2>1 DEF Sound
<1>8. CASE ~ s.skips
  <2>1. WithFlight(u)
    BY <1>3, <1>8 DEF Sound, WithFlight, NoneAboard
  <2>. QED  BY <1>2, <1>3, <1>4, <1>5, <1>6, <1>8, <2>1 DEF Sound
<1>. QED  BY <1>7, <1>8

(* A zone that exists starts with its two deadlines.                       *)
LEMMA NewPhase ==
  ASSUME NEW s \in Match, NEW z \in 0 .. Zones - 1
  PROVE  LET t == StartNewSafeZonePhase(s, z)
         IN  /\ t \in Match /\ t.skips = s.skips /\ t.phase = s.phase /\ t.socket = s.socket
             /\ t.where = s.where /\ t.aircraft = s.aircraft /\ t.done = s.done
             /\ t.zone = z /\ t.step = "StormHolding" /\ t.left["warmup"] = s.left["warmup"]
             /\ t.left["shrink"] = Wait /\ t.left["shrunk"] = Wait + Shrink
PROOF
<1>. DEFINE t == StartNewSafeZonePhase(s, z)
            l == [s.left EXCEPT !["shrink"] = Wait, !["shrunk"] = Wait + Shrink]
<1>1. s.left \in [Deadlines -> Nat \union {Unset}]
  BY DEF Match
<1>2. /\ l \in [Deadlines -> Nat \union {Unset}] /\ l["warmup"] = s.left["warmup"]
      /\ l["shrink"] = Wait /\ l["shrunk"] = Wait + Shrink
  BY <1>1 DEF Deadlines
<1>3. t = [s EXCEPT !.left = l, !.zone = z, !.step = "StormHolding"]
  BY DEF StartNewSafeZonePhase
<1>4. /\ t.skips = s.skips /\ t.phase = s.phase /\ t.socket = s.socket /\ t.where = s.where
      /\ t.aircraft = s.aircraft /\ t.done = s.done /\ t.zone = z
      /\ t.step = "StormHolding" /\ t.left = l
  BY <1>3 DEF Match
<1>5. t \in Match
  BY <1>2, <1>3 DEF Match, Steps
<1>. QED  BY <1>2, <1>4, <1>5

(* The safe zones: each is held, shrinks and gives way to the next. *)
LEMMA ZonedKeeps ==
  ASSUME NEW s, Sound(s), s.phase = "SafeZones"
  PROVE  Keeps(s, Zoned(s))
PROOF
<1>1. s \in Match
  BY DEF Sound
<1>2. CASE s.skips
  <2>1. WithoutFlight(s)
    BY <1>2 DEF Sound
  <2>2. ~ FormsZone(s) /\ "formedZone" \notin s.done
    BY <2>1 DEF WithoutFlight, FormsZone, Due
  <2>3. Zoned(s) = s
    BY <2>2 DEF Zoned
  <2>. QED  BY <1>2, <2>3 DEF Keeps
<1>3. CASE ~ s.skips
  <2>1. WithFlight(s)
    BY <1>3 DEF Sound
  <2>2. CASE FormsZone(s)
    <3>. DEFINE t == FormedZone(s)
    <3>1. /\ t \in Match /\ t.skips = s.skips /\ t.phase = s.phase /\ t.socket = s.socket
          /\ t.where = s.where /\ t.aircraft = s.aircraft
          /\ t.done = s.done \union {"formedZone"} /\ t.zone = 1 /\ t.step = "StormHolding"
          /\ t.left["warmup"] = s.left["warmup"]
          /\ t.left["shrink"] = Wait /\ t.left["shrunk"] = Wait + Shrink
      <4>. DEFINE l == [s.left EXCEPT !["shrink"] = 0, !["shrunk"] = 0]
                  v == [s EXCEPT !.done = @ \union {"formedZone"}, !.left = l]
      <4>1. l \in [Deadlines -> Nat \union {Unset}] /\ l["warmup"] = s.left["warmup"]
        BY <1>1 DEF Match, Deadlines
      <4>2. v \in Match
        BY <1>1, <4>1 DEF Match, Statics
      <4>3. /\ v.skips = s.skips /\ v.phase = s.phase /\ v.socket = s.socket /\ v.where = s.where
            /\ v.aircraft = s.aircraft /\ v.done = s.done \union {"formedZone"} /\ v.left = l
        BY <1>1 DEF Match
      <4>4. t = StartNewSafeZonePhase(v, 1)
        BY DEF FormedZone
      <4>5. 1 \in 0 .. Zones - 1
        BY MapAssumption
      <4>. HIDE DEF l, v, t
      <4>. QED  BY <4>1, <4>2, <4>3, <4>4, <4>5, NewPhase
    <3>2. WithFlight(t)
      BY <2>1, <2>2, <3>1 DEF WithFlight, NoneAboard, FormsZone
    <3>3. InOrder(s, t)
      BY <2>1, <2>2, <3>1 DEF InOrder, Rank, WithFlight, FormsZone
    <3>. QED  BY <1>3, <2>2, <3>1, <3>2, <3>3 DEF Keeps, Sound, Zoned
  <2>3. CASE ~ FormsZone(s) /\ "formedZone" \notin s.done
    BY <2>3 DEF Zoned, Keeps, InOrder
  <2>4. CASE ~ FormsZone(s) /\ "formedZone" \in s.done /\ Shrinks(s)
    <3>. DEFINE t == Shrinking(s)
    <3>1. /\ t \in Match /\ t.skips = s.skips /\ t.phase = s.phase /\ t.socket = s.socket
          /\ t.where = s.where /\ t.aircraft = s.aircraft /\ t.zone = s.zone /\ t.left = s.left
          /\ t.done = s.done \union {"bUpdatedPhase"} /\ t.step = "StormShrinking"
      BY <1>1 DEF Shrinking, Match, Statics, Steps
    <3>2. WithFlight(t)
      BY <2>1, <2>4, <3>1 DEF WithFlight, NoneAboard, Shrinks
    <3>3. InOrder(s, t)
      BY <1>1, <2>1, <2>4, <3>1 DEF InOrder, Rank, WithFlight, Shrinks, Match
    <3>. QED  BY <1>3, <2>4, <3>1, <3>2, <3>3 DEF Keeps, Sound, Zoned
  <2>5. CASE /\ ~ FormsZone(s) /\ "formedZone" \in s.done /\ ~ Shrinks(s)
             /\ s.left["shrunk"] = 0 /\ s.zone + 1 < Zones
    <3>. DEFINE t == NextZone(s)
    <3>1. /\ t \in Match /\ t.skips = s.skips /\ t.phase = s.phase /\ t.socket = s.socket
          /\ t.where = s.where /\ t.aircraft = s.aircraft /\ t.zone = s.zone + 1
          /\ t.done = s.done \ {"bUpdatedPhase"} /\ t.step = "StormHolding"
          /\ t.left["warmup"] = s.left["warmup"]
          /\ t.left["shrink"] = Wait /\ t.left["shrunk"] = Wait + Shrink
      <4>. DEFINE v == StartNewSafeZonePhase(s, s.zone + 1)
      <4>1. s.zone + 1 \in 0 .. Zones - 1
        BY <1>1, <2>5 DEF Match
      <4>2. /\ v \in Match /\ v.skips = s.skips /\ v.phase = s.phase /\ v.socket = s.socket
            /\ v.where = s.where /\ v.aircraft = s.aircraft /\ v.done = s.done
            /\ v.zone = s.zone + 1 /\ v.step = "StormHolding"
            /\ v.left["warmup"] = s.left["warmup"]
            /\ v.left["shrink"] = Wait /\ v.left["shrunk"] = Wait + Shrink
        BY <1>1, <4>1, NewPhase
      <4>. HIDE DEF v
      <4>3. t = [v EXCEPT !.done = @ \ {"bUpdatedPhase"}]
        BY <2>5 DEF NextZone, v
      <4>4. [v EXCEPT !.done = @ \ {"bUpdatedPhase"}] \in Match
        BY <4>2 DEF Match
      <4>5. /\ t.skips = v.skips /\ t.phase = v.phase /\ t.socket = v.socket /\ t.where = v.where
            /\ t.aircraft = v.aircraft /\ t.zone = v.zone /\ t.left = v.left
            /\ t.done = v.done \ {"bUpdatedPhase"} /\ t.step = v.step
        BY <4>2, <4>3 DEF Match
      <4>. HIDE DEF t
      <4>. QED  BY <4>2, <4>3, <4>4, <4>5
    <3>2. "bUpdatedPhase" \in s.done
      BY <2>1, <2>5 DEF WithFlight, Shrinks
    <3>3. WithFlight(t)
      BY <1>1, <2>1, <2>5, <3>1 DEF WithFlight, NoneAboard, Match
    <3>4. InOrder(s, t)
      BY <1>1, <2>1, <2>5, <3>1, <3>2 DEF InOrder, Rank, WithFlight, Match
    <3>. QED  BY <1>3, <2>5, <3>1, <3>3, <3>4 DEF Keeps, Sound, Zoned
  <2>6. CASE /\ ~ FormsZone(s) /\ "formedZone" \in s.done /\ ~ Shrinks(s)
             /\ ~ (s.left["shrunk"] = 0 /\ s.zone + 1 < Zones)
    BY <2>6 DEF Zoned, NextZone, Keeps, InOrder
  <2>. QED  BY <2>2, <2>3, <2>4, <2>5, <2>6
<1>. QED  BY <1>2, <1>3

(* A whole tick. *)
LEMMA TickedKeeps ==
  ASSUME NEW s, Sound(s)
  PROVE  Keeps(s, Ticked(s))
PROOF
<1>. DEFINE t == Flown(s)
            u == IF t.phase = "SafeZones" THEN Zoned(Landed(t)) ELSE t
<1>1. CASE ~ s.skips /\ (GetsReady(s) \/ TakesOff(s) \/ Unlocks(s))
  BY <1>1, CountdownKeeps DEF Ticked
<1>2. CASE ~ (~ s.skips /\ (GetsReady(s) \/ TakesOff(s) \/ Unlocks(s)))
  <2>1. Keeps(s, t) /\ (t # s => ~ FormsZone(t) /\ "formedZone" \notin t.done)
    BY <1>2, FlownKeeps
  <2>2. Keeps(s, u)
    <3>1. CASE t.phase # "SafeZones"
      BY <2>1, <3>1
    <3>2. CASE t.phase = "SafeZones"
      <4>. DEFINE v == Landed(t)
      <4>1. /\ Sound(v) /\ v.skips = t.skips /\ v.phase = t.phase /\ v.step = t.step
            /\ v.zone = t.zone /\ FormsZone(v) = FormsZone(t)
            /\ ("formedZone" \in v.done) = ("formedZone" \in t.done)
        BY <2>1, <3>2, LandedKeeps DEF Keeps
      <4>2. Keeps(v, Zoned(v))
        BY <3>2, <4>1, ZonedKeeps
      <4>3. CASE t = s
        BY <3>2, <4>1, <4>2, <4>3 DEF Keeps, InOrder
      <4>4. CASE t # s
        <5>1. Zoned(v) = v
          BY <2>1, <4>1, <4>4 DEF Zoned
        <5>. QED  BY <2>1, <3>2, <4>1, <5>1 DEF Keeps, InOrder
      <4>. QED  BY <4>3, <4>4
    <3>. QED  BY <3>1, <3>2
  <2>3. Ticked(s) = Closed(u)
    BY <1>2 DEF Ticked
  <2>4. Keeps(s, Closed(u))
    <3>. DEFINE w == [u EXCEPT !.over = TRUE]
    <3>1. u \in Match /\ u.skips = s.skips
      BY <2>2 DEF Keeps, Sound
    <3>2. /\ w \in Match /\ w.skips = u.skips /\ w.phase = u.phase /\ w.step = u.step
          /\ w.zone = u.zone /\ w.left = u.left /\ w.done = u.done /\ w.where = u.where
          /\ w.socket = u.socket /\ w.aircraft = u.aircraft
      BY <3>1 DEF Match
    <3>3. Sound(w)
      BY <2>2, <3>2 DEF Keeps, Sound, WithFlight, WithoutFlight, NoneAboard
    <3>4. Keeps(s, w)
      BY <2>2, <3>2, <3>3 DEF Keeps, InOrder
    <3>. QED  BY <2>2, <3>4 DEF Closed
  <2>. QED  BY <2>3, <2>4
<1>. QED  BY <1>1, <1>2
-----------------------------------------------------------------------------
(* What becomes of the variables.                                          *)
LEMMA BecomesNow ==
  ASSUME NEW s \in Match, s.skips = skips, Becomes(s)
  PROVE  Now' = s
PROOF
<1>1. /\ skips' = s.skips /\ phase' = s.phase /\ step' = s.step /\ left' = s.left
      /\ done' = s.done /\ aircraft' = s.aircraft /\ locked' = s.locked /\ zone' = s.zone
      /\ socket' = s.socket /\ where' = s.where /\ over' = s.over
  BY DEF Becomes
<1>. QED  BY <1>1 DEF Match, Now

(* A frame of any length. *)
LEMMA TickSound ==
  ASSUME IInv, NEW n \in 0 .. MaxFrame, Tick(n)
  PROVE  IInv' /\ skips' = skips /\ (skips \/ InOrder(Now, Now'))
PROOF
<1>. DEFINE l == Elapsed(n)
            s == [Now EXCEPT !.left = l]
            t == Ticked(s)
<1>1. Now \in Match /\ Now.left = left /\ Now.skips = skips /\ n \in Nat
  BY DEF IInv, Sound, Now
<1>2. left \in [Deadlines -> Nat \union {Unset}]
  BY <1>1 DEF Match
<1>3. /\ l \in [Deadlines -> Nat \union {Unset}]
      /\ \A d \in Deadlines : (l[d] = Unset) = (left[d] = Unset)
      /\ \A d \in Deadlines : left[d] \in Nat => l[d] \in Nat
      /\ \A d, e \in Deadlines : left[d] \in Nat /\ left[e] \in Nat /\ left[d] <= left[e]
                                   => l[d] <= l[e]
  BY <1>1, <1>2 DEF Elapsed
<1>. HIDE DEF l
<1>4. s \in Match
  BY <1>1, <1>3 DEF Match
<1>5. /\ s.skips = Now.skips /\ s.phase = Now.phase /\ s.step = Now.step /\ s.done = Now.done
      /\ s.aircraft = Now.aircraft /\ s.zone = Now.zone /\ s.socket = Now.socket
      /\ s.where = Now.where /\ s.left = l
  BY <1>1 DEF Match
<1>. HIDE DEF s
<1>6. {"warmup", "zones", "dropStart", "dropEnd", "shrink", "shrunk"} \subseteq Deadlines
  BY DEF Deadlines
<1>7. ASSUME skips PROVE Sound(s)
  <2>1. WithoutFlight(Now)
    BY <1>1, <1>7 DEF IInv, Sound
  <2>2. WithoutFlight(s)
    BY <1>1, <1>3, <1>5, <1>6, <2>1 DEF WithoutFlight, NoneAboard
  <2>. QED  BY <1>1, <1>4, <1>5, <1>7, <2>2 DEF Sound
<1>8. ASSUME ~ skips PROVE Sound(s)
  <2>1. WithFlight(Now)
    BY <1>1, <1>8 DEF IInv, Sound
  <2>2. WithFlight(s)
    BY <1>1, <1>3, <1>5, <1>6, <2>1 DEF WithFlight, NoneAboard
  <2>. QED  BY <1>1, <1>4, <1>5, <1>8, <2>2 DEF Sound
<1>9. Sound(s)
  BY <1>7, <1>8
<1>10. Keeps(s, t)
  BY <1>9, TickedKeeps
<1>11. t \in Match /\ t.skips = skips
  BY <1>1, <1>5, <1>10 DEF Keeps, Sound
<1>12. Becomes(t)
  BY DEF Tick, s, l
<1>13. Now' = t
  BY <1>11, <1>12, BecomesNow
<1>14. skips' = skips
  BY <1>12 DEF Becomes
<1>. QED  BY <1>1, <1>5, <1>10, <1>13, <1>14 DEF Keeps, InOrder, IInv

(* The engine between two frames. *)
LEMMA EngineSound ==
  ASSUME IInv, MatchStarts \/ MatchEnds \/ \E p \in Players : Join(p) \/ Leave(p) \/ Jump(p) \/ Die(p)
  PROVE  IInv' /\ (skips \/ InOrder(Now, Now') \/ (step' = "EndGame" /\ step # "EndGame"))
PROOF
<1>1. /\ Now \in Match /\ skips \in BOOLEAN
      /\ left \in [Deadlines -> Nat \union {Unset}] /\ zone \in 0 .. Zones - 1
      /\ where \in [Players -> {"out", "ground", "aircraft", "dead"}]
  BY DEF IInv, Sound, Match, Now
<1>2. (skips => WithoutFlight(Now)) /\ (~ skips => WithFlight(Now))
  BY <1>1 DEF IInv, Sound, Now
<1>3. CASE MatchStarts
  <2>1. Now' \in Match
    BY <1>1, <1>3 DEF Match, Now, MatchStarts, Phases, Steps, Deadlines
  <2>2. "zones" \in Deadlines /\ "warmup" \in Deadlines /\ Countdown # Unset
    BY DEF Deadlines
  <2>3. skips => WithoutFlight(Now)'
    BY <1>1, <1>2, <1>3, <2>2 DEF WithoutFlight, NoneAboard, Now, MatchStarts
  <2>4. ~ skips => phase = "Setup" /\ step = "Setup" /\ zone = 0 /\ done = {} /\ NoneAboard(Now)
    BY <1>2, <1>3 DEF WithFlight, Now, MatchStarts
  <2>5. ~ skips => WithFlight(Now)'
    BY <1>1, <1>3, <2>2, <2>4 DEF WithFlight, NoneAboard, Now, MatchStarts
  <2>6. ~ skips => InOrder(Now, Now')
    BY <1>3, <2>4 DEF InOrder, Rank, Now, MatchStarts
  <2>. QED  BY <1>1, <1>3, <2>1, <2>3, <2>5, <2>6 DEF IInv, Sound, Now, MatchStarts
<1>4. CASE MatchEnds
  <2>1. Now' \in Match
    BY <1>1, <1>4 DEF Match, Now, MatchEnds, Phases, Steps
  <2>2. skips => WithoutFlight(Now)'
    BY <1>2, <1>4 DEF WithoutFlight, NoneAboard, Now, MatchEnds
  <2>3. ~ skips => WithFlight(Now)' /\ step # "EndGame"
    BY <1>2, <1>4 DEF WithFlight, NoneAboard, Now, MatchEnds
  <2>. QED  BY <1>1, <1>4, <2>1, <2>2, <2>3 DEF IInv, Sound, Now, MatchEnds
<1>5. ASSUME NEW p \in Players, Join(p) \/ Leave(p) \/ Jump(p) \/ Die(p)
      PROVE  IInv' /\ InOrder(Now, Now')
  <2>1. /\ skips' = skips /\ phase' = phase /\ step' = step /\ left' = left /\ done' = done
        /\ aircraft' = aircraft /\ locked' = locked /\ zone' = zone /\ socket' = socket
        /\ over' = over
    BY <1>5 DEF Join, Leave, Jump, Die
  <2>2. PICK w \in {"out", "ground", "dead"} : where' = [where EXCEPT ![p] = w]
    BY <1>5 DEF Join, Leave, Jump, Die
  <2>3. where' \in [Players -> {"out", "ground", "aircraft", "dead"}]
    BY <1>1, <2>2
  <2>4. Now' \in Match
    BY <1>1, <2>1, <2>3 DEF Match, Now
  <2>5. NoneAboard(Now) => NoneAboard(Now)'
    BY <1>1, <2>2 DEF NoneAboard, Now
  <2>6. skips => WithoutFlight(Now)'
    BY <1>2, <2>1, <2>5 DEF WithoutFlight, Now
  <2>7. ~ skips => WithFlight(Now)'
    BY <1>2, <2>1, <2>5 DEF WithFlight, Now
  <2>. QED  BY <1>1, <2>1, <2>4, <2>6, <2>7 DEF IInv, Sound, InOrder, Now
<1>. QED  BY <1>3, <1>4, <1>5

LEMMA InitSound ==
  ASSUME Init
  PROVE  IInv
PROOF
<1>1. Now \in Match
  <2>1. left \in [Deadlines -> Nat \union {Unset}]
    BY DEF Init
  <2>2. where \in [Players -> {"out", "ground", "aircraft", "dead"}]
    BY DEF Init
  <2>3. zone \in 0 .. Zones - 1
    BY DEF Init
  <2>4. done \in SUBSET Statics
    BY DEF Init
  <2>. QED  BY <2>1, <2>2, <2>3, <2>4 DEF Init, Now, Match, Phases, Steps
<1>2. WithFlight(Now) /\ WithoutFlight(Now)
  BY DEF Init, Now, WithFlight, WithoutFlight, NoneAboard, Deadlines
<1>. QED  BY <1>1, <1>2 DEF IInv, Sound

LEMMA StepSound ==
  ASSUME IInv, [Next]_vars
  PROVE  /\ IInv'
         /\ skips \/ InOrder(Now, Now') \/ (step' = "EndGame" /\ step # "EndGame")
PROOF
<1>1. CASE UNCHANGED vars
  BY <1>1 DEF vars, IInv, Now, InOrder
<1>2. ASSUME NEW n \in 0 .. MaxFrame, Tick(n)
      PROVE  IInv' /\ (skips \/ InOrder(Now, Now'))
  BY <1>2, TickSound
<1>3. ASSUME MatchStarts \/ MatchEnds \/ \E p \in Players : Join(p) \/ Leave(p) \/ Jump(p) \/ Die(p)
      PROVE  IInv' /\ (skips \/ InOrder(Now, Now') \/ (step' = "EndGame" /\ step # "EndGame"))
  BY <1>3, EngineSound
<1>. QED  BY <1>1, <1>2, <1>3 DEF Next
-----------------------------------------------------------------------------
(* Where a match is determines its step, its statics and who may be aboard, *)
(* for any players, lengths and number of zones.                            *)
THEOREM Invariance == Spec => []IInv
PROOF
<1>1. Init => IInv
  BY InitSound
<1>2. IInv /\ [Next]_vars => IInv'
  BY StepSound
<1>. QED  BY <1>1, <1>2, PTL DEF Spec

(* The state of a match has its type, whatever the frames and the players do. *)
THEOREM TypeCorrect == Spec => []TypeOK
PROOF
<1>1. IInv => TypeOK
  BY DEF IInv, Sound, TypeOK
<1>. QED  BY <1>1, Invariance, PTL

(* Nobody is aboard once the storm forms or the aircraft has gone. *)
THEOREM NobodyLeftAboard == Spec => []NobodyAboard
PROOF
<1>1. IInv => NobodyAboard
  BY DEF IInv, Sound, Match, Now, NobodyAboard, NoneAboard, WithFlight, WithoutFlight
<1>. QED  BY <1>1, Invariance, PTL

(* The tick never indexes an empty list of aircraft. *)
THEOREM AircraftIndexed == Spec => []AircraftThere
PROOF
<1>1. IInv => AircraftThere
  BY DEF IInv, Sound, Match, Now, AircraftThere, WithFlight, WithoutFlight
<1>. QED  BY <1>1, Invariance, PTL

(* The matchmaker is told before anybody boards. *)
THEOREM MatchmakerTold == Spec => []ClosedBeforeFlight
PROOF
<1>1. IInv => ClosedBeforeFlight
  BY DEF IInv, Sound, Match, Now, ClosedBeforeFlight, WithFlight, WithoutFlight
<1>. QED  BY <1>1, Invariance, PTL

(* No frame, however late, skips a step of a match with a flight. *)
THEOREM NoStepSkipped == Spec => StepsInOrder
PROOF
<1>1. IInv /\ [Next]_vars =>
        [skips \/ Rank(step', zone') = Rank(step, zone) + 1
           \/ (step' = "EndGame" /\ step # "EndGame")]_<<step, zone>>
  <2>. SUFFICES ASSUME IInv, [Next]_vars
                PROVE  [skips \/ Rank(step', zone') = Rank(step, zone) + 1
                          \/ (step' = "EndGame" /\ step # "EndGame")]_<<step, zone>>
    OBVIOUS
  <2>1. skips \/ InOrder(Now, Now') \/ (step' = "EndGame" /\ step # "EndGame")
    BY StepSound
  <2>2. InOrder(Now, Now') =>
          <<step, zone>>' = <<step, zone>> \/ Rank(step', zone') = Rank(step, zone) + 1
    BY DEF InOrder, Now
  <2>. QED  BY <2>1, <2>2
<1>. QED  BY <1>1, Invariance, PTL DEF Spec, StepsInOrder
=============================================================================
