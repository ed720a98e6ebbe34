------------------------- MODULE LoyaltyPointsProofs -------------------------
(***************************************************************************)
(* What TLAPS proves of LoyaltyPoints, for any number of orders, records   *)
(* and requests and any points and prices: the points of every award are   *)
(* on the records, and they are the oldest.  Redeeming is paying from a    *)
(* queue: the queue is the usable records that have points left, and the   *)
(* price is covered because the request saw enough points.  The facts      *)
(* about totals and queues it cites come first; PrepaidTablesTheorems has  *)
(* them, and more, for the prepaid tables, which share no state with the   *)
(* records.                                                                *)
(***************************************************************************)
EXTENDS LoyaltyPoints, WellFoundedInduction, FiniteSetTheorems, TLAPS

-----------------------------------------------------------------------------
(* Totals *)

\* s is a table of running totals of a.
Sums(s, a, n) == s = [i \in 0..n |-> IF i = 0 THEN 0 ELSE s[i - 1] + a[i]]

\* A set of numbers has a least member.
LEMMA LeastMember ==
    ASSUME NEW T \in SUBSET Nat, T # {}
    PROVE  \E m \in T : \A k \in T : m <= k
<1>1. PICK m \in T : \A k \in T : ~(<<k, m>> \in OpToRel(<, Nat))
  BY WFMin, NatLessThanWellFounded
<1>2. \A k \in T : ~(k < m)
  BY <1>1 DEF OpToRel
<1> QED BY <1>2

\* A function as the recursive definition asks for exists.
LEMMA RunningTotalExists ==
    ASSUME NEW n \in Nat, NEW a \in [1..n -> Int]
    PROVE  \E s \in [0..n -> Int] : Sums(s, a, n)
<1> DEFINE Upto(k, s) == s[0] = 0 /\ \A i \in 1..k : s[i] = s[i - 1] + a[i]
           Good == {k \in 0..n : \E s \in [0..k -> Int] : Upto(k, s)}
           Bad == (0..n) \ Good
<1>1. 0 \in Good
  <2> DEFINE z == [i \in 0..0 |-> 0]
  <2>1. z \in [0..0 -> Int]
    OBVIOUS
  <2>2. Upto(0, z)
    BY DEF Upto
  <2> HIDE DEF z, Upto
  <2> QED BY <2>1, <2>2
<1>2. ASSUME NEW k \in 0..n, k # 0, k - 1 \in Good
      PROVE  k \in Good
  <2>1. PICK s \in [0..(k - 1) -> Int] : Upto(k - 1, s)
    BY <1>2
  <2> DEFINE g == [i \in 0..k |-> IF i = k THEN s[k - 1] + a[k] ELSE s[i]]
  <2>2. g \in [0..k -> Int]
    BY <1>2
  <2>3. g[0] = 0
    BY <1>2, <2>1
  <2>4. ASSUME NEW i \in 1..k PROVE g[i] = g[i - 1] + a[i]
    <3>1. CASE i = k
      <4>1. g[k] = s[k - 1] + a[k]
        OBVIOUS
      <4>2. g[k - 1] = s[k - 1]
        BY <1>2
      <4> QED BY <3>1, <4>1, <4>2
    <3>2. CASE i # k
      <4>1. i \in 1..(k - 1) /\ i \in 0..k /\ i - 1 \in 0..k /\ i - 1 # k
        BY <3>2
      <4>2. g[i] = s[i] /\ g[i - 1] = s[i - 1]
        BY <4>1, <3>2
      <4>3. s[i] = s[i - 1] + a[i]
        BY <4>1, <2>1
      <4> QED BY <4>2, <4>3
    <3> QED BY <3>1, <3>2
  <2>5. Upto(k, g)
    BY <2>3, <2>4
  <2> HIDE DEF Upto, g
  <2> QED BY <2>2, <2>5
<1>3. Bad = {}
  <2>1. SUFFICES ASSUME Bad # {} PROVE FALSE
    OBVIOUS
  <2>a. Bad \in SUBSET Nat
    OBVIOUS
  <2>2. PICK m \in Bad : \A k \in Bad : m <= k
    <3> HIDE DEF Bad
    <3> QED BY <2>1, <2>a, LeastMember
  <2>3. m \in 0..n /\ m # 0 /\ m - 1 \in 0..n
    BY <2>2, <1>1, SMTT(30)
  <2>4. m - 1 \in Good
    <3> HIDE DEF Good
    <3> QED BY <2>2, <2>3
  <2>5. m \in Good
    <3> HIDE DEF Good
    <3> QED BY <2>3, <2>4, <1>2
  <2> QED BY <2>2, <2>5
<1>4. n \in Good
  <2> HIDE DEF Good
  <2> QED BY <1>3
<1>5. PICK s \in [0..n -> Int] : Upto(n, s)
  BY <1>4
<1>6. Sums(s, a, n)
  BY <1>5 DEF Sums
<1> QED BY <1>6

(***************************************************************************)
(* What the recursive definition says, now that a function like it exists. *)
(***************************************************************************)
LEMMA RunningTotalDef ==
    ASSUME NEW n \in Nat, NEW a \in [1..n -> Int]
    PROVE  /\ RunningTotal(a, n) \in [0..n -> Int]
           /\ RunningTotal(a, n)[0] = 0
           /\ \A i \in 1..n :
                 RunningTotal(a, n)[i] = RunningTotal(a, n)[i - 1] + a[i]
<1> DEFINE r == RunningTotal(a, n)
           Bad == {i \in 0..n : r[i] \notin Int}
<1>1. Sums(r, a, n)
  BY RunningTotalExists DEF Sums, RunningTotal
<1> HIDE DEF r
<1>2. r[0] = 0 /\ \A i \in 1..n : r[i] = r[i - 1] + a[i]
  BY <1>1 DEF Sums
<1>3. Bad = {}
  <2>1. SUFFICES ASSUME Bad # {} PROVE FALSE
    OBVIOUS
  <2>2. PICK m \in Bad : \A k \in Bad : m <= k
    <3>1. Bad \in SUBSET Nat
      OBVIOUS
    <3> HIDE DEF Bad
    <3> QED BY <2>1, <3>1, LeastMember
  <2>3. m \in 1..n /\ m - 1 \in 0..n
    BY <2>2, <1>2
  <2>4. r[m - 1] \in Int
    BY <2>2, <2>3
  <2>5. r[m] = r[m - 1] + a[m] /\ a[m] \in Int
    BY <2>3, <1>2
  <2> QED BY <2>2, <2>4, <2>5
<1>4. r = [i \in 0..n |-> r[i]]
  BY <1>1 DEF Sums
<1>5. r \in [0..n -> Int]
  BY <1>3, <1>4
<1> QED BY <1>2, <1>5 DEF r

(***************************************************************************)
(* Any function that adds up like the running totals ends in the total.    *)
(***************************************************************************)
LEMMA TotalIs ==
    ASSUME NEW n \in Nat, NEW a \in [1..n -> Int], NEW s \in [0..n -> Int],
           s[0] = 0, \A i \in 1..n : s[i] = s[i - 1] + a[i]
    PROVE  Total(a, n) = s[n]
<1> DEFINE r == RunningTotal(a, n)
           Bad == {i \in 0..n : r[i] # s[i]}
<1>1. r \in [0..n -> Int] /\ r[0] = 0 /\ \A i \in 1..n : r[i] = r[i - 1] + a[i]
  BY RunningTotalDef
<1> HIDE DEF r
<1>2. Bad = {}
  <2>1. SUFFICES ASSUME Bad # {} PROVE FALSE
    OBVIOUS
  <2>2. PICK m \in Bad : \A k \in Bad : m <= k
    <3>1. Bad \in SUBSET Nat
      OBVIOUS
    <3> HIDE DEF Bad
    <3> QED BY <2>1, <3>1, LeastMember
  <2>3. m \in 1..n /\ m - 1 \in 0..n
    BY <2>2, <1>1
  <2>4. r[m - 1] = s[m - 1]
    BY <2>2, <2>3
  <2>5. r[m] = s[m]
    BY <2>3, <2>4, <1>1
  <2> QED BY <2>2, <2>5
<1>3. r[n] = s[n]
  <2>1. n \in 0..n
    OBVIOUS
  <2>2. n \notin Bad
    BY <1>2
  <2> QED BY <2>1, <2>2
<1> QED BY <1>3 DEF Total, r

\* The total of integers is an integer.
LEMMA TotalType ==
    ASSUME NEW n \in Nat, NEW a \in [1..n -> Int]
    PROVE  Total(a, n) \in Int
BY RunningTotalDef DEF Total

(***************************************************************************)
(* Changing one entry by d changes the total by d.                         *)
(***************************************************************************)
LEMMA TotalChangeOne ==
    ASSUME NEW n \in Nat, NEW a \in [1..n -> Int], NEW b \in [1..n -> Int],
           NEW k \in 1..n, NEW d \in Int, b[k] = a[k] + d,
           \A i \in 1..n : i # k => b[i] = a[i]
    PROVE  Total(b, n) = Total(a, n) + d
<1> DEFINE r == RunningTotal(a, n)
           s == [i \in 0..n |-> IF i >= k THEN r[i] + d ELSE r[i]]
<1>1. r \in [0..n -> Int] /\ r[0] = 0 /\ \A i \in 1..n : r[i] = r[i - 1] + a[i]
  BY RunningTotalDef
<1> HIDE DEF r
<1>2. s \in [0..n -> Int] /\ s[0] = 0
  <2>1. ASSUME NEW i \in 0..n PROVE r[i] \in Int /\ r[i] + d \in Int
    <3>1. r[i] \in Int
      BY <1>1
    <3> QED BY <3>1
  <2>2. s \in [0..n -> Int]
    BY <2>1
  <2>3. s[0] = r[0]
    OBVIOUS
  <2> QED BY <1>1, <2>2, <2>3
<1>3. ASSUME NEW i \in 1..n PROVE s[i] = s[i - 1] + b[i]
  <2>0. i \in 0..n /\ i - 1 \in 0..n /\ (i = k => i - 1 < k)
    OBVIOUS
  <2>1. r[i] = r[i - 1] + a[i] /\ r[i] \in Int /\ r[i - 1] \in Int /\ a[i] \in Int
    BY <1>1, <2>0
  <2>2. s[i] = (IF i >= k THEN r[i] + d ELSE r[i])
    BY <2>0
  <2>3. s[i - 1] = (IF i - 1 >= k THEN r[i - 1] + d ELSE r[i - 1])
    BY <2>0
  <2> HIDE DEF s
  <2>4. CASE i = k
    BY <2>1, <2>2, <2>3, <2>4
  <2>5. CASE i # k
    <3>1. b[i] = a[i] /\ (i >= k <=> i - 1 >= k)
      BY <2>5
    <3> QED BY <2>1, <2>2, <2>3, <3>1
  <2> QED BY <2>4, <2>5
<1>4. s[n] = r[n] + d
  OBVIOUS
<1>5. Total(b, n) = s[n]
  <2> HIDE DEF s
  <2> QED BY <1>2, <1>3, TotalIs
<1> QED BY <1>4, <1>5 DEF Total, r

(***************************************************************************)
(* Totals subtract entry by entry.                                         *)
(***************************************************************************)
LEMMA TotalMinus ==
    ASSUME NEW n \in Nat, NEW a \in [1..n -> Int], NEW b \in [1..n -> Int],
           NEW c \in [1..n -> Int], \A i \in 1..n : c[i] = a[i] - b[i]
    PROVE  Total(c, n) = Total(a, n) - Total(b, n)
<1> DEFINE ra == RunningTotal(a, n)
           rb == RunningTotal(b, n)
           s == [i \in 0..n |-> ra[i] - rb[i]]
<1>1. ra \in [0..n -> Int] /\ ra[0] = 0 /\ \A i \in 1..n : ra[i] = ra[i - 1] + a[i]
  BY RunningTotalDef
<1>2. rb \in [0..n -> Int] /\ rb[0] = 0 /\ \A i \in 1..n : rb[i] = rb[i - 1] + b[i]
  BY RunningTotalDef
<1> HIDE DEF ra, rb
<1>3. s \in [0..n -> Int] /\ s[0] = 0
  BY <1>1, <1>2
<1>4. ASSUME NEW i \in 1..n PROVE s[i] = s[i - 1] + c[i]
  <2>0. i \in 0..n /\ i - 1 \in 0..n
    OBVIOUS
  <2>1. ra[i] = ra[i - 1] + a[i] /\ ra[i] \in Int /\ ra[i - 1] \in Int /\ a[i] \in Int
    BY <1>1, <2>0
  <2>2. rb[i] = rb[i - 1] + b[i] /\ rb[i] \in Int /\ rb[i - 1] \in Int /\ b[i] \in Int
    BY <1>2, <2>0
  <2>3. s[i] = ra[i] - rb[i] /\ s[i - 1] = ra[i - 1] - rb[i - 1]
    BY <2>0
  <2>4. c[i] = a[i] - b[i]
    OBVIOUS
  <2> HIDE DEF s
  <2> QED BY <2>1, <2>2, <2>3, <2>4
<1>5. s[n] = ra[n] - rb[n]
  OBVIOUS
<1>6. Total(c, n) = s[n]
  <2> HIDE DEF s
  <2> QED BY <1>3, <1>4, TotalIs
<1> QED BY <1>5, <1>6 DEF Total, ra, rb

(***************************************************************************)
(* A total of entries that are not negative is not negative.               *)
(***************************************************************************)
LEMMA TotalNonNegative ==
    ASSUME NEW n \in Nat, NEW a \in [1..n -> Nat]
    PROVE  Total(a, n) \in Nat
<1> DEFINE r == RunningTotal(a, n)
           Bad == {i \in 0..n : r[i] < 0}
<1>0. a \in [1..n -> Int]
  OBVIOUS
<1>1. r \in [0..n -> Int] /\ r[0] = 0 /\ \A i \in 1..n : r[i] = r[i - 1] + a[i]
  BY <1>0, RunningTotalDef
<1> HIDE DEF r
<1>2. Bad = {}
  <2>1. SUFFICES ASSUME Bad # {} PROVE FALSE
    OBVIOUS
  <2>2. Bad \in SUBSET Nat
    OBVIOUS
  <2>3. PICK m \in Bad : \A k \in Bad : m <= k
    <3> HIDE DEF Bad
    <3> QED BY <2>1, <2>2, LeastMember
  <2>4. m \in 1..n /\ m - 1 \in 0..n
    BY <2>3, <1>1
  <2>5. r[m - 1] >= 0
    BY <2>3, <2>4, <1>1
  <2>6. r[m] = r[m - 1] + a[m] /\ a[m] \in Nat /\ r[m - 1] \in Int
    BY <2>4, <1>1
  <2> QED BY <2>3, <2>5, <2>6
<1>3. r[n] \in Int /\ n \in 0..n
  BY <1>1
<1>4. ~(r[n] < 0)
  BY <1>2, <1>3
<1>5. r[n] \in Nat
  BY <1>3, <1>4
<1> QED BY <1>5 DEF Total, r

(***************************************************************************)
(* A total of nothing is nothing.                                          *)
(***************************************************************************)
LEMMA TotalZero ==
    ASSUME NEW n \in Nat, NEW a \in [1..n -> Int], \A i \in 1..n : a[i] = 0
    PROVE  Total(a, n) = 0
<1> DEFINE s == [i \in 0..n |-> 0]
<1>1. s \in [0..n -> Int] /\ s[0] = 0 /\ s[n] = 0 /\ \A i \in 1..n : s[i] = s[i - 1] + a[i]
  OBVIOUS
<1> HIDE DEF s
<1> QED BY <1>1, TotalIs

(***************************************************************************)
(* Entry by entry no greater, no greater in total.                         *)
(***************************************************************************)
LEMMA TotalMonotone ==
    ASSUME NEW n \in Nat, NEW a \in [1..n -> Int], NEW b \in [1..n -> Int],
           \A i \in 1..n : a[i] <= b[i]
    PROVE  Total(a, n) <= Total(b, n)
<1> DEFINE c == [i \in 1..n |-> b[i] - a[i]]
<1>1. c \in [1..n -> Nat]
  <2>1. ASSUME NEW i \in 1..n PROVE b[i] - a[i] \in Nat
    <3>1. a[i] \in Int /\ b[i] \in Int /\ a[i] <= b[i]
      OBVIOUS
    <3> QED BY <3>1
  <2> QED BY <2>1
<1>2. c \in [1..n -> Int] /\ \A i \in 1..n : c[i] = b[i] - a[i]
  OBVIOUS
<1> HIDE DEF c
<1>3. Total(c, n) \in Nat
  BY <1>1, TotalNonNegative
<1>4. Total(c, n) = Total(b, n) - Total(a, n)
  BY <1>2, TotalMinus
<1>5. Total(a, n) \in Int /\ Total(b, n) \in Int
  BY TotalType
<1> QED BY <1>3, <1>4, <1>5

(***************************************************************************)
(* With one entry x greater, and the others no less, so is the total.      *)
(***************************************************************************)
LEMMA TotalAtLeast ==
    ASSUME NEW n \in Nat, NEW a \in [1..n -> Int], NEW b \in [1..n -> Int],
           NEW k \in 1..n, NEW x \in Int, a[k] + x <= b[k],
           \A i \in 1..n : i # k => a[i] <= b[i]
    PROVE  Total(a, n) + x <= Total(b, n)
<1> DEFINE c == [i \in 1..n |-> IF i = k THEN a[k] + x ELSE a[i]]
<1>1. /\ c \in [1..n -> Int] /\ c[k] = a[k] + x
      /\ \A i \in 1..n : i # k => c[i] = a[i]
      /\ \A i \in 1..n : c[i] <= b[i]
  OBVIOUS
<1> HIDE DEF c
<1>2. Total(c, n) = Total(a, n) + x
  BY <1>1, TotalChangeOne
<1>3. Total(c, n) <= Total(b, n)
  BY <1>1, TotalMonotone
<1> QED BY <1>2, <1>3

-----------------------------------------------------------------------------
(***************************************************************************)
(* Paying an amount from a queue, as the redeeming of an award takes its   *)
(* price from the records: each member gives what it has until those ahead *)
(* of it have covered the amount.  The queue is a set U of ids with a      *)
(* strict linear order L; stock[t] is what member t has, ahead[t] what is  *)
(* had by those ahead of t, open[t] what these leave to pay, taken[t] what *)
(* t gives.                                                                *)
(***************************************************************************)
IsQueue(n, U, L) ==
    /\ U \subseteq 1..n
    /\ \A t \in U : <<t, t>> \notin L
    /\ \A t, u \in U : t = u \/ <<t, u>> \in L \/ <<u, t>> \in L
    /\ \A t, u, v \in U : <<t, u>> \in L /\ <<u, v>> \in L => <<t, v>> \in L

IsDrained(n, U, L, stock, ahead, open, taken, q) ==
    /\ stock \in [1..n -> Nat] /\ ahead \in [1..n -> [1..n -> Nat]]
    /\ open \in [1..n -> Int] /\ taken \in [1..n -> Nat]
    /\ \A t \in U : stock[t] > 0
    /\ \A t \in U, u \in 1..n :
          ahead[t][u] = IF u \in U /\ <<u, t>> \in L THEN stock[u] ELSE 0
    /\ \A t \in U : open[t] = q - Total(ahead[t], n)
    /\ \A t \in 1..n :
          taken[t] = IF t \notin U \/ open[t] <= 0 THEN 0
                     ELSE IF open[t] <= stock[t] THEN open[t] ELSE stock[t]

\* What is known of one member of the queue.
LEMMA MemberFacts ==
    ASSUME NEW n \in Nat, NEW U, NEW L, NEW stock, NEW ahead, NEW open, NEW taken,
           NEW q \in Nat, IsQueue(n, U, L),
           IsDrained(n, U, L, stock, ahead, open, taken, q), NEW t \in U
    PROVE  /\ t \in 1..n
           /\ stock[t] \in Nat /\ stock[t] \in Int /\ stock[t] > 0
           /\ open[t] \in Int /\ taken[t] \in Nat
           /\ ahead[t] \in [1..n -> Nat] /\ ahead[t] \in [1..n -> Int]
           /\ ahead[t][t] = 0
           /\ Total(ahead[t], n) \in Nat /\ open[t] = q - Total(ahead[t], n)
           /\ taken[t] = IF open[t] <= 0 THEN 0
                         ELSE IF open[t] <= stock[t] THEN open[t] ELSE stock[t]
<1>1. t \in 1..n
  BY DEF IsQueue
<1>2. stock \in [1..n -> Nat] /\ stock[t] > 0
  BY DEF IsDrained
<1>3. stock[t] \in Nat
  BY <1>1, <1>2
<1>4. open \in [1..n -> Int] /\ taken \in [1..n -> Nat]
  BY DEF IsDrained
<1>5. open[t] \in Int /\ taken[t] \in Nat
  BY <1>1, <1>4
<1>6. ahead \in [1..n -> [1..n -> Nat]]
  BY DEF IsDrained
<1>7. ahead[t] \in [1..n -> Nat]
  BY <1>1, <1>6
<1>8. ahead[t] \in [1..n -> Int]
  BY <1>7
<1>9. ahead[t][t] = 0
  <2>1. <<t, t>> \notin L
    BY DEF IsQueue
  <2>2. ahead[t][t] = IF t \in U /\ <<t, t>> \in L THEN stock[t] ELSE 0
    BY <1>1 DEF IsDrained
  <2> QED BY <2>1, <2>2
<1>10. Total(ahead[t], n) \in Nat
  BY <1>7, TotalNonNegative
<1>11. open[t] = q - Total(ahead[t], n)
  BY DEF IsDrained
<1>12. taken[t] = IF t \notin U \/ open[t] <= 0 THEN 0
                 ELSE IF open[t] <= stock[t] THEN open[t] ELSE stock[t]
  BY <1>1 DEF IsDrained
<1> QED BY <1>1, <1>2, <1>3, <1>5, <1>7, <1>8, <1>9, <1>10, <1>11, <1>12

\* What a member finds ahead of it: all of those before it, nothing of others.
LEMMA AheadFacts ==
    ASSUME NEW n \in Nat, NEW U, NEW L, NEW stock, NEW ahead, NEW open, NEW taken,
           NEW q \in Nat, IsQueue(n, U, L),
           IsDrained(n, U, L, stock, ahead, open, taken, q),
           NEW t \in U, NEW i \in 1..n
    PROVE  ahead[t][i] = IF i \in U /\ <<i, t>> \in L THEN stock[i] ELSE 0
BY DEF IsDrained

\* A member has less left to pay than one ahead of it, by all the latter has.
LEMMA OpenFalls ==
    ASSUME NEW n \in Nat, NEW U, NEW L, NEW stock, NEW ahead, NEW open, NEW taken,
           NEW q \in Nat, IsQueue(n, U, L),
           IsDrained(n, U, L, stock, ahead, open, taken, q),
           NEW u \in U, NEW t \in U, <<u, t>> \in L
    PROVE  /\ Total(ahead[u], n) + stock[u] <= Total(ahead[t], n)
           /\ open[u] >= open[t] + stock[u]
<1> DEFINE a == ahead[u]
           b == ahead[t]
<1>1. /\ u \in 1..n /\ t \in 1..n /\ stock[u] \in Int
      /\ a \in [1..n -> Int] /\ b \in [1..n -> Int] /\ b \in [1..n -> Nat]
  BY MemberFacts
<1>2. a[u] + stock[u] <= b[u]
  <2>1. a[u] = 0 /\ b[u] = stock[u]
    BY <1>1, MemberFacts, AheadFacts
  <2> QED BY <2>1, <1>1
<1>3. ASSUME NEW i \in 1..n PROVE a[i] <= b[i]
  <2>1. CASE i \in U /\ <<i, u>> \in L
    <3>1. <<i, t>> \in L
      BY <2>1 DEF IsQueue
    <3>2. a[i] = stock[i] /\ b[i] = stock[i] /\ stock[i] \in Nat
      BY <2>1, <3>1, AheadFacts, MemberFacts
    <3> QED BY <3>2
  <2>2. CASE ~(i \in U /\ <<i, u>> \in L)
    <3>1. a[i] = 0
      BY <2>2, AheadFacts
    <3>2. b[i] \in Nat
      BY <1>1
    <3> QED BY <3>1, <3>2
  <2> QED BY <2>1, <2>2
<1>4. open[u] = q - Total(a, n) /\ open[t] = q - Total(b, n)
  BY MemberFacts
<1> HIDE DEF a, b
<1>5. Total(a, n) + stock[u] <= Total(b, n)
  BY <1>1, <1>2, <1>3, TotalAtLeast
<1>6. Total(a, n) \in Int /\ Total(b, n) \in Int
  BY <1>1, TotalType
<1>7. /\ Total(a, n) + stock[u] <= Total(b, n)
      /\ open[u] >= open[t] + stock[u]
  <2>1. stock[u] \in Int
    BY <1>1
  <2> QED BY <2>1, <1>4, <1>5, <1>6
<1> QED BY <1>7 DEF a, b

\* No more is taken than the amount.
LEMMA TakenAtMost ==
    ASSUME NEW n \in Nat, NEW U, NEW L, NEW stock, NEW ahead, NEW open, NEW taken,
           NEW q \in Nat, IsQueue(n, U, L),
           IsDrained(n, U, L, stock, ahead, open, taken, q)
    PROVE  Total(taken, n) <= q
<1> DEFINE Givers == {t \in 1..n : taken[t] > 0}
<1>1. taken \in [1..n -> Int]
  BY DEF IsDrained
<1>2. CASE Givers = {}
  <2>1. ASSUME NEW i \in 1..n PROVE taken[i] = 0
    <3>1. taken[i] \in Nat
      BY DEF IsDrained
    <3>2. ~(taken[i] > 0)
      BY <1>2
    <3> QED BY <3>1, <3>2
  <2>2. Total(taken, n) = 0
    BY <1>1, <2>1, TotalZero
  <2> QED BY <2>2
<1>3. CASE Givers # {}
  <2> DEFINE T == {open[t] : t \in Givers}
  <2>1. ASSUME NEW t \in Givers
        PROVE  /\ t \in U /\ t \in 1..n /\ open[t] \in Nat /\ open[t] > 0
               /\ taken[t] <= open[t] /\ taken[t] <= stock[t] /\ taken[t] \in Nat
               /\ stock[t] \in Nat /\ stock[t] > 0
    <3>1. t \in 1..n /\ taken[t] > 0
      OBVIOUS
    <3>2. t \in U
      <4>1. taken[t] = IF t \notin U \/ open[t] <= 0 THEN 0
                       ELSE IF open[t] <= stock[t] THEN open[t] ELSE stock[t]
        BY <3>1 DEF IsDrained
      <4> QED BY <3>1, <4>1
    <3>3. /\ stock[t] \in Nat /\ stock[t] > 0 /\ open[t] \in Int /\ taken[t] \in Nat
          /\ taken[t] = IF open[t] <= 0 THEN 0
                        ELSE IF open[t] <= stock[t] THEN open[t] ELSE stock[t]
      BY <3>2, MemberFacts
    <3> QED BY <3>1, <3>2, <3>3
  <2>2. T \in SUBSET Nat /\ T # {}
    BY <1>3, <2>1
  <2> HIDE DEF Givers
  <2>3. \E m \in T : \A k \in T : m <= k
    BY <2>2, LeastMember
  <2>4. PICK t \in Givers : \A u \in Givers : open[t] <= open[u]
    BY <2>3
  <2> HIDE DEF T
  <2> DEFINE a == ahead[t]
  <2>5. a \in [1..n -> Int] /\ a[t] = 0 /\ open[t] = q - Total(a, n)
    BY <2>1, MemberFacts
  <2>6. ASSUME NEW i \in 1..n, i # t PROVE taken[i] <= a[i]
    <3>1. CASE i \in Givers
      <4>1. i \in U /\ t \in U
        BY <2>1, <3>1
      <4>2. <<t, i>> \notin L
        <5>1. SUFFICES ASSUME <<t, i>> \in L PROVE FALSE
          OBVIOUS
        <5>2. open[t] >= open[i] + stock[t]
          BY <4>1, <5>1, OpenFalls
        <5> QED BY <5>2, <2>1, <2>4, <3>1
      <4>3. <<i, t>> \in L
        BY <4>1, <4>2, <2>6 DEF IsQueue
      <4>4. a[i] = stock[i]
        BY <4>1, <4>3, AheadFacts
      <4> QED BY <4>4, <2>1, <3>1
    <3>2. CASE i \notin Givers
      <4>1. taken[i] = 0
        <5>1. taken[i] \in Nat
          BY DEF IsDrained
        <5> QED BY <3>2, <5>1 DEF Givers
      <4>2. a[i] \in Nat
        BY <2>1, MemberFacts
      <4> QED BY <4>1, <4>2
    <3> QED BY <3>1, <3>2
  <2> HIDE DEF a
  <2> DEFINE x == -open[t]
  <2>7. x \in Int /\ taken[t] + x <= a[t] /\ t \in 1..n
    BY <2>1, <2>5
  <2>8. x = -open[t]
    OBVIOUS
  <2> HIDE DEF x
  <2>9. Total(taken, n) + x <= Total(a, n)
    BY <1>1, <2>5, <2>6, <2>7, TotalAtLeast
  <2>10. Total(a, n) \in Int /\ Total(taken, n) \in Int
    BY <1>1, <2>5, TotalType
  <2> QED BY <2>1, <2>5, <2>8, <2>9, <2>10
<1> QED BY <1>2, <1>3

\* When less is taken than the amount, every member has given all it had.
LEMMA ShortOnlyWhenEmpty ==
    ASSUME NEW n \in Nat, NEW U, NEW L, NEW stock, NEW ahead, NEW open, NEW taken,
           NEW q \in Nat, IsQueue(n, U, L),
           IsDrained(n, U, L, stock, ahead, open, taken, q),
           Total(taken, n) < q, NEW t0 \in U
    PROVE  taken[t0] = stock[t0]
<1> DEFINE Keepers == {t \in U : open[t] < stock[t]}
           T == {Total(ahead[t], n) : t \in Keepers}
<1>1. ASSUME NEW t \in U
      PROVE  /\ t \in 1..n /\ open[t] \in Int /\ stock[t] \in Nat /\ stock[t] > 0
             /\ taken[t] \in Nat /\ Total(ahead[t], n) \in Nat
             /\ open[t] = q - Total(ahead[t], n)
             /\ t \notin Keepers => taken[t] = stock[t]
  <2>1. /\ t \in 1..n /\ open[t] \in Int /\ stock[t] \in Nat /\ stock[t] > 0
        /\ taken[t] \in Nat /\ Total(ahead[t], n) \in Nat
        /\ open[t] = q - Total(ahead[t], n)
        /\ taken[t] = IF open[t] <= 0 THEN 0
                      ELSE IF open[t] <= stock[t] THEN open[t] ELSE stock[t]
    BY MemberFacts
  <2>2. t \notin Keepers => open[t] >= stock[t]
    BY <2>1
  <2>3. t \notin Keepers => taken[t] = stock[t]
    BY <2>1, <2>2
  <2> QED BY <2>1, <2>3
<1> SUFFICES ASSUME t0 \in Keepers PROVE FALSE
  BY <1>1
<1>2. T \in SUBSET Nat /\ T # {}
  BY <1>1
<1> HIDE DEF Keepers
<1>3. \E m \in T : \A k \in T : m <= k
  BY <1>2, LeastMember
<1>4. PICK t \in Keepers : \A u \in Keepers : Total(ahead[t], n) <= Total(ahead[u], n)
  BY <1>3
<1> HIDE DEF T
<1>5. t \in U /\ open[t] < stock[t]
  BY <1>4 DEF Keepers
<1> DEFINE a == ahead[t]
<1>6. a \in [1..n -> Int] /\ a[t] = 0 /\ t \in 1..n
  BY <1>5, MemberFacts
<1>7. ASSUME NEW i \in 1..n PROVE a[i] <= taken[i]
  <2>1. CASE i \in U /\ <<i, t>> \in L
    <3>1. Total(ahead[i], n) + stock[i] <= Total(ahead[t], n)
      BY <1>5, <2>1, OpenFalls
    <3>2. i \notin Keepers
      BY <3>1, <1>1, <1>4, <1>5, <2>1
    <3>3. taken[i] = stock[i] /\ a[i] = stock[i] /\ stock[i] \in Nat
      BY <3>2, <1>1, <1>5, <2>1, AheadFacts
    <3> QED BY <3>3
  <2>2. CASE ~(i \in U /\ <<i, t>> \in L)
    <3>1. a[i] = 0
      BY <2>2, <1>5, AheadFacts
    <3>2. taken[i] \in Nat
      BY DEF IsDrained
    <3> QED BY <3>1, <3>2
  <2> QED BY <2>1, <2>2
<1>8. taken \in [1..n -> Int]
  BY DEF IsDrained
<1>9. open[t] = q - Total(a, n) /\ Total(a, n) \in Nat /\ Total(taken, n) \in Int
  BY <1>1, <1>5, <1>8, TotalType
<1>10. CASE open[t] <= 0
  <2> HIDE DEF a
  <2>1. Total(a, n) <= Total(taken, n)
    BY <1>6, <1>7, <1>8, TotalMonotone
  <2> QED BY <1>9, <1>10, <2>1
<1>11. CASE open[t] > 0
  <2>1. taken[t] = open[t] /\ open[t] \in Int
    <3>1. /\ open[t] \in Int /\ stock[t] \in Nat
          /\ taken[t] = IF open[t] <= 0 THEN 0
                        ELSE IF open[t] <= stock[t] THEN open[t] ELSE stock[t]
      BY <1>5, MemberFacts
    <3> QED BY <3>1, <1>5, <1>11
  <2> DEFINE x == open[t]
  <2>2. a[t] + x <= taken[t] /\ x \in Int
    BY <1>6, <2>1
  <2> HIDE DEF a, x
  <2>3. Total(a, n) + x <= Total(taken, n)
    BY <1>6, <1>7, <1>8, <2>2, TotalAtLeast
  <2> QED BY <1>9, <2>3 DEF x
<1>12. open[t] \in Int
  BY <1>1, <1>5
<1> QED BY <1>10, <1>11, <1>12

-----------------------------------------------------------------------------
(* The records *)

Table == [RowIds -> Row \union {NoRow}]

\* No record has more points redeemed than it earned.
Sound(table) == \A i \in Live(table) : table[i].redeemed <= table[i].earn

RequestOK(q) ==
    \/ q = Idle
    \/ /\ q.state = "checked"
       /\ q.session \in Sessions /\ q.price \in Prices
    \/ /\ q.state = "read"
       /\ q.base \in Table /\ q.day \in Days /\ q.price \in Prices
       /\ Sound(q.base)
       /\ q.price <= RemainLoyaltyPoints(q.base, q.day)

Redeemed(table) == [i \in RowIds |-> IF i \in Live(table) THEN table[i].redeemed ELSE 0]

LInv ==
    /\ TypeOK
    /\ Sound(rows)
    /\ req = [r \in Requests |-> req[r]]
    /\ \A r \in Requests : RequestOK(req[r])
    /\ PointsAccounted

-----------------------------------------------------------------------------
(* Redeeming *)

Points(table, day) ==
    [i \in RowIds |-> IF i \in Usable(table, day) THEN Remaining(table[i]) ELSE 0]

PointsAhead(table, day) ==
    [i \in RowIds |-> [j \in RowIds |-> IF j \in Usable(table, day) /\ IsAhead(table, j, i)
                                        THEN Remaining(table[j]) ELSE 0]]

OpenAt(table, day, price) == [i \in RowIds |-> Open(table, day, price, i)]

\* What the loop adds to what is redeemed of record i.
Gives(table, day, price) ==
    [i \in RowIds |-> IF i \in Visited(table, day, price)
                      THEN Spent(table, day, price, i).redeemed - table[i].redeemed
                      ELSE 0]

LEMMA RowFacts ==
    ASSUME NEW table \in Table, Sound(table), NEW i \in Live(table)
    PROVE  /\ i \in RowIds /\ i \in Nat /\ table[i] \in Row
           /\ table[i].earn \in Nat /\ table[i].redeemed \in Nat /\ table[i].date \in Nat
           /\ Remaining(table[i]) \in Nat
<1>1. i \in RowIds /\ i \in Nat /\ table[i] \in Row
  BY LoyaltyAssumption DEF Table, Live, RowIds
<1>2. /\ table[i].earn \in Nat /\ table[i].redeemed \in Nat /\ table[i].date \in Nat
  BY <1>1, LoyaltyAssumption DEF Row, Days
<1>3. table[i].redeemed <= table[i].earn
  BY DEF Sound
<1> QED BY <1>1, <1>2, <1>3 DEF Remaining

LEMMA TablesOfPoints ==
    ASSUME NEW table \in Table, Sound(table), NEW day, NEW price \in Nat
    PROVE  /\ NRows \in Nat /\ RowIds = 1..NRows
           /\ Points(table, day) \in [RowIds -> Nat]
           /\ PointsAhead(table, day) \in [RowIds -> [RowIds -> Nat]]
           /\ \A i \in RowIds : Total(PointsAhead(table, day)[i], NRows) \in Nat
           /\ \A i \in RowIds :
                 Open(table, day, price, i) = price - Total(PointsAhead(table, day)[i], NRows)
           /\ OpenAt(table, day, price) \in [RowIds -> Int]
<1>1. NRows \in Nat /\ RowIds = 1..NRows
  BY LoyaltyAssumption DEF RowIds
<1>2. \A i \in Usable(table, day) : Remaining(table[i]) \in Nat
  BY RowFacts DEF Usable
<1>3. Points(table, day) \in [RowIds -> Nat]
  BY <1>2 DEF Points
<1>4. PointsAhead(table, day) \in [RowIds -> [RowIds -> Nat]]
  BY <1>2 DEF PointsAhead
<1>5. ASSUME NEW i \in RowIds
      PROVE  /\ Total(PointsAhead(table, day)[i], NRows) \in Nat
             /\ Open(table, day, price, i) = price - Total(PointsAhead(table, day)[i], NRows)
  <2>1. PointsAhead(table, day)[i] \in [1..NRows -> Nat]
    BY <1>1, <1>4
  <2>2. Total(PointsAhead(table, day)[i], NRows) \in Nat
    BY <1>1, <2>1, TotalNonNegative
  <2>3. Open(table, day, price, i) = price - Total(PointsAhead(table, day)[i], NRows)
    BY DEF Open, PointsAhead
  <2> QED BY <2>2, <2>3
<1>6. OpenAt(table, day, price) \in [RowIds -> Int]
  BY <1>5 DEF OpenAt
<1> QED BY <1>1, <1>3, <1>4, <1>5, <1>6

\* The loop comes to a record with all that is open before those ahead of it.
LEMMA OpenFallsBehind ==
    ASSUME NEW table \in Table, Sound(table), NEW day, NEW price \in Nat,
           NEW i \in Usable(table, day), NEW j \in Usable(table, day), IsAhead(table, i, j)
    PROVE  Open(table, day, price, i) >= Open(table, day, price, j) + Remaining(table[i])
<1> DEFINE a == PointsAhead(table, day)[i]
           b == PointsAhead(table, day)[j]
           x == Remaining(table[i])
<1>1. \A k \in Usable(table, day) :
        /\ k \in RowIds /\ k \in Nat /\ table[k].date \in Nat /\ Remaining(table[k]) \in Nat
  BY RowFacts DEF Usable
<1>2. /\ NRows \in Nat /\ RowIds = 1..NRows
      /\ a \in [1..NRows -> Nat] /\ b \in [1..NRows -> Nat]
  <2>1. /\ NRows \in Nat /\ RowIds = 1..NRows
        /\ PointsAhead(table, day) \in [RowIds -> [RowIds -> Nat]]
    BY TablesOfPoints
  <2>2. i \in RowIds /\ j \in RowIds
    BY <1>1
  <2> QED BY <2>1, <2>2
<1>3. a[i] = 0 /\ b[i] = x
  <2>1. ~IsAhead(table, i, i)
    BY <1>1 DEF IsAhead
  <2> QED BY <1>1, <2>1 DEF PointsAhead
<1>4. ASSUME NEW k \in 1..NRows PROVE a[k] <= b[k]
  <2>1. CASE k \in Usable(table, day) /\ IsAhead(table, k, i)
    <3>1. /\ i \in Nat /\ j \in Nat /\ k \in Nat
          /\ table[i].date \in Nat /\ table[j].date \in Nat /\ table[k].date \in Nat
      BY <1>1, <2>1
    <3>2. IsAhead(table, k, j)
      <4> HIDE DEF a, b, x
      <4> QED BY <2>1, <3>1 DEF IsAhead
    <3>3. b[k] = Remaining(table[k]) /\ a[k] = Remaining(table[k])
      BY <1>1, <2>1, <3>2 DEF PointsAhead
    <3> QED BY <1>1, <2>1, <3>3
  <2>2. CASE ~(k \in Usable(table, day) /\ IsAhead(table, k, i))
    <3>1. a[k] = 0
      BY <1>1, <1>2, <2>2 DEF PointsAhead
    <3> QED BY <1>2, <3>1
  <2> QED BY <2>1, <2>2
<1>5. Total(a, NRows) + x <= Total(b, NRows)
  <2>1. a \in [1..NRows -> Int] /\ b \in [1..NRows -> Int] /\ i \in 1..NRows /\ x \in Int
    BY <1>1, <1>2
  <2>2. a[i] + x <= b[i]
    BY <1>1, <1>3
  <2> HIDE DEF a, b, x
  <2> QED BY <1>2, <1>4, <2>1, <2>2, TotalAtLeast
<1>6. /\ Open(table, day, price, i) = price - Total(a, NRows)
      /\ Open(table, day, price, j) = price - Total(b, NRows)
      /\ Total(a, NRows) \in Nat /\ Total(b, NRows) \in Nat /\ x \in Nat
  BY <1>1, TablesOfPoints
<1> QED BY <1>5, <1>6

LEMMA SpentFacts ==
    ASSUME NEW table \in Table, Sound(table), NEW day, NEW price \in Nat,
           NEW i \in Visited(table, day, price)
    PROVE  LET spent == Spent(table, day, price, i)
               open  == Open(table, day, price, i)
           IN  /\ i \in Usable(table, day) /\ i \in Live(table) /\ open \in Nat
               /\ spent \in Row /\ spent.redeemed <= spent.earn
               /\ spent.redeemed = table[i].redeemed +
                                     (IF open >= Remaining(table[i]) THEN Remaining(table[i])
                                                                     ELSE open)
               /\ spent.earn = table[i].earn
<1> DEFINE open == Open(table, day, price, i)
<1>1. i \in Usable(table, day) /\ i \in Live(table) /\ open >= 0
  BY DEF Visited, Usable
<1>2. /\ i \in RowIds /\ table[i] \in Row
      /\ table[i].earn \in Nat /\ table[i].redeemed \in Nat
      /\ Remaining(table[i]) \in Nat
  BY <1>1, RowFacts
<1>3. open \in Int
  <2>1. OpenAt(table, day, price) \in [RowIds -> Int]
    BY TablesOfPoints
  <2>2. OpenAt(table, day, price)[i] = open
    BY <1>2 DEF OpenAt
  <2> HIDE DEF open
  <2> QED BY <1>2, <2>1, <2>2
<1>4. open \in Nat
  BY <1>1, <1>3
<1> HIDE DEF open
<1>5. Spent(table, day, price, i) =
        IF open >= Remaining(table[i])
        THEN [table[i] EXCEPT !.redeemed = table[i].earn, !.active = FALSE]
        ELSE [table[i] EXCEPT !.redeemed = table[i].redeemed + open]
  BY DEF Spent, open
<1>6. CASE open >= Remaining(table[i])
  <2>1. Spent(table, day, price, i) =
          [table[i] EXCEPT !.redeemed = table[i].earn, !.active = FALSE]
    BY <1>5, <1>6
  <2>2. table[i].earn = table[i].redeemed + Remaining(table[i])
    BY <1>2 DEF Remaining
  <2>3. /\ Spent(table, day, price, i) \in Row
        /\ Spent(table, day, price, i).redeemed = table[i].earn
        /\ Spent(table, day, price, i).earn = table[i].earn
    BY <1>2, <2>1 DEF Row
  <2> QED BY <1>1, <1>2, <1>4, <1>6, <2>2, <2>3 DEF open
<1>7. CASE ~(open >= Remaining(table[i]))
  <2>1. Spent(table, day, price, i) = [table[i] EXCEPT !.redeemed = table[i].redeemed + open]
    BY <1>5, <1>7
  <2>2. table[i].redeemed + open <= table[i].earn /\ table[i].redeemed + open \in Nat
    BY <1>2, <1>4, <1>7 DEF Remaining
  <2> QED BY <1>1, <1>2, <1>4, <1>7, <2>1, <2>2 DEF Row, open
<1> QED BY <1>6, <1>7

\* The loop takes the price, no more and no less, when there are that many
\* points.
LEMMA GivesThePrice ==
    ASSUME NEW table \in Table, Sound(table), NEW day, NEW price \in Nat,
           price <= RemainLoyaltyPoints(table, day)
    PROVE  /\ Gives(table, day, price) \in [RowIds -> Nat]
           /\ Total(Gives(table, day, price), NRows) = price
<1> DEFINE U == {i \in Usable(table, day) : Remaining(table[i]) > 0}
           L == {ij \in RowIds \X RowIds : IsAhead(table, ij[1], ij[2])}
           stock == Points(table, day)
           ahead == PointsAhead(table, day)
           open  == OpenAt(table, day, price)
           taken == Gives(table, day, price)
<1>1. \A i \in Usable(table, day) :
        /\ i \in RowIds /\ i \in Nat /\ table[i].date \in Nat
        /\ Remaining(table[i]) \in Nat /\ table[i].redeemed \in Nat
  BY RowFacts DEF Usable
<1>2. /\ NRows \in Nat /\ RowIds = 1..NRows
      /\ stock \in [RowIds -> Nat] /\ ahead \in [RowIds -> [RowIds -> Nat]]
      /\ open \in [RowIds -> Int]
  BY TablesOfPoints
<1>3. \A i \in RowIds : open[i] = price - Total(ahead[i], NRows)
  BY TablesOfPoints DEF OpenAt
<1>4. IsQueue(NRows, U, L)
  <2>1. \A i, j \in U : <<i, j>> \in L <=> IsAhead(table, i, j)
    BY <1>1
  <2>2. \A i \in U : <<i, i>> \notin L
    BY <1>1, <2>1 DEF IsAhead
  <2>3. ASSUME NEW i \in U, NEW j \in U, i # j PROVE <<i, j>> \in L \/ <<j, i>> \in L
    <3>1. IsAhead(table, i, j) \/ IsAhead(table, j, i)
      BY <1>1, <2>3 DEF IsAhead
    <3> QED BY <2>1, <3>1
  <2>4. ASSUME NEW i \in U, NEW j \in U, NEW k \in U, <<i, j>> \in L, <<j, k>> \in L
        PROVE  <<i, k>> \in L
    <3>1. IsAhead(table, i, j) /\ IsAhead(table, j, k)
      BY <2>1, <2>4
    <3>2. /\ i \in Nat /\ j \in Nat /\ k \in Nat
          /\ table[i].date \in Nat /\ table[j].date \in Nat /\ table[k].date \in Nat
      BY <1>1
    <3>3. IsAhead(table, i, k)
      <4> HIDE DEF U, L
      <4> QED BY <3>1, <3>2 DEF IsAhead
    <3> QED BY <2>1, <3>3
  <2>5. U \subseteq 1..NRows
    BY <1>1, <1>2
  <2> HIDE DEF U, L
  <2> QED BY <2>2, <2>3, <2>4, <2>5 DEF IsQueue
<1>5. ASSUME NEW t \in RowIds
      PROVE  /\ taken[t] \in Nat
             /\ taken[t] = IF t \notin U \/ open[t] <= 0 THEN 0
                           ELSE IF open[t] <= stock[t] THEN open[t] ELSE stock[t]
  <2>1. open[t] = Open(table, day, price, t) /\ open[t] \in Int
    BY <1>2 DEF OpenAt
  <2>2. CASE t \in Visited(table, day, price)
    <3>1. /\ t \in Usable(table, day) /\ open[t] \in Nat
          /\ Spent(table, day, price, t).redeemed =
               table[t].redeemed + (IF open[t] >= Remaining(table[t]) THEN Remaining(table[t])
                                                                      ELSE open[t])
      BY <2>1, <2>2, SpentFacts
    <3>2. /\ Remaining(table[t]) \in Nat /\ table[t].redeemed \in Nat
          /\ stock[t] = Remaining(table[t]) /\ (t \in U <=> Remaining(table[t]) > 0)
      BY <1>1, <3>1 DEF Points
    <3>3. taken[t] = Spent(table, day, price, t).redeemed - table[t].redeemed
      BY <2>2 DEF Gives
    <3> HIDE DEF U, open, stock, taken
    <3> QED BY <3>1, <3>2, <3>3
  <2>3. CASE t \notin Visited(table, day, price)
    <3>1. taken[t] = 0
      BY <2>3 DEF Gives
    <3>2. t \notin U \/ open[t] <= 0
      BY <2>1, <2>3 DEF Visited
    <3> QED BY <3>1, <3>2
  <2> QED BY <2>2, <2>3
<1>6. taken \in [RowIds -> Nat]
  <2>1. taken = [i \in RowIds |-> taken[i]]
    BY DEF Gives
  <2> HIDE DEF taken
  <2> QED BY <1>5, <2>1
<1>7. ASSUME NEW t \in U, NEW u \in 1..NRows
      PROVE  ahead[t][u] = IF u \in U /\ <<u, t>> \in L THEN stock[u] ELSE 0
  <2>1. t \in RowIds /\ u \in RowIds
    BY <1>1, <1>2
  <2>2. ahead[t][u] = IF u \in Usable(table, day) /\ IsAhead(table, u, t)
                      THEN Remaining(table[u]) ELSE 0
    BY <2>1 DEF PointsAhead
  <2>3. <<u, t>> \in L <=> IsAhead(table, u, t)
    BY <2>1
  <2>4. u \in Usable(table, day) =>
          stock[u] = Remaining(table[u]) /\ (u \notin U => Remaining(table[u]) = 0)
    BY <1>1, <2>1 DEF Points
  <2> QED BY <2>2, <2>3, <2>4
<1>8. IsDrained(NRows, U, L, stock, ahead, open, taken, price)
  <2>1. \A t \in U : stock[t] > 0 /\ t \in RowIds
    BY <1>1 DEF Points
  <2> HIDE DEF U, L, stock, ahead, open, taken
  <2> QED BY <1>2, <1>3, <1>5, <1>6, <1>7, <2>1 DEF IsDrained
<1>9. Total(taken, NRows) = price
  <2>1. Total(taken, NRows) <= price
    <3> HIDE DEF U, L, stock, ahead, open, taken
    <3> QED BY <1>2, <1>4, <1>8, TakenAtMost
  <2>2. Total(taken, NRows) \in Nat
    BY <1>2, <1>6, TotalNonNegative
  <2>3. Total(stock, NRows) >= price
    BY DEF RemainLoyaltyPoints, Points
  <2>4. ASSUME Total(taken, NRows) < price PROVE FALSE
    <3>1. ASSUME NEW t \in RowIds PROVE taken[t] = stock[t]
      <4>1. CASE t \in U
        <5> HIDE DEF U, L, stock, ahead, open, taken
        <5> QED BY <1>2, <1>4, <1>8, <2>4, <4>1, ShortOnlyWhenEmpty, SMTT(30)
      <4>2. CASE t \notin U
        <5>1. stock[t] = 0
          BY <1>1, <4>2 DEF Points
        <5> HIDE DEF U, open, stock, taken
        <5> QED BY <1>5, <4>2, <5>1
      <4> QED BY <4>1, <4>2
    <3>2. taken = stock
      <4> HIDE DEF stock, taken
      <4> QED BY <1>2, <1>6, <3>1
    <3> QED BY <2>2, <2>3, <2>4, <3>2
  <2> HIDE DEF taken
  <2> QED BY <2>1, <2>2, <2>4
<1> QED BY <1>6, <1>9

-----------------------------------------------------------------------------
(* The steps *)

LEMMA RedeemedType ==
    ASSUME NEW table \in Table
    PROVE  Redeemed(table) \in [1..NRows -> Int] /\ Total(Redeemed(table), NRows) \in Int
<1>1. NRows \in Nat /\ RowIds = 1..NRows
  BY LoyaltyAssumption DEF RowIds
<1>2. Redeemed(table) \in [1..NRows -> Int]
  BY <1>1 DEF Redeemed, Table, Row, Live
<1> QED BY <1>1, <1>2, TotalType

\* A record that starts over, or is new, forgets what was redeemed of it.
LEMMA RowStartsOver ==
    ASSUME TypeOK, Sound(rows), NEW i \in RowIds, NEW row \in Row, row.redeemed = 0,
           rows' = [rows EXCEPT ![i] = row]
    PROVE  /\ rows' \in Table /\ Sound(rows')
           /\ Total(Redeemed(rows'), NRows) =
                Total(Redeemed(rows), NRows) - Redeemed(rows)[i]
<1>1. /\ NRows \in Nat /\ RowIds = 1..NRows /\ NoRow \notin Row
      /\ rows \in Table /\ rows' \in Table
  BY LoyaltyAssumption DEF RowIds, TypeOK, Table
<1>2. Sound(rows')
  <2>1. ASSUME NEW k \in Live(rows') PROVE rows'[k].redeemed <= rows'[k].earn
    <3>1. CASE k = i
      BY <1>1, <3>1 DEF Row, Table
    <3>2. CASE k # i
      BY <1>1, <2>1, <3>2 DEF Live, Sound, Table
    <3> QED BY <3>1, <3>2
  <2> QED BY <2>1 DEF Sound
<1>3. /\ Redeemed(rows) \in [1..NRows -> Int] /\ Redeemed(rows') \in [1..NRows -> Int]
      /\ Total(Redeemed(rows), NRows) \in Int
  BY <1>1, RedeemedType
<1>4. Redeemed(rows')[i] = 0
  BY <1>1 DEF Redeemed, Live, Table
<1>5. \A k \in 1..NRows : k # i => Redeemed(rows')[k] = Redeemed(rows)[k]
  BY <1>1 DEF Redeemed, Live, Table
<1> DEFINE a == Redeemed(rows)
           b == Redeemed(rows')
           d == -a[i]
<1>6. d \in Int /\ b[i] = a[i] + d /\ a[i] \in Int /\ i \in 1..NRows
  BY <1>1, <1>3, <1>4
<1>7. Total(b, NRows) = Total(a, NRows) + d
  <2>1. PICK x, y, e : x = a /\ y = b /\ e = d
    OBVIOUS
  <2>2. /\ x \in [1..NRows -> Int] /\ y \in [1..NRows -> Int]
        /\ \A k \in 1..NRows : k # i => y[k] = x[k]
    BY <1>3, <1>5, <2>1
  <2>3. e \in Int /\ y[i] = x[i] + e /\ i \in 1..NRows /\ NRows \in Nat
    BY <1>6, <2>1, LoyaltyAssumption
  <2>4. Total(y, NRows) = Total(x, NRows) + e
    BY <2>2, <2>3, TotalChangeOne
  <2> QED BY <2>1, <2>4
<1> QED BY <1>1, <1>2, <1>3, <1>6, <1>7

LEMMA FreshIsEmpty ==
    ASSUME TypeOK, NEW i \in RowIds, IsFresh(i)
    PROVE  i \notin Live(rows) /\ Redeemed(rows)[i] = 0
<1>1. \A j \in Live(rows) : j < i
  BY DEF IsFresh
<1>2. i \in Nat
  BY LoyaltyAssumption DEF RowIds
<1>3. i \notin Live(rows)
  BY <1>1, <1>2
<1> QED BY <1>3 DEF Redeemed

LEMMA EarnedFacts ==
    ASSUME NEW o \in OrderIds, NEW v \in Worths, NEW date \in Days
    PROVE  Earned(o, v, date) \in Row /\ Earned(o, v, date).redeemed = 0
BY LoyaltyAssumption DEF Earned, Row, Days

LEMMA InitEstablishes == Init => LInv
<1> SUFFICES ASSUME Init PROVE LInv OBVIOUS
<1>1. NRows \in Nat /\ RowIds = 1..NRows
  BY LoyaltyAssumption DEF RowIds
<1>2. TypeOK
  <2>1. rows \in [RowIds -> Row \union {NoRow}] /\ code \in [Sessions -> BOOLEAN]
    BY DEF Init
  <2>2. today \in Days
    BY LoyaltyAssumption DEF Init, Days
  <2>3. overwrote \in BOOLEAN /\ raced \in BOOLEAN
    BY DEF Init
  <2>4. opened \in Nat /\ awards \in Nat /\ paid \in Int /\ orders \subseteq OrderIds
    BY DEF Init
  <2> QED BY <2>1, <2>2, <2>3, <2>4 DEF TypeOK
<1>3. Live(rows) = {}
  BY DEF Init, Live
<1>4. Total(Redeemed(rows), NRows) = 0
  <2>1. Redeemed(rows) \in [1..NRows -> Int] /\ \A i \in 1..NRows : Redeemed(rows)[i] = 0
    BY <1>1, <1>3 DEF Redeemed
  <2> QED BY <1>1, <2>1, TotalZero
<1>5. PointsAccounted
  BY <1>4 DEF Init, PointsAccounted, Redeemed
<1>6. \A r \in Requests : RequestOK(req[r])
  BY DEF Init, RequestOK
<1> QED BY <1>2, <1>3, <1>5, <1>6 DEF LInv, Init, Sound

LEMMA EarnKeeps ==
    ASSUME LInv, NEW o \in OrderIds, NEW i \in RowIds, NEW v \in Worths, NEW date \in Days,
           Earn(o, i, v, date) \/ EarnAnew(o, i, v, date)
    PROVE  LInv'
<1>1. IsFresh(i) /\ rows' = [rows EXCEPT ![i] = Earned(o, v, date)]
  BY DEF Earn, EarnAnew
<1>2. /\ UNCHANGED <<today, code, req, opened, awards, paid, overwrote, raced>>
      /\ orders' = orders \union {o} \/ orders' = orders
  BY DEF Earn, EarnAnew
<1>3. /\ rows' \in Table /\ Sound(rows')
      /\ Total(Redeemed(rows'), NRows) = Total(Redeemed(rows), NRows)
  <2>1. Total(Redeemed(rows'), NRows) = Total(Redeemed(rows), NRows) - Redeemed(rows)[i]
        /\ rows' \in Table /\ Sound(rows')
    BY <1>1, EarnedFacts, RowStartsOver DEF LInv
  <2>2. Redeemed(rows)[i] = 0 /\ Total(Redeemed(rows), NRows) \in Int
    BY <1>1, FreshIsEmpty, RedeemedType DEF LInv, TypeOK, Table
  <2> QED BY <2>1, <2>2
<1>4. TypeOK'
  BY <1>2, <1>3 DEF LInv, TypeOK, Table
<1>5. PointsAccounted'
  BY <1>2, <1>3 DEF LInv, PointsAccounted, Redeemed
<1> QED BY <1>2, <1>3, <1>4, <1>5 DEF LInv

LEMMA EarnAgainKeeps ==
    ASSUME LInv, NEW o \in OrderIds, NEW i \in RowIds, NEW v \in Worths, NEW date \in Days,
           EarnAgain(o, i, v, date)
    PROVE  LInv'
<1>1. i \in Live(rows) /\ rows' = [rows EXCEPT ![i] = Earned(o, v, date)]
  BY DEF EarnAgain, FirstRow, ActiveRowsOf, RowsOf
<1>2. /\ UNCHANGED <<orders, today, code, req, opened, awards, overwrote, raced>>
      /\ paid' = paid - rows[i].redeemed
  BY DEF EarnAgain
<1>3. /\ Total(Redeemed(rows'), NRows) = Total(Redeemed(rows), NRows) - Redeemed(rows)[i]
      /\ rows' \in Table /\ Sound(rows')
  BY <1>1, EarnedFacts, RowStartsOver DEF LInv
<1>4. Redeemed(rows)[i] = rows[i].redeemed /\ rows[i].redeemed \in Nat
  BY <1>1 DEF Redeemed, Live, LInv, TypeOK, Row
<1>5. TypeOK'
  BY <1>2, <1>3, <1>4 DEF LInv, TypeOK, Table
<1>6. PointsAccounted'
  BY <1>2, <1>3, <1>4 DEF LInv, PointsAccounted, Redeemed
<1> QED BY <1>2, <1>3, <1>5, <1>6 DEF LInv

LEMMA RemoveOrderKeeps ==
    ASSUME LInv, NEW o \in OrderIds, RemoveOrder(o)
    PROVE  LInv'
<1> DEFINE gone == [i \in RowIds |-> IF i \in RowsOf(o) THEN rows[i].redeemed ELSE 0]
<1>1. /\ UNCHANGED <<today, code, req, opened, awards, overwrote, raced>>
      /\ orders' = orders \ {o} /\ paid' = paid - Total(gone, NRows)
      /\ rows' = [i \in RowIds |-> IF i \in RowsOf(o) THEN NoRow ELSE rows[i]]
  BY DEF RemoveOrder
<1>2. /\ NRows \in Nat /\ RowIds = 1..NRows /\ rows \in Table /\ rows' \in Table
      /\ RowsOf(o) \subseteq Live(rows) /\ Live(rows') = Live(rows) \ RowsOf(o)
  BY <1>1, LoyaltyAssumption DEF RowIds, LInv, TypeOK, Table, RowsOf, Live
<1>3. Sound(rows')
  BY <1>1, <1>2 DEF LInv, Sound, Live
<1>4. gone \in [1..NRows -> Int]
  BY <1>2 DEF Live, Table, Row
<1>5. /\ Redeemed(rows) \in [1..NRows -> Int] /\ Redeemed(rows') \in [1..NRows -> Int]
      /\ Total(Redeemed(rows), NRows) \in Int
  BY <1>2, RedeemedType
<1>6. \A i \in 1..NRows : Redeemed(rows')[i] = Redeemed(rows)[i] - gone[i]
  <2>1. \A i \in 1..NRows : i \in RowsOf(o) =>
          Redeemed(rows')[i] = 0 /\ Redeemed(rows)[i] = gone[i]
    BY <1>2 DEF Redeemed
  <2>2. \A i \in 1..NRows : i \notin RowsOf(o) =>
          Redeemed(rows')[i] = Redeemed(rows)[i] /\ gone[i] = 0
    BY <1>1, <1>2 DEF Redeemed
  <2> HIDE DEF gone
  <2> QED BY <1>4, <1>5, <2>1, <2>2
<1> HIDE DEF gone
<1>7. Total(gone, NRows) \in Int
  BY <1>2, <1>4, TotalType
<1>8. Total(Redeemed(rows'), NRows) = Total(Redeemed(rows), NRows) - Total(gone, NRows)
  BY <1>2, <1>4, <1>5, <1>6, TotalMinus
<1>9. TypeOK'
  BY <1>1, <1>2, <1>7 DEF LInv, TypeOK, Table
<1>10. PointsAccounted'
  BY <1>1, <1>5, <1>7, <1>8 DEF LInv, PointsAccounted, Redeemed
<1> QED BY <1>1, <1>3, <1>9, <1>10 DEF LInv

\* Opening a page, clicking, failing and the next day leave the records alone.
LEMMA OthersKeep ==
    ASSUME LInv, UNCHANGED <<rows, orders, paid, overwrote>>, TypeOK',
           req' = [r \in Requests |-> req'[r]], \A r \in Requests : RequestOK(req'[r])
    PROVE  LInv'
BY DEF LInv, PointsAccounted, Live

LEMMA ToMyLoyaltyKeeps ==
    ASSUME LInv, NEW s \in Sessions, ToMyLoyalty(s)
    PROVE  LInv'
<1>1. TypeOK'
  BY DEF LInv, TypeOK, ToMyLoyalty
<1> QED BY <1>1, OthersKeep DEF LInv, ToMyLoyalty

LEMMA CheckCodeKeeps ==
    ASSUME LInv, NEW r \in Requests, NEW s \in Sessions, NEW price \in Prices,
           CheckCode(r, s, price)
    PROVE  LInv'
<1>1. TypeOK'
  BY DEF LInv, TypeOK, CheckCode
<1>2. RequestOK([state |-> "checked", session |-> s, price |-> price])
  BY DEF RequestOK
<1>3. \A q \in Requests :
        req'[q] = IF q = r THEN [state |-> "checked", session |-> s, price |-> price]
                           ELSE req[q]
  BY DEF LInv, CheckCode
<1>4. \A q \in Requests : RequestOK(req'[q])
  BY <1>2, <1>3 DEF LInv
<1> QED BY <1>1, <1>4, OthersKeep DEF LInv, CheckCode

\* What a request read has the points for the award.
LEMMA RedeemKeeps ==
    ASSUME LInv, NEW r \in Requests, Redeem(r)
    PROVE  LInv'
<1> DEFINE price == req[r].price
           remain == RemainLoyaltyPoints(rows, today)
           read == [state |-> "read", base |-> rows, day |-> today, price |-> price]
<1>1. TypeOK'
  BY DEF LInv, TypeOK, Redeem
<1>2. price \in Prices
  BY DEF LInv, Redeem, RequestOK, Idle
<1>3. price <= remain => RequestOK(read)
  BY <1>2 DEF LInv, TypeOK, RequestOK, Table
<1>4. \A q \in Requests : req'[q] = IF q # r THEN req[q]
                                    ELSE IF price <= remain /\ remain > 0 THEN read ELSE Idle
  BY DEF LInv, Redeem
<1>5. \A q \in Requests : RequestOK(req'[q])
  <2>1. RequestOK(Idle)
    BY DEF RequestOK
  <2> HIDE DEF price, remain, read
  <2> QED BY <1>3, <1>4, <2>1 DEF LInv
<1> QED BY <1>1, <1>5, OthersKeep DEF LInv, Redeem

LEMMA FailKeeps ==
    ASSUME LInv, NEW r \in Requests, Fail(r)
    PROVE  LInv'
<1>1. TypeOK'
  BY DEF LInv, TypeOK, Fail
<1>2. \A q \in Requests : RequestOK(req'[q])
  BY DEF LInv, Fail, RequestOK
<1> QED BY <1>1, <1>2, OthersKeep DEF LInv, Fail

LEMMA NextDayKeeps ==
    ASSUME LInv, NextDay
    PROVE  LInv'
<1>1. TypeOK'
  BY LoyaltyAssumption DEF LInv, TypeOK, NextDay, Days
<1> QED BY <1>1, OthersKeep DEF LInv, NextDay

LEMMA ReadFacts ==
    ASSUME LInv, NEW r \in Requests, req[r].state = "read"
    PROVE  /\ req[r].base \in Table /\ Sound(req[r].base) /\ req[r].price \in Nat
           /\ req[r].price <= RemainLoyaltyPoints(req[r].base, req[r].day)
BY LoyaltyAssumption DEF LInv, RequestOK, Idle

\* The records gain what the award costs, when they are as they were read.
LEMMA CommitKeeps ==
    ASSUME LInv, NEW r \in Requests, Commit(r)
    PROVE  LInv'
<1> DEFINE base  == req[r].base
           day   == req[r].day
           price == req[r].price
           seen  == Visited(base, day, price)
           gives == Gives(base, day, price)
<1>1. /\ req[r].state = "read" /\ seen \subseteq Live(rows)
      /\ rows' = [i \in RowIds |-> IF i \in seen THEN Spent(base, day, price, i) ELSE rows[i]]
      /\ overwrote' = (overwrote \/ \E i \in seen : rows[i] # base[i])
      /\ awards' = awards + 1 /\ paid' = paid + price
      /\ req' = [req EXCEPT ![r] = Idle]
      /\ UNCHANGED <<orders, today, code, opened, raced>>
  BY DEF Commit
<1>2. /\ base \in Table /\ Sound(base) /\ price \in Nat
      /\ price <= RemainLoyaltyPoints(base, day)
  BY <1>1, ReadFacts
<1> HIDE DEF base, day, price
<1>3. \A i \in seen : /\ i \in RowIds /\ base[i] \in Row
                      /\ Spent(base, day, price, i) \in Row
                      /\ Spent(base, day, price, i).redeemed <= Spent(base, day, price, i).earn
  <2>1. ASSUME NEW i \in seen
        PROVE  /\ i \in Live(base)
               /\ Spent(base, day, price, i) \in Row
               /\ Spent(base, day, price, i).redeemed <= Spent(base, day, price, i).earn
    BY <1>2, SpentFacts
  <2> QED BY <1>2, <2>1, RowFacts
<1>4. /\ NRows \in Nat /\ RowIds = 1..NRows /\ NoRow \notin Row
      /\ rows \in Table /\ rows' \in Table /\ Live(rows') = Live(rows)
  <2>1. NRows \in Nat /\ RowIds = 1..NRows /\ NoRow \notin Row /\ rows \in Table
    BY LoyaltyAssumption DEF RowIds, LInv, TypeOK, Table
  <2> HIDE DEF seen
  <2>2. rows' \in Table
    BY <1>1, <1>3, <2>1 DEF Table
  <2>3. \A i \in RowIds : rows'[i] # NoRow <=> rows[i] # NoRow
    BY <1>1, <1>3, <2>1 DEF Live
  <2> QED BY <2>1, <2>2, <2>3 DEF Live
<1>5. Sound(rows')
  <2> HIDE DEF seen
  <2>1. \A i \in Live(rows') : i \in RowIds /\ i \in Live(rows)
    BY <1>4 DEF Live
  <2> QED BY <1>1, <1>3, <2>1 DEF LInv, Sound
<1>6. TypeOK'
  BY <1>1, <1>2, <1>4 DEF LInv, TypeOK, Table
<1>7. ASSUME ~overwrote'
      PROVE  Total(Redeemed(rows'), NRows) = Total(Redeemed(rows), NRows) + price
  <2>1. /\ Redeemed(rows) \in [1..NRows -> Int] /\ Total(Redeemed(rows), NRows) \in Int
        /\ Redeemed(rows') \in [1..NRows -> Int] /\ Total(Redeemed(rows'), NRows) \in Int
    BY <1>4, RedeemedType
  <2>2. gives \in [1..NRows -> Int] /\ Total(gives, NRows) = price
    <3>1. gives \in [RowIds -> Nat] /\ Total(gives, NRows) = price
      BY <1>2, GivesThePrice
    <3> QED BY <1>4, <3>1
  <2>3. ASSUME NEW i \in 1..NRows
        PROVE  gives[i] = Redeemed(rows')[i] - Redeemed(rows)[i]
    <3>1. CASE i \in seen
      <4>1. rows[i] = base[i]
        BY <1>1, <1>7, <3>1
      <4>2. gives[i] = Spent(base, day, price, i).redeemed - base[i].redeemed
        BY <1>4, <3>1 DEF Gives
      <4>3. /\ Redeemed(rows)[i] = base[i].redeemed
            /\ Redeemed(rows')[i] = Spent(base, day, price, i).redeemed
        BY <1>1, <1>4, <3>1, <4>1 DEF Redeemed
      <4> QED BY <4>2, <4>3
    <3>2. CASE i \notin seen
      <4>1. gives[i] = 0
        BY <1>4, <3>2 DEF Gives
      <4>2. Redeemed(rows')[i] = Redeemed(rows)[i]
        BY <1>1, <1>4, <3>2 DEF Redeemed
      <4> HIDE DEF gives, seen
      <4> QED BY <2>1, <4>1, <4>2
    <3> QED BY <3>1, <3>2
  <2>4. Total(gives, NRows) = Total(Redeemed(rows'), NRows) - Total(Redeemed(rows), NRows)
    <3> HIDE DEF gives
    <3> QED BY <1>4, <2>1, <2>2, <2>3, TotalMinus
  <2> HIDE DEF gives
  <2> QED BY <1>2, <2>1, <2>2, <2>4
<1>8. PointsAccounted'
  <2> HIDE DEF seen, gives
  <2>1. ASSUME ~overwrote' PROVE paid' = Total(Redeemed(rows'), NRows)
    <3>1. paid = Total(Redeemed(rows), NRows)
      BY <1>1, <2>1 DEF LInv, PointsAccounted, Redeemed
    <3> QED BY <1>1, <1>7, <2>1, <3>1
  <2> QED BY <2>1 DEF PointsAccounted, Redeemed
<1>9. (req = [q \in Requests |-> req[q]])' /\ \A q \in Requests : RequestOK(req'[q])
  <2>1. RequestOK(Idle)
    BY DEF RequestOK
  <2> QED BY <1>1, <2>1 DEF LInv
<1> QED BY <1>5, <1>6, <1>8, <1>9 DEF LInv

LEMMA StepKeeps == LInv /\ [Next]_vars => LInv'
<1> SUFFICES ASSUME LInv, [Next]_vars PROVE LInv' OBVIOUS
<1>1. CASE Next
  BY <1>1, EarnKeeps, EarnAgainKeeps, RemoveOrderKeeps, ToMyLoyaltyKeeps, CheckCodeKeeps,
     RedeemKeeps, CommitKeeps, FailKeeps, NextDayKeeps DEF Next
<1>2. CASE UNCHANGED vars
  BY <1>2 DEF vars, LInv, TypeOK, PointsAccounted, Live
<1> QED BY <1>1, <1>2

-----------------------------------------------------------------------------
(* The theorems *)

\* The inductive invariant: what a request read stays good for its award, and
\* saving, deleting and redeeming keep the sum of what was redeemed.
THEOREM Invariance == Spec => []LInv
<1> QED BY InitEstablishes, StepKeeps, PTL DEF Spec

\* The points of every award are on the records, once, unless a commit wrote
\* over a record that was changed since it was read
\* (LoyaltyPointsTransactionServiceImpl's resetLoyaltyPointsTransaction).
THEOREM PointsAreAccounted == Spec => []PointsAccounted
<1>1. LInv => PointsAccounted BY DEF LInv
<1> QED BY <1>1, Invariance, PTL

LEMMA CommitTakesOldest ==
    ASSUME LInv, NEW r \in Requests, Commit(r), NEW i \in RowIds, NEW j \in RowIds,
           i \in Usable(req[r].base, req[r].day), j \in Usable(req[r].base, req[r].day),
           IsAhead(req[r].base, i, j), rows'[j] # rows[j]
    PROVE  Remaining(rows'[i]) = 0
<1> DEFINE base  == req[r].base
           day   == req[r].day
           price == req[r].price
           seen  == Visited(base, day, price)
<1>1. /\ req[r].state = "read"
      /\ rows' = [k \in RowIds |-> IF k \in seen THEN Spent(base, day, price, k) ELSE rows[k]]
  BY DEF Commit
<1>2. base \in Table /\ Sound(base) /\ price \in Nat
  BY <1>1, ReadFacts
<1> HIDE DEF base, day, price
<1>3. i \in Usable(base, day) /\ j \in Usable(base, day) /\ IsAhead(base, i, j)
  BY DEF base, day
<1>4. j \in seen /\ Open(base, day, price, j) \in Nat
  <2>1. j \in seen
    BY <1>1
  <2> QED BY <1>2, <2>1, SpentFacts
<1>5. /\ Remaining(base[i]) \in Nat /\ base[i].redeemed \in Nat
      /\ base[i].earn = base[i].redeemed + Remaining(base[i])
  <2>1. i \in Live(base)
    BY <1>3 DEF Usable
  <2>2. /\ Remaining(base[i]) \in Nat /\ base[i].redeemed \in Nat /\ base[i].earn \in Nat
    BY <1>2, <2>1, RowFacts
  <2> QED BY <2>2 DEF Remaining
<1>6. /\ Open(base, day, price, i) >= Open(base, day, price, j) + Remaining(base[i])
      /\ Open(base, day, price, i) \in Int
  BY <1>2, <1>3, OpenFallsBehind, TablesOfPoints DEF OpenAt
<1>7. Open(base, day, price, i) >= Remaining(base[i]) /\ Open(base, day, price, i) >= 0
  BY <1>4, <1>5, <1>6
<1>8. i \in seen
  BY <1>3, <1>7 DEF Visited
<1>9. /\ Spent(base, day, price, i).redeemed = base[i].redeemed + Remaining(base[i])
      /\ Spent(base, day, price, i).earn = base[i].earn
  BY <1>2, <1>7, <1>8, SpentFacts
<1>10. rows'[i] = Spent(base, day, price, i)
  BY <1>1, <1>8
<1> QED BY <1>5, <1>9, <1>10 DEF Remaining

\* An award touches a record only when it uses up every older one the request
\* read (the loop of resetLoyaltyPointsTransaction).
THEOREM AwardsTakeOldest == Spec => OldestPointsFirst
<1>1. ASSUME LInv, Next, awards' > awards
      PROVE  \E r \in Requests :
               /\ req[r].state = "read" /\ req'[r] = Idle
               /\ \A i, j \in RowIds :
                    /\ i \in Usable(req[r].base, req[r].day)
                    /\ j \in Usable(req[r].base, req[r].day)
                    /\ IsAhead(req[r].base, i, j)
                    /\ rows'[j] # rows[j]
                    => Remaining(rows'[i]) = 0
  <2>1. awards \in Nat
    BY <1>1 DEF LInv, TypeOK
  <2>2. PICK r \in Requests : Commit(r)
    <3>1. awards' # awards
      BY <1>1, <2>1
    <3>2. ASSUME NEW o \in OrderIds, NEW k \in RowIds, NEW v \in Worths, NEW date \in Days
          PROVE  ~Earn(o, k, v, date) /\ ~EarnAgain(o, k, v, date) /\ ~EarnAnew(o, k, v, date)
      BY <3>1 DEF Earn, EarnAgain, EarnAnew
    <3>3. ASSUME NEW o \in OrderIds PROVE ~RemoveOrder(o)
      BY <3>1 DEF RemoveOrder
    <3>4. ASSUME NEW s \in Sessions PROVE ~ToMyLoyalty(s)
      BY <3>1 DEF ToMyLoyalty
    <3>5. ASSUME NEW q \in Requests, NEW s \in Sessions, NEW price \in Prices
          PROVE  ~CheckCode(q, s, price)
      BY <3>1 DEF CheckCode
    <3>6. ASSUME NEW q \in Requests PROVE ~Redeem(q) /\ ~Fail(q)
      BY <3>1 DEF Redeem, Fail
    <3>7. ~NextDay
      BY <3>1 DEF NextDay
    <3> QED BY <1>1, <3>2, <3>3, <3>4, <3>5, <3>6, <3>7 DEF Next
  <2>3. req[r].state = "read" /\ req'[r] = Idle
    BY <1>1, <2>2 DEF Commit, LInv
  <2> QED BY <1>1, <2>2, <2>3, CommitTakesOldest
<1>2. LInv /\ [Next]_vars => [awards' > awards =>
         \E r \in Requests :
           /\ req[r].state = "read" /\ req'[r] = Idle
           /\ \A i, j \in RowIds :
                /\ i \in Usable(req[r].base, req[r].day)
                /\ j \in Usable(req[r].base, req[r].day)
                /\ IsAhead(req[r].base, i, j)
                /\ rows'[j] # rows[j]
                => Remaining(rows'[i]) = 0]_vars
  BY <1>1
<1> QED BY <1>2, Invariance, PTL DEF Spec, OldestPointsFirst

-----------------------------------------------------------------------------
(* One active record for an order *)

OInv ==
    ~overwrote => /\ \A i \in Live(rows) : rows[i].order \in orders
                  /\ OneActiveRecord

LEMMA OInitEstablishes == Init => OInv
BY DEF Init, OInv, Live, OneActiveRecord, ActiveRowsOf, RowsOf

\* A record that is written for an order which had none active, or in place
\* of the one that was.
LEMMA OneRowWritten ==
    ASSUME LInv, OInv, NEW o \in OrderIds, NEW i \in RowIds, NEW row \in Row,
           row.order = o, o \in orders', orders \subseteq orders',
           rows' = [rows EXCEPT ![i] = row], overwrote' = overwrote,
           ~overwrote => ActiveRowsOf(o) \subseteq {i},
           ~overwrote => i \notin Live(rows) \/ rows[i].order = o
    PROVE  OInv'
<1> SUFFICES ASSUME ~overwrote PROVE OInv'
  BY DEF OInv
<1>1. rows \in [RowIds -> Row \union {NoRow}] /\ NoRow \notin Row
  BY LoyaltyAssumption DEF LInv, TypeOK
<1>2. /\ Live(rows') = Live(rows) \union {i}
      /\ \A k \in Live(rows') : rows'[k] = IF k = i THEN row ELSE rows[k]
  BY <1>1 DEF Live
<1>3. \A k \in Live(rows') : rows'[k].order \in orders'
  BY <1>2 DEF OInv
<1>4. ASSUME NEW p \in OrderIds, NEW k \in ActiveRowsOf(p)', NEW m \in ActiveRowsOf(p)'
      PROVE  k = m
  <2>1. /\ k \in Live(rows') /\ rows'[k].order = p /\ rows'[k].active
        /\ m \in Live(rows') /\ rows'[m].order = p /\ rows'[m].active
    BY DEF ActiveRowsOf, RowsOf
  <2>2. \A n \in Live(rows') : n # i => n \in Live(rows) /\ rows'[n] = rows[n]
    BY <1>2
  <2>3. CASE p = o
    <3>1. \A n \in {k, m} : n # i => n \in ActiveRowsOf(o)
      BY <2>1, <2>2, <2>3 DEF ActiveRowsOf, RowsOf
    <3> QED BY <3>1
  <2>4. CASE p # o
    <3>1. k # i /\ m # i
      BY <1>2, <2>1, <2>4
    <3>2. k \in ActiveRowsOf(p) /\ m \in ActiveRowsOf(p)
      BY <2>1, <2>2, <3>1 DEF ActiveRowsOf, RowsOf
    <3> QED BY <3>2 DEF OInv, OneActiveRecord
  <2> QED BY <2>3, <2>4
<1> QED BY <1>3, <1>4 DEF OInv, OneActiveRecord

\* Rows that only go, or only turn inactive.
LEMMA RowsOnlyClosed ==
    ASSUME OInv,
           ~overwrote' =>
               /\ ~overwrote
               /\ Live(rows') \subseteq Live(rows)
               /\ \A i \in Live(rows') : /\ rows'[i].order = rows[i].order
                                         /\ rows'[i].active => rows[i].active
                                         /\ rows[i].order \in orders => rows[i].order \in orders'
    PROVE  OInv'
<1> SUFFICES ASSUME ~overwrote' PROVE OInv'
  BY DEF OInv
<1>1. \A i \in Live(rows') : rows'[i].order \in orders'
  BY DEF OInv
<1>2. \A p \in OrderIds : ActiveRowsOf(p)' \subseteq ActiveRowsOf(p)
  BY DEF ActiveRowsOf, RowsOf
<1> QED BY <1>1, <1>2 DEF OInv, OneActiveRecord

LEMMA OEarnKeeps ==
    ASSUME LInv, OInv, NEW o \in OrderIds, NEW i \in RowIds, NEW v \in Worths,
           NEW date \in Days,
           Earn(o, i, v, date) \/ EarnAgain(o, i, v, date) \/ EarnAnew(o, i, v, date)
    PROVE  OInv'
<1> DEFINE row == Earned(o, v, date)
<1>1. row \in Row /\ row.order = o
  BY EarnedFacts DEF Earned
<1>2. /\ rows' = [rows EXCEPT ![i] = row] /\ overwrote' = overwrote
      /\ o \in orders' /\ orders \subseteq orders'
  BY DEF Earn, EarnAgain, EarnAnew
<1> HIDE DEF row
<1>3. CASE Earn(o, i, v, date)
  <2>1. o \notin orders /\ IsFresh(i)
    BY <1>3 DEF Earn
  <2>2. i \notin Live(rows)
    BY <2>1, FreshIsEmpty DEF LInv
  <2>3. ~overwrote => ActiveRowsOf(o) = {}
    BY <2>1 DEF OInv, ActiveRowsOf, RowsOf
  <2> QED BY <1>1, <1>2, <2>2, <2>3, OneRowWritten
<1>4. CASE EarnAgain(o, i, v, date)
  <2>1. i \in ActiveRowsOf(o)
    BY <1>4 DEF EarnAgain, FirstRow
  <2>2. ~overwrote => ActiveRowsOf(o) \subseteq {i}
    BY <2>1 DEF OInv, OneActiveRecord
  <2>3. rows[i].order = o
    BY <2>1 DEF ActiveRowsOf, RowsOf
  <2> QED BY <1>1, <1>2, <2>2, <2>3, OneRowWritten
<1>5. CASE EarnAnew(o, i, v, date)
  <2>1. FirstRow(o) = {} /\ IsFresh(i)
    BY <1>5 DEF EarnAnew
  <2>2. i \notin Live(rows)
    BY <2>1, FreshIsEmpty DEF LInv
  <2>3. ASSUME ~overwrote, NEW k \in ActiveRowsOf(o) PROVE FALSE
    <3>1. \A j \in ActiveRowsOf(o) : j = k
      BY <2>3 DEF OInv, OneActiveRecord
    <3> QED BY <2>1, <2>3, <3>1 DEF FirstRow
  <2> QED BY <1>1, <1>2, <2>2, <2>3, OneRowWritten
<1> QED BY <1>3, <1>4, <1>5

LEMMA ORemoveOrderKeeps ==
    ASSUME LInv, OInv, NEW o \in OrderIds, RemoveOrder(o)
    PROVE  OInv'
<1>1. /\ overwrote' = overwrote /\ orders' = orders \ {o}
      /\ rows' = [i \in RowIds |-> IF i \in RowsOf(o) THEN NoRow ELSE rows[i]]
  BY DEF RemoveOrder
<1>2. \A i \in Live(rows') : i \in Live(rows) /\ rows'[i] = rows[i] /\ rows[i].order # o
  BY <1>1 DEF Live, RowsOf
<1> QED BY <1>1, <1>2, RowsOnlyClosed

LEMMA OCommitKeeps ==
    ASSUME LInv, OInv, NEW r \in Requests, Commit(r)
    PROVE  OInv'
<1> DEFINE base  == req[r].base
           day   == req[r].day
           price == req[r].price
           seen  == Visited(base, day, price)
<1>1. /\ req[r].state = "read" /\ seen \subseteq Live(rows) /\ orders' = orders
      /\ rows' = [i \in RowIds |-> IF i \in seen THEN Spent(base, day, price, i) ELSE rows[i]]
      /\ overwrote' = (overwrote \/ \E i \in seen : rows[i] # base[i])
  BY DEF Commit
<1>2. base \in Table
  BY <1>1, ReadFacts
<1> HIDE DEF base, day, price, seen
<1>3. ASSUME ~overwrote', NEW i \in Live(rows')
      PROVE  /\ i \in Live(rows) /\ rows'[i].order = rows[i].order
             /\ rows'[i].active => rows[i].active
  <2>1. CASE i \in seen
    <3>1. /\ i \in Live(rows) /\ rows[i] = base[i]
          /\ rows'[i] = Spent(base, day, price, i)
      BY <1>1, <1>3, <2>1 DEF Live
    <3>2. rows[i] \in Row
      BY <3>1 DEF Live, LInv, TypeOK
    <3>3. \/ rows'[i] = [rows[i] EXCEPT !.redeemed = rows[i].earn, !.active = FALSE]
          \/ \E n : rows'[i] = [rows[i] EXCEPT !.redeemed = n]
      BY <3>1 DEF Spent
    <3> QED BY <3>1, <3>2, <3>3 DEF Row
  <2>2. CASE i \notin seen
    BY <1>1, <2>2 DEF Live
  <2> QED BY <2>1, <2>2
<1> QED BY <1>1, <1>3, RowsOnlyClosed

LEMMA OStepKeeps == LInv /\ OInv /\ [Next]_vars => OInv'
<1> SUFFICES ASSUME LInv, OInv, [Next]_vars PROVE OInv' OBVIOUS
<1>1. ASSUME UNCHANGED <<rows, orders, overwrote>> PROVE OInv'
  BY <1>1, RowsOnlyClosed
<1>2. CASE Next
  <2>1. ASSUME NEW s \in Sessions, ToMyLoyalty(s) PROVE OInv'
    BY <1>1, <2>1 DEF ToMyLoyalty
  <2>2. ASSUME NEW r \in Requests, NEW s \in Sessions, NEW price \in Prices,
               CheckCode(r, s, price)
        PROVE  OInv'
    BY <1>1, <2>2 DEF CheckCode
  <2>3. ASSUME NEW r \in Requests, Redeem(r) \/ Fail(r) PROVE OInv'
    BY <1>1, <2>3 DEF Redeem, Fail
  <2>4. ASSUME NextDay PROVE OInv'
    BY <1>1, <2>4 DEF NextDay
  <2> QED BY <1>2, <2>1, <2>2, <2>3, <2>4, OEarnKeeps, ORemoveOrderKeeps, OCommitKeeps DEF Next
<1>3. CASE UNCHANGED vars
  BY <1>1, <1>3 DEF vars
<1> QED BY <1>2, <1>3

\* However often an order is saved, redeemed from and saved again
\* (LoyaltyPointsTransactionServiceImpl's saveLoyaltyPointsTransaction), it
\* has one active record, unless a commit overwrote one.
THEOREM OrderHasOneRecord == Spec => []OneActiveRecord
<1>1. Spec => []OInv
  BY OInitEstablishes, OStepKeeps, Invariance, PTL DEF Spec
<1>2. OInv => OneActiveRecord
  <2> SUFFICES ASSUME OInv, ~overwrote PROVE OneActiveRecord
    BY DEF OneActiveRecord
  <2> QED BY DEF OInv
<1> QED BY <1>1, <1>2, PTL

-----------------------------------------------------------------------------
(* One award for each page *)

\* The codes that wait in a session to be used, and the requests that used
\* one and have yet to give out their voucher.
Marked  == {s \in Sessions : code[s]}
Reading == {r \in Requests : req[r].state = "read"}

\* A request that passed the check alone finds the code still there: it is the
\* one that takes it away.
CodeIsThere ==
    \A r \in Requests : req[r].state = "checked" =>
        /\ code[req[r].session]
        /\ \A q \in Requests : req[q].state = "checked" /\ req[q].session = req[r].session
                                 => q = r

\* Each page opened is a code, a request under way, an award, or was wasted.
PagesCounted == awards + Cardinality(Reading) + Cardinality(Marked) <= opened

PInv ==
    /\ IsFiniteSet(Marked) /\ IsFiniteSet(Reading)
    /\ ~raced => CodeIsThere /\ PagesCounted

\* Counting needs what was counted to be numbers.
LEMMA CountsAreNumbers ==
    ASSUME LInv, PInv
    PROVE  /\ Cardinality(Marked) \in Nat /\ Cardinality(Reading) \in Nat
           /\ awards \in Nat /\ opened \in Nat
<1>1. awards \in Nat /\ opened \in Nat
  BY DEF LInv, TypeOK
<1> QED BY <1>1, FS_CardinalityType DEF PInv

LEMMA PInitEstablishes == Init => PInv
<1> SUFFICES ASSUME Init PROVE PInv OBVIOUS
<1>1. Marked = {} /\ Reading = {}
  BY DEF Init, Marked, Reading, Idle
<1>2. CodeIsThere
  BY DEF Init, CodeIsThere, Idle
<1>3. awards = 0 /\ opened = 0
  BY DEF Init
<1>4. Cardinality({}) = 0 /\ IsFiniteSet({})
  BY FS_EmptySet
<1>5. PagesCounted
  BY <1>1, <1>3, <1>4 DEF PagesCounted
<1> QED BY <1>1, <1>2, <1>4, <1>5 DEF PInv

\* What does not open a page nor redeem.
LEMMA PagesAside ==
    ASSUME PInv, UNCHANGED <<code, req, opened, awards, raced>>
    PROVE  PInv'
<1>1. Marked' = Marked /\ Reading' = Reading
  BY DEF Marked, Reading
<1>2. CodeIsThere => CodeIsThere'
  BY DEF CodeIsThere
<1>3. PagesCounted => PagesCounted'
  BY <1>1 DEF PagesCounted
<1>4. raced' = raced
  OBVIOUS
<1> QED BY <1>1, <1>2, <1>3, <1>4 DEF PInv

\* A page gives its session a code, or a new one for an old.
LEMMA PToMyLoyaltyKeeps ==
    ASSUME LInv, PInv, NEW s \in Sessions, ToMyLoyalty(s)
    PROVE  PInv'
<1>1. /\ opened' = opened + 1 /\ awards' = awards /\ raced' = raced /\ req' = req
      /\ \A x \in Sessions : code'[x] = (x = s \/ code[x])
  BY DEF ToMyLoyalty, LInv, TypeOK
<1>2. Marked' = Marked \union {s} /\ Reading' = Reading
  BY <1>1 DEF Marked, Reading
<1>3. /\ IsFiniteSet(Marked') /\ IsFiniteSet(Reading')
      /\ Cardinality(Marked') <= Cardinality(Marked) + 1
  <2>1. /\ IsFiniteSet(Marked \union {s})
        /\ Cardinality(Marked \union {s}) = IF s \in Marked THEN Cardinality(Marked)
                                             ELSE Cardinality(Marked) + 1
    BY FS_AddElement DEF PInv
  <2> QED BY <1>2, <2>1, CountsAreNumbers DEF PInv
<1>4. CodeIsThere => CodeIsThere'
  <2> SUFFICES ASSUME CodeIsThere PROVE CodeIsThere'
    OBVIOUS
  <2>1. ASSUME NEW r \in Requests, req[r].state = "checked"
        PROVE  code'[req[r].session]
    <3>1. req[r].session \in Sessions
      BY <2>1 DEF LInv, RequestOK, Idle
    <3> QED BY <1>1, <2>1, <3>1 DEF CodeIsThere
  <2> QED BY <1>1, <2>1 DEF CodeIsThere
<1>5. PagesCounted => PagesCounted'
  <2>1. PICK m, k, n : m = Cardinality(Marked) /\ k = Cardinality(Marked') /\ n = Cardinality(Reading)
    OBVIOUS
  <2>2. k \in Nat
    BY <1>3, <2>1, FS_CardinalityType
  <2>3. m \in Nat /\ n \in Nat /\ awards \in Nat /\ opened \in Nat /\ k <= m + 1
    BY <1>3, <2>1, CountsAreNumbers
  <2>4. awards + n + m <= opened => awards + n + k <= opened + 1
    BY <2>2, <2>3
  <2> QED BY <1>1, <1>2, <2>1, <2>4 DEF PagesCounted
<1> QED BY <1>1, <1>3, <1>4, <1>5 DEF PInv

\* A second request that passes the check is what raced records.
LEMMA PCheckCodeKeeps ==
    ASSUME LInv, PInv, NEW r \in Requests, NEW s \in Sessions, NEW price \in Prices,
           CheckCode(r, s, price)
    PROVE  PInv'
<1>1. /\ opened' = opened /\ awards' = awards /\ code' = code /\ code[s]
      /\ req[r].state = "idle"
      /\ raced' = (raced \/ \E q \in Requests : req[q].state = "checked" /\ req[q].session = s)
  BY DEF CheckCode
<1>2. /\ req'[r].state = "checked" /\ req'[r].session = s
      /\ \A q \in Requests : q # r => req'[q] = req[q]
  BY DEF CheckCode, LInv
<1>3. Marked' = Marked /\ Reading' = Reading
  BY <1>1, <1>2 DEF Marked, Reading
<1>4. PagesCounted => PagesCounted'
  BY <1>1, <1>3 DEF PagesCounted
<1>5. ~raced' => ~raced /\ \A q \in Requests : req[q].state = "checked" => req[q].session # s
  BY <1>1 DEF LInv, TypeOK
<1>6. ASSUME CodeIsThere, \A q \in Requests : req[q].state = "checked" => req[q].session # s
      PROVE  CodeIsThere'
  BY <1>1, <1>2, <1>6 DEF CodeIsThere
<1> QED BY <1>3, <1>4, <1>5, <1>6 DEF PInv

\* The code is used up by the request that goes on, if it does.
LEMMA PRedeemKeeps ==
    ASSUME LInv, PInv, NEW r \in Requests, Redeem(r)
    PROVE  PInv'
<1>0. PICK s : s = req[r].session
  OBVIOUS
<1>1. /\ req[r].state = "checked" /\ s \in Sessions
      /\ opened' = opened /\ awards' = awards /\ raced' = raced
      /\ \A x \in Sessions : code'[x] = (x # s /\ code[x])
      /\ \A q \in Requests : q # r => req'[q] = req[q]
  <2>1. req[r].state = "checked" /\ opened' = opened /\ awards' = awards /\ raced' = raced
    BY DEF Redeem
  <2>2. s \in Sessions
    BY <1>0, <2>1 DEF LInv, RequestOK, Idle
  <2>3. \A x \in Sessions : code'[x] = (x # s /\ code[x])
    BY <1>0, <2>2 DEF Redeem, LInv, TypeOK
  <2>4. \A q \in Requests : q # r => req'[q] = req[q]
    BY DEF Redeem, LInv
  <2> QED BY <2>1, <2>2, <2>3, <2>4
<1>2. req'[r].state \in {"read", "idle"}
  BY DEF Redeem, LInv, Idle
<1>3. Marked' = Marked \ {s} /\ r \notin Reading /\ Reading' \in {Reading, Reading \union {r}}
  BY <1>1, <1>2 DEF Marked, Reading
<1>4. /\ IsFiniteSet(Marked') /\ IsFiniteSet(Reading')
      /\ s \in Marked => Cardinality(Marked') = Cardinality(Marked) - 1
      /\ Cardinality(Reading') <= Cardinality(Reading) + 1
  <2>1. /\ IsFiniteSet(Marked \ {s})
        /\ s \in Marked => Cardinality(Marked \ {s}) = Cardinality(Marked) - 1
    BY FS_RemoveElement DEF PInv
  <2>2. /\ IsFiniteSet(Reading \union {r})
        /\ Cardinality(Reading \union {r}) = Cardinality(Reading) + 1
    BY <1>3, FS_AddElement DEF PInv
  <2>3. IsFiniteSet(Reading') /\ Cardinality(Reading') <= Cardinality(Reading) + 1
    BY <1>3, <2>2, CountsAreNumbers DEF PInv
  <2> QED BY <1>3, <2>1, <2>3
<1>5. ASSUME CodeIsThere
      PROVE  CodeIsThere' /\ s \in Marked
  <2>1. s \in Marked
    BY <1>0, <1>1, <1>5 DEF CodeIsThere, Marked
  <2>2. ASSUME NEW q \in Requests, req'[q].state = "checked"
        PROVE  q # r /\ req[q].state = "checked" /\ code'[req[q].session]
    <3>1. q # r /\ req'[q] = req[q]
      BY <1>1, <1>2, <2>2
    <3>2. req[q].session # s /\ code[req[q].session]
      BY <1>0, <1>1, <1>5, <2>2, <3>1 DEF CodeIsThere
    <3>3. req[q].session \in Sessions
      BY <2>2, <3>1 DEF LInv, RequestOK, Idle
    <3> QED BY <1>1, <2>2, <3>1, <3>2, <3>3
  <2>3. CodeIsThere'
    BY <1>1, <1>5, <2>2 DEF CodeIsThere
  <2> QED BY <2>1, <2>3
<1>6. ASSUME s \in Marked, PagesCounted
      PROVE  PagesCounted'
  <2>1. PICK m, k, n, i : /\ m = Cardinality(Marked) /\ k = Cardinality(Marked')
                          /\ n = Cardinality(Reading) /\ i = Cardinality(Reading')
    OBVIOUS
  <2>2. i \in Nat
    BY <1>4, <2>1, FS_CardinalityType
  <2>3. m \in Nat /\ n \in Nat /\ awards \in Nat /\ opened \in Nat /\ i <= n + 1 /\ k = m - 1
    BY <1>4, <1>6, <2>1, CountsAreNumbers
  <2>4. awards + n + m <= opened => awards + i + k <= opened
    BY <2>2, <2>3
  <2> QED BY <1>1, <1>6, <2>1, <2>4 DEF PagesCounted
<1> QED BY <1>1, <1>4, <1>5, <1>6 DEF PInv

\* The voucher, or the failure, of a request that used its code.
LEMMA PEndKeeps ==
    ASSUME LInv, PInv, NEW r \in Requests, Commit(r) \/ Fail(r)
    PROVE  PInv'
<1>1. /\ req[r].state = "read" /\ req'[r] = Idle
      /\ \A q \in Requests : q # r => req'[q] = req[q]
      /\ opened' = opened /\ code' = code /\ raced' = raced
      /\ awards' \in {awards, awards + 1}
  BY DEF Commit, Fail, LInv
<1>2. Marked' = Marked /\ Reading' = Reading \ {r} /\ r \in Reading
  BY <1>1 DEF Marked, Reading, Idle
<1>3. IsFiniteSet(Reading') /\ Cardinality(Reading') = Cardinality(Reading) - 1
  BY <1>2, FS_RemoveElement DEF PInv
<1>4. CodeIsThere => CodeIsThere'
  BY <1>1 DEF CodeIsThere, Idle
<1>5. PagesCounted => PagesCounted'
  <2>1. PICK m, n, i : /\ m = Cardinality(Marked)
                       /\ n = Cardinality(Reading) /\ i = Cardinality(Reading')
    OBVIOUS
  <2>2. m \in Nat /\ n \in Nat /\ awards \in Nat /\ opened \in Nat /\ i = n - 1
    BY <1>3, <2>1, CountsAreNumbers
  <2>3. PICK a : a = awards'
    OBVIOUS
  <2>4. a = awards \/ a = awards + 1
    BY <1>1, <2>3
  <2>5. awards + n + m <= opened => a + i + m <= opened
    BY <2>2, <2>4
  <2> QED BY <1>1, <1>2, <2>1, <2>3, <2>5 DEF PagesCounted
<1> QED BY <1>1, <1>2, <1>3, <1>4, <1>5 DEF PInv

LEMMA PStepKeeps == LInv /\ PInv /\ [Next]_vars => PInv'
<1> SUFFICES ASSUME LInv, PInv, [Next]_vars PROVE PInv' OBVIOUS
<1>1. CASE Next
  <2>1. ASSUME NEW o \in OrderIds, NEW i \in RowIds, NEW v \in Worths, NEW date \in Days,
               Earn(o, i, v, date) \/ EarnAgain(o, i, v, date) \/ EarnAnew(o, i, v, date)
        PROVE  PInv'
    BY <2>1, PagesAside DEF Earn, EarnAgain, EarnAnew
  <2>2. ASSUME NEW o \in OrderIds, RemoveOrder(o) PROVE PInv'
    BY <2>2, PagesAside DEF RemoveOrder
  <2>3. ASSUME NextDay PROVE PInv'
    BY <2>3, PagesAside DEF NextDay
  <2> QED BY <1>1, <2>1, <2>2, <2>3, PToMyLoyaltyKeeps, PCheckCodeKeeps, PRedeemKeeps, PEndKeeps
          DEF Next
<1>2. CASE UNCHANGED vars
  BY <1>2, PagesAside DEF vars
<1> QED BY <1>1, <1>2

\* However many requests a member's browsers send, a page of awards gives one
\* voucher (redeemAward, whose form carries the code of the page), unless two
\* requests passed the check of one code before either took it away.
THEOREM PageGivesOneAward == Spec => []OneAwardPerPage
<1>1. Spec => []PInv
  BY PInitEstablishes, PStepKeeps, Invariance, PTL DEF Spec
<1>2. LInv /\ PInv => OneAwardPerPage
  <2> SUFFICES ASSUME LInv, PInv, ~raced PROVE awards <= opened
    BY DEF OneAwardPerPage
  <2>1. PICK m, n : m = Cardinality(Marked) /\ n = Cardinality(Reading)
    OBVIOUS
  <2>2. m \in Nat /\ n \in Nat /\ awards \in Nat /\ opened \in Nat
    BY <2>1, CountsAreNumbers
  <2>3. awards + n + m <= opened
    BY <2>1 DEF PInv, PagesCounted
  <2> QED BY <2>2, <2>3
<1> QED BY <1>1, <1>2, Invariance, PTL
=============================================================================
