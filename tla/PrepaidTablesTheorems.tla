----------------------- MODULE PrepaidTablesTheorems -----------------------
(***************************************************************************)
(* What TLAPS knows of Total, of paying an amount from a queue, and of the *)
(* service methods of PrepaidTables: for any tables that refer to one      *)
(* another, what a method leaves.  PrepaidLedger cites these for its       *)
(* steps, PrepaidSessions for the rows a request computes from what it     *)
(* read, PrepaidRedemption for the prepaids the loop has taken from.       *)
(* Where a proof would be by induction on the ids it looks at the least id *)
(* that fails instead.                                                     *)
(***************************************************************************)
EXTENDS PrepaidTables, WellFoundedInduction, TLAPS

-----------------------------------------------------------------------------
(* Totals *)

\* s is a table of running totals of a.
Sums(s, a, n) == s = [i \in 0..n |-> IF i = 0 THEN 0 ELSE s[i - 1] + a[i]]

\* A set of numbers has a least member.
LEMMA LeastMember ==
    ASSUME NEW T \in SUBSET Nat, T # {}
    PROVE  \E m \in T : \A k \in T : m <= k
<1>1. PICK m \in T : \A k \in T : ~(<<k, m>> \in OpToRel(<, Nat))
  BY WFMin, NatLessThanWellFounded
<1>2. \A k \in T : ~(k < m)
  BY <1>1 DEF OpToRel
<1> QED BY <1>2

\* A function as the recursive definition asks for exists.
LEMMA RunningTotalExists ==
    ASSUME NEW n \in Nat, NEW a \in [1..n -> Int]
    PROVE  \E s \in [0..n -> Int] : Sums(s, a, n)
<1> DEFINE Upto(k, s) == s[0] = 0 /\ \A i \in 1..k : s[i] = s[i - 1] + a[i]
           Good == {k \in 0..n : \E s \in [0..k -> Int] : Upto(k, s)}
           Bad == (0..n) \ Good
<1>1. 0 \in Good
  <2> DEFINE z == [i \in 0..0 |-> 0]
  <2>1. z \in [0..0 -> Int]
    OBVIOUS
  <2>2. Upto(0, z)
    BY DEF Upto
  <2> HIDE DEF z, Upto
  <2> QED BY <2>1, <2>2
<1>2. ASSUME NEW k \in 0..n, k # 0, k - 1 \in Good
      PROVE  k \in Good
  <2>1. PICK s \in [0..(k - 1) -> Int] : Upto(k - 1, s)
    BY <1>2
  <2> DEFINE g == [i \in 0..k |-> IF i = k THEN s[k - 1] + a[k] ELSE s[i]]
  <2>2. g \in [0..k -> Int]
    BY <1>2
  <2>3. g[0] = 0
    BY <1>2, <2>1
  <2>4. ASSUME NEW i \in 1..k PROVE g[i] = g[i - 1] + a[i]
    <3>1. CASE i = k
      <4>1. g[k] = s[k - 1] + a[k]
        OBVIOUS
      <4>2. g[k - 1] = s[k - 1]
        BY <1>2
      <4> QED BY <3>1, <4>1, <4>2
    <3>2. CASE i # k
      <4>1. i \in 1..(k - 1) /\ i \in 0..k /\ i - 1 \in 0..k /\ i - 1 # k
        BY <3>2
      <4>2. g[i] = s[i] /\ g[i - 1] = s[i - 1]
        BY <4>1, <3>2
      <4>3. s[i] = s[i - 1] + a[i]
        BY <4>1, <2>1
      <4> QED BY <4>2, <4>3
    <3> QED BY <3>1, <3>2
  <2>5. Upto(k, g)
    BY <2>3, <2>4
  <2> HIDE DEF Upto, g
  <2> QED BY <2>2, <2>5
<1>3. Bad = {}
  <2>1. SUFFICES ASSUME Bad # {} PROVE FALSE
    OBVIOUS
  <2>a. Bad \in SUBSET Nat
    OBVIOUS
  <2>2. PICK m \in Bad : \A k \in Bad : m <= k
    <3> HIDE DEF Bad
    <3> QED BY <2>1, <2>a, LeastMember
  <2>3. m \in 0..n /\ m # 0 /\ m - 1 \in 0..n
    BY <2>2, <1>1, SMTT(30)
  <2>4. m - 1 \in Good
    <3> HIDE DEF Good
    <3> QED BY <2>2, <2>3
  <2>5. m \in Good
    <3> HIDE DEF Good
    <3> QED BY <2>3, <2>4, <1>2
  <2> QED BY <2>2, <2>5
<1>4. n \in Good
  <2> HIDE DEF Good
  <2> QED BY <1>3
<1>5. PICK s \in [0..n -> Int] : Upto(n, s)
  BY <1>4
<1>6. Sums(s, a, n)
  BY <1>5 DEF Sums
<1> QED BY <1>6

(***************************************************************************)
(* What the recursive definition says, now that a function like it exists. *)
(***************************************************************************)
LEMMA RunningTotalDef ==
    ASSUME NEW n \in Nat, NEW a \in [1..n -> Int]
    PROVE  /\ RunningTotal(a, n) \in [0..n -> Int]
           /\ RunningTotal(a, n)[0] = 0
           /\ \A i \in 1..n :
                 RunningTotal(a, n)[i] = RunningTotal(a, n)[i - 1] + a[i]
<1> DEFINE r == RunningTotal(a, n)
           Bad == {i \in 0..n : r[i] \notin Int}
<1>1. Sums(r, a, n)
  BY RunningTotalExists DEF Sums, RunningTotal
<1> HIDE DEF r
<1>2. r[0] = 0 /\ \A i \in 1..n : r[i] = r[i - 1] + a[i]
  BY <1>1 DEF Sums
<1>3. Bad = {}
  <2>1. SUFFICES ASSUME Bad # {} PROVE FALSE
    OBVIOUS
  <2>2. PICK m \in Bad : \A k \in Bad : m <= k
    <3>1. Bad \in SUBSET Nat
      OBVIOUS
    <3> HIDE DEF Bad
    <3> QED BY <2>1, <3>1, LeastMember
  <2>3. m \in 1..n /\ m - 1 \in 0..n
    BY <2>2, <1>2
  <2>4. r[m - 1] \in Int
    BY <2>2, <2>3
  <2>5. r[m] = r[m - 1] + a[m] /\ a[m] \in Int
    BY <2>3, <1>2
  <2> QED BY <2>2, <2>4, <2>5
<1>4. r = [i \in 0..n |-> r[i]]
  BY <1>1 DEF Sums
<1>5. r \in [0..n -> Int]
  BY <1>3, <1>4
<1> QED BY <1>2, <1>5 DEF r

(***************************************************************************)
(* Any function that adds up like the running totals ends in the total.    *)
(***************************************************************************)
LEMMA TotalIs ==
    ASSUME NEW n \in Nat, NEW a \in [1..n -> Int], NEW s \in [0..n -> Int],
           s[0] = 0, \A i \in 1..n : s[i] = s[i - 1] + a[i]
    PROVE  Total(a, n) = s[n]
<1> DEFINE r == RunningTotal(a, n)
           Bad == {i \in 0..n : r[i] # s[i]}
<1>1. r \in [0..n -> Int] /\ r[0] = 0 /\ \A i \in 1..n : r[i] = r[i - 1] + a[i]
  BY RunningTotalDef
<1> HIDE DEF r
<1>2. Bad = {}
  <2>1. SUFFICES ASSUME Bad # {} PROVE FALSE
    OBVIOUS
  <2>2. PICK m \in Bad : \A k \in Bad : m <= k
    <3>1. Bad \in SUBSET Nat
      OBVIOUS
    <3> HIDE DEF Bad
    <3> QED BY <2>1, <3>1, LeastMember
  <2>3. m \in 1..n /\ m - 1 \in 0..n
    BY <2>2, <1>1
  <2>4. r[m - 1] = s[m - 1]
    BY <2>2, <2>3
  <2>5. r[m] = s[m]
    BY <2>3, <2>4, <1>1
  <2> QED BY <2>2, <2>5
<1>3. r[n] = s[n]
  <2>1. n \in 0..n
    OBVIOUS
  <2>2. n \notin Bad
    BY <1>2
  <2> QED BY <2>1, <2>2
<1> QED BY <1>3 DEF Total, r

\* The total of integers is an integer.
THEOREM TotalType ==
    ASSUME NEW n \in Nat, NEW a \in [1..n -> Int]
    PROVE  Total(a, n) \in Int
BY RunningTotalDef DEF Total

(***************************************************************************)
(* Changing one entry by d changes the total by d.                         *)
(***************************************************************************)
LEMMA TotalChangeOne ==
    ASSUME NEW n \in Nat, NEW a \in [1..n -> Int], NEW b \in [1..n -> Int],
           NEW k \in 1..n, NEW d \in Int, b[k] = a[k] + d,
           \A i \in 1..n : i # k => b[i] = a[i]
    PROVE  Total(b, n) = Total(a, n) + d
<1> DEFINE r == RunningTotal(a, n)
           s == [i \in 0..n |-> IF i >= k THEN r[i] + d ELSE r[i]]
<1>1. r \in [0..n -> Int] /\ r[0] = 0 /\ \A i \in 1..n : r[i] = r[i - 1] + a[i]
  BY RunningTotalDef
<1> HIDE DEF r
<1>2. s \in [0..n -> Int] /\ s[0] = 0
  <2>1. ASSUME NEW i \in 0..n PROVE r[i] \in Int /\ r[i] + d \in Int
    <3>1. r[i] \in Int
      BY <1>1
    <3> QED BY <3>1
  <2>2. s \in [0..n -> Int]
    BY <2>1
  <2>3. s[0] = r[0]
    OBVIOUS
  <2> QED BY <1>1, <2>2, <2>3
<1>3. ASSUME NEW i \in 1..n PROVE s[i] = s[i - 1] + b[i]
  <2>0. i \in 0..n /\ i - 1 \in 0..n /\ (i = k => i - 1 < k)
    OBVIOUS
  <2>1. r[i] = r[i - 1] + a[i] /\ r[i] \in Int /\ r[i - 1] \in Int /\ a[i] \in Int
    BY <1>1, <2>0
  <2>2. s[i] = (IF i >= k THEN r[i] + d ELSE r[i])
    BY <2>0
  <2>3. s[i - 1] = (IF i - 1 >= k THEN r[i - 1] + d ELSE r[i - 1])
    BY <2>0
  <2> HIDE DEF s
  <2>4. CASE i = k
    BY <2>1, <2>2, <2>3, <2>4
  <2>5. CASE i # k
    <3>1. b[i] = a[i] /\ (i >= k <=> i - 1 >= k)
      BY <2>5
    <3> QED BY <2>1, <2>2, <2>3, <3>1
  <2> QED BY <2>4, <2>5
<1>4. s[n] = r[n] + d
  OBVIOUS
<1>5. Total(b, n) = s[n]
  <2> HIDE DEF s
  <2> QED BY <1>2, <1>3, TotalIs
<1> QED BY <1>4, <1>5 DEF Total, r

(***************************************************************************)
(* Totals subtract entry by entry.                                         *)
(***************************************************************************)
LEMMA TotalMinus ==
    ASSUME NEW n \in Nat, NEW a \in [1..n -> Int], NEW b \in [1..n -> Int],
           NEW c \in [1..n -> Int], \A i \in 1..n : c[i] = a[i] - b[i]
    PROVE  Total(c, n) = Total(a, n) - Total(b, n)
<1> DEFINE ra == RunningTotal(a, n)
           rb == RunningTotal(b, n)
           s == [i \in 0..n |-> ra[i] - rb[i]]
<1>1. ra \in [0..n -> Int] /\ ra[0] = 0 /\ \A i \in 1..n : ra[i] = ra[i - 1] + a[i]
  BY RunningTotalDef
<1>2. rb \in [0..n -> Int] /\ rb[0] = 0 /\ \A i \in 1..n : rb[i] = rb[i - 1] + b[i]
  BY RunningTotalDef
<1> HIDE DEF ra, rb
<1>3. s \in [0..n -> Int] /\ s[0] = 0
  BY <1>1, <1>2
<1>4. ASSUME NEW i \in 1..n PROVE s[i] = s[i - 1] + c[i]
  <2>0. i \in 0..n /\ i - 1 \in 0..n
    OBVIOUS
  <2>1. ra[i] = ra[i - 1] + a[i] /\ ra[i] \in Int /\ ra[i - 1] \in Int /\ a[i] \in Int
    BY <1>1, <2>0
  <2>2. rb[i] = rb[i - 1] + b[i] /\ rb[i] \in Int /\ rb[i - 1] \in Int /\ b[i] \in Int
    BY <1>2, <2>0
  <2>3. s[i] = ra[i] - rb[i] /\ s[i - 1] = ra[i - 1] - rb[i - 1]
    BY <2>0
  <2>4. c[i] = a[i] - b[i]
    OBVIOUS
  <2> HIDE DEF s
  <2> QED BY <2>1, <2>2, <2>3, <2>4
<1>5. s[n] = ra[n] - rb[n]
  OBVIOUS
<1>6. Total(c, n) = s[n]
  <2> HIDE DEF s
  <2> QED BY <1>3, <1>4, TotalIs
<1> QED BY <1>5, <1>6 DEF Total, ra, rb

(***************************************************************************)
(* A total of entries that are not negative is not negative.               *)
(***************************************************************************)
THEOREM TotalNonNegative ==
    ASSUME NEW n \in Nat, NEW a \in [1..n -> Nat]
    PROVE  Total(a, n) \in Nat
<1> DEFINE r == RunningTotal(a, n)
           Bad == {i \in 0..n : r[i] < 0}
<1>0. a \in [1..n -> Int]
  OBVIOUS
<1>1. r \in [0..n -> Int] /\ r[0] = 0 /\ \A i \in 1..n : r[i] = r[i - 1] + a[i]
  BY <1>0, RunningTotalDef
<1> HIDE DEF r
<1>2. Bad = {}
  <2>1. SUFFICES ASSUME Bad # {} PROVE FALSE
    OBVIOUS
  <2>2. Bad \in SUBSET Nat
    OBVIOUS
  <2>3. PICK m \in Bad : \A k \in Bad : m <= k
    <3> HIDE DEF Bad
    <3> QED BY <2>1, <2>2, LeastMember
  <2>4. m \in 1..n /\ m - 1 \in 0..n
    BY <2>3, <1>1
  <2>5. r[m - 1] >= 0
    BY <2>3, <2>4, <1>1
  <2>6. r[m] = r[m - 1] + a[m] /\ a[m] \in Nat /\ r[m - 1] \in Int
    BY <2>4, <1>1
  <2> QED BY <2>3, <2>5, <2>6
<1>3. r[n] \in Int /\ n \in 0..n
  BY <1>1
<1>4. ~(r[n] < 0)
  BY <1>2, <1>3
<1>5. r[n] \in Nat
  BY <1>3, <1>4
<1> QED BY <1>5 DEF Total, r

(***************************************************************************)
(* No entry exceeds the total of entries that are not negative.            *)
(***************************************************************************)
THEOREM TotalBoundsEntry ==
    ASSUME NEW n \in Nat, NEW a \in [1..n -> Nat], NEW k \in 1..n
    PROVE  a[k] <= Total(a, n)
<1> DEFINE b == [i \in 1..n |-> IF i = k THEN 0 ELSE a[i]]
<1>1. b \in [1..n -> Nat] /\ b[k] = a[k] + (-a[k]) /\ \A i \in 1..n : i # k => b[i] = a[i]
  OBVIOUS
<1>2. a \in [1..n -> Int] /\ b \in [1..n -> Int] /\ a[k] \in Nat
  OBVIOUS
<1>3. -a[k] \in Int
  BY <1>2
<1> HIDE DEF b
<1>4. Total(b, n) = Total(a, n) + (-a[k])
  BY <1>1, <1>2, <1>3, TotalChangeOne
<1>5. Total(b, n) \in Nat /\ Total(a, n) \in Nat
  BY <1>1, TotalNonNegative
<1> QED BY <1>2, <1>4, <1>5

(***************************************************************************)
(* A total of nothing is nothing.                                          *)
(***************************************************************************)
THEOREM TotalZero ==
    ASSUME NEW n \in Nat, NEW a \in [1..n -> Int], \A i \in 1..n : a[i] = 0
    PROVE  Total(a, n) = 0
<1> DEFINE s == [i \in 0..n |-> 0]
<1>1. s \in [0..n -> Int] /\ s[0] = 0 /\ s[n] = 0 /\ \A i \in 1..n : s[i] = s[i - 1] + a[i]
  OBVIOUS
<1> HIDE DEF s
<1> QED BY <1>1, TotalIs

(***************************************************************************)
(* One entry is the whole total when the others are zero.                  *)
(***************************************************************************)
THEOREM TotalOne ==
    ASSUME NEW n \in Nat, NEW a \in [1..n -> Int], NEW k \in 1..n,
           \A i \in 1..n : i # k => a[i] = 0
    PROVE  Total(a, n) = a[k]
<1> DEFINE z == [i \in 1..n |-> 0]
<1>1. z \in [1..n -> Int] /\ a[k] \in Int /\ a[k] = z[k] + a[k]
      /\ (\A i \in 1..n : z[i] = 0) /\ (\A i \in 1..n : i # k => a[i] = z[i])
  OBVIOUS
<1> HIDE DEF z
<1>2. Total(z, n) = 0
  BY <1>1, TotalZero
<1>3. Total(a, n) = Total(z, n) + a[k]
  BY <1>1, TotalChangeOne
<1> QED BY <1>1, <1>2, <1>3

(***************************************************************************)
(* Entry by entry no greater, no greater in total.                         *)
(***************************************************************************)
THEOREM TotalMonotone ==
    ASSUME NEW n \in Nat, NEW a \in [1..n -> Int], NEW b \in [1..n -> Int],
           \A i \in 1..n : a[i] <= b[i]
    PROVE  Total(a, n) <= Total(b, n)
<1> DEFINE c == [i \in 1..n |-> b[i] - a[i]]
<1>1. c \in [1..n -> Nat]
  <2>1. ASSUME NEW i \in 1..n PROVE b[i] - a[i] \in Nat
    <3>1. a[i] \in Int /\ b[i] \in Int /\ a[i] <= b[i]
      OBVIOUS
    <3> QED BY <3>1
  <2> QED BY <2>1
<1>2. c \in [1..n -> Int] /\ \A i \in 1..n : c[i] = b[i] - a[i]
  OBVIOUS
<1> HIDE DEF c
<1>3. Total(c, n) \in Nat
  BY <1>1, TotalNonNegative
<1>4. Total(c, n) = Total(b, n) - Total(a, n)
  BY <1>2, TotalMinus
<1>5. Total(a, n) \in Int /\ Total(b, n) \in Int
  BY TotalType
<1> QED BY <1>3, <1>4, <1>5

(***************************************************************************)
(* With one entry x greater, and the others no less, so is the total.      *)
(***************************************************************************)
THEOREM TotalAtLeast ==
    ASSUME NEW n \in Nat, NEW a \in [1..n -> Int], NEW b \in [1..n -> Int],
           NEW k \in 1..n, NEW x \in Int, a[k] + x <= b[k],
           \A i \in 1..n : i # k => a[i] <= b[i]
    PROVE  Total(a, n) + x <= Total(b, n)
<1> DEFINE c == [i \in 1..n |-> IF i = k THEN a[k] + x ELSE a[i]]
<1>1. /\ c \in [1..n -> Int] /\ c[k] = a[k] + x
      /\ \A i \in 1..n : i # k => c[i] = a[i]
      /\ \A i \in 1..n : c[i] <= b[i]
  OBVIOUS
<1> HIDE DEF c
<1>2. Total(c, n) = Total(a, n) + x
  BY <1>1, TotalChangeOne
<1>3. Total(c, n) <= Total(b, n)
  BY <1>1, TotalMonotone
<1> QED BY <1>2, <1>3

-----------------------------------------------------------------------------
(***************************************************************************)
(* Paying an amount from a queue, as the redemption loop of                *)
(* PurchaseOrderServiceImpl pays an item from the transactions of a        *)
(* prepaid: each member of the queue gives what it has until those ahead   *)
(* of it have covered the amount.  The queue is a set U of ids with a      *)
(* strict linear order L; stock[t] is what member t has, ahead[t] what is  *)
(* had by those ahead of t, open[t] what these leave to pay, taken[t] what *)
(* t gives.                                                                *)
(***************************************************************************)
IsQueue(n, U, L) ==
    /\ U \subseteq 1..n
    /\ \A t \in U : <<t, t>> \notin L
    /\ \A t, u \in U : t = u \/ <<t, u>> \in L \/ <<u, t>> \in L
    /\ \A t, u, v \in U : <<t, u>> \in L /\ <<u, v>> \in L => <<t, v>> \in L

IsDrained(n, U, L, stock, ahead, open, taken, q) ==
    /\ stock \in [1..n -> Nat] /\ ahead \in [1..n -> [1..n -> Nat]]
    /\ open \in [1..n -> Int] /\ taken \in [1..n -> Nat]
    /\ \A t \in U : stock[t] > 0
    /\ \A t \in U, u \in 1..n :
          ahead[t][u] = IF u \in U /\ <<u, t>> \in L THEN stock[u] ELSE 0
    /\ \A t \in U : open[t] = q - Total(ahead[t], n)
    /\ \A t \in 1..n :
          taken[t] = IF t \notin U \/ open[t] <= 0 THEN 0
                     ELSE IF open[t] <= stock[t] THEN open[t] ELSE stock[t]

\* What is known of one member of the queue.
LEMMA MemberFacts ==
    ASSUME NEW n \in Nat, NEW U, NEW L, NEW stock, NEW ahead, NEW open, NEW taken,
           NEW q \in Nat, IsQueue(n, U, L),
           IsDrained(n, U, L, stock, ahead, open, taken, q), NEW t \in U
    PROVE  /\ t \in 1..n
           /\ stock[t] \in Nat /\ stock[t] \in Int /\ stock[t] > 0
           /\ open[t] \in Int /\ taken[t] \in Nat
           /\ ahead[t] \in [1..n -> Nat] /\ ahead[t] \in [1..n -> Int]
           /\ ahead[t][t] = 0
           /\ Total(ahead[t], n) \in Nat /\ open[t] = q - Total(ahead[t], n)
           /\ taken[t] = IF open[t] <= 0 THEN 0
                         ELSE IF open[t] <= stock[t] THEN open[t] ELSE stock[t]
<1>1. t \in 1..n
  BY DEF IsQueue
<1>2. stock \in [1..n -> Nat] /\ stock[t] > 0
  BY DEF IsDrained
<1>3. stock[t] \in Nat
  BY <1>1, <1>2
<1>4. open \in [1..n -> Int] /\ taken \in [1..n -> Nat]
  BY DEF IsDrained
<1>5. open[t] \in Int /\ taken[t] \in Nat
  BY <1>1, <1>4
<1>6. ahead \in [1..n -> [1..n -> Nat]]
  BY DEF IsDrained
<1>7. ahead[t] \in [1..n -> Nat]
  BY <1>1, <1>6
<1>8. ahead[t] \in [1..n -> Int]
  BY <1>7
<1>9. ahead[t][t] = 0
  <2>1. <<t, t>> \notin L
    BY DEF IsQueue
  <2>2. ahead[t][t] = IF t \in U /\ <<t, t>> \in L THEN stock[t] ELSE 0
    BY <1>1 DEF IsDrained
  <2> QED BY <2>1, <2>2
<1>10. Total(ahead[t], n) \in Nat
  BY <1>7, TotalNonNegative
<1>11. open[t] = q - Total(ahead[t], n)
  BY DEF IsDrained
<1>12. taken[t] = IF t \notin U \/ open[t] <= 0 THEN 0
                 ELSE IF open[t] <= stock[t] THEN open[t] ELSE stock[t]
  BY <1>1 DEF IsDrained
<1> QED BY <1>1, <1>2, <1>3, <1>5, <1>7, <1>8, <1>9, <1>10, <1>11, <1>12

\* What a member finds ahead of it: all of those before it, nothing of others.
LEMMA AheadFacts ==
    ASSUME NEW n \in Nat, NEW U, NEW L, NEW stock, NEW ahead, NEW open, NEW taken,
           NEW q \in Nat, IsQueue(n, U, L),
           IsDrained(n, U, L, stock, ahead, open, taken, q),
           NEW t \in U, NEW i \in 1..n
    PROVE  ahead[t][i] = IF i \in U /\ <<i, t>> \in L THEN stock[i] ELSE 0
BY DEF IsDrained

\* A member has less left to pay than one ahead of it, by all the latter has.
LEMMA OpenFalls ==
    ASSUME NEW n \in Nat, NEW U, NEW L, NEW stock, NEW ahead, NEW open, NEW taken,
           NEW q \in Nat, IsQueue(n, U, L),
           IsDrained(n, U, L, stock, ahead, open, taken, q),
           NEW u \in U, NEW t \in U, <<u, t>> \in L
    PROVE  /\ Total(ahead[u], n) + stock[u] <= Total(ahead[t], n)
           /\ open[u] >= open[t] + stock[u]
<1> DEFINE a == ahead[u]
           b == ahead[t]
<1>1. /\ u \in 1..n /\ t \in 1..n /\ stock[u] \in Int
      /\ a \in [1..n -> Int] /\ b \in [1..n -> Int] /\ b \in [1..n -> Nat]
  BY MemberFacts
<1>2. a[u] + stock[u] <= b[u]
  <2>1. a[u] = 0 /\ b[u] = stock[u]
    BY <1>1, MemberFacts, AheadFacts
  <2> QED BY <2>1, <1>1
<1>3. ASSUME NEW i \in 1..n PROVE a[i] <= b[i]
  <2>1. CASE i \in U /\ <<i, u>> \in L
    <3>1. <<i, t>> \in L
      BY <2>1 DEF IsQueue
    <3>2. a[i] = stock[i] /\ b[i] = stock[i] /\ stock[i] \in Nat
      BY <2>1, <3>1, AheadFacts, MemberFacts
    <3> QED BY <3>2
  <2>2. CASE ~(i \in U /\ <<i, u>> \in L)
    <3>1. a[i] = 0
      BY <2>2, AheadFacts
    <3>2. b[i] \in Nat
      BY <1>1
    <3> QED BY <3>1, <3>2
  <2> QED BY <2>1, <2>2
<1>4. open[u] = q - Total(a, n) /\ open[t] = q - Total(b, n)
  BY MemberFacts
<1> HIDE DEF a, b
<1>5. Total(a, n) + stock[u] <= Total(b, n)
  BY <1>1, <1>2, <1>3, TotalAtLeast
<1>6. Total(a, n) \in Int /\ Total(b, n) \in Int
  BY <1>1, TotalType
<1>7. /\ Total(a, n) + stock[u] <= Total(b, n)
      /\ open[u] >= open[t] + stock[u]
  <2>1. stock[u] \in Int
    BY <1>1
  <2> QED BY <2>1, <1>4, <1>5, <1>6
<1> QED BY <1>7 DEF a, b

\* A member gives nothing while one ahead of it still has something.
LEMMA AheadDrained ==
    ASSUME NEW n \in Nat, NEW U, NEW L, NEW stock, NEW ahead, NEW open, NEW taken,
           NEW q \in Nat, IsQueue(n, U, L),
           IsDrained(n, U, L, stock, ahead, open, taken, q),
           NEW u \in U, NEW t \in U, <<u, t>> \in L, taken[t] > 0
    PROVE  taken[u] = stock[u]
<1>1. /\ stock[u] \in Nat /\ open[u] \in Int /\ open[t] \in Int
      /\ taken[u] = IF open[u] <= 0 THEN 0
                    ELSE IF open[u] <= stock[u] THEN open[u] ELSE stock[u]
  BY MemberFacts
<1>2. open[t] > 0
  <2>1. taken[t] = IF open[t] <= 0 THEN 0
                   ELSE IF open[t] <= stock[t] THEN open[t] ELSE stock[t]
    BY MemberFacts
  <2> QED BY <2>1, <1>1
<1>3. open[u] >= open[t] + stock[u]
  BY OpenFalls
<1>4. open[u] > 0 /\ open[u] > stock[u]
  BY <1>1, <1>2, <1>3
<1> QED BY <1>1, <1>4

\* No more is taken than the amount.
LEMMA TakenAtMost ==
    ASSUME NEW n \in Nat, NEW U, NEW L, NEW stock, NEW ahead, NEW open, NEW taken,
           NEW q \in Nat, IsQueue(n, U, L),
           IsDrained(n, U, L, stock, ahead, open, taken, q)
    PROVE  Total(taken, n) <= q
<1> DEFINE Givers == {t \in 1..n : taken[t] > 0}
<1>1. taken \in [1..n -> Int]
  BY DEF IsDrained
<1>2. CASE Givers = {}
  <2>1. ASSUME NEW i \in 1..n PROVE taken[i] = 0
    <3>1. taken[i] \in Nat
      BY DEF IsDrained
    <3>2. ~(taken[i] > 0)
      BY <1>2
    <3> QED BY <3>1, <3>2
  <2>2. Total(taken, n) = 0
    BY <1>1, <2>1, TotalZero
  <2> QED BY <2>2
<1>3. CASE Givers # {}
  <2> DEFINE T == {open[t] : t \in Givers}
  <2>1. ASSUME NEW t \in Givers
        PROVE  /\ t \in U /\ t \in 1..n /\ open[t] \in Nat /\ open[t] > 0
               /\ taken[t] <= open[t] /\ taken[t] <= stock[t] /\ taken[t] \in Nat
               /\ stock[t] \in Nat /\ stock[t] > 0
    <3>1. t \in 1..n /\ taken[t] > 0
      OBVIOUS
    <3>2. t \in U
      <4>1. taken[t] = IF t \notin U \/ open[t] <= 0 THEN 0
                       ELSE IF open[t] <= stock[t] THEN open[t] ELSE stock[t]
        BY <3>1 DEF IsDrained
      <4> QED BY <3>1, <4>1
    <3>3. /\ stock[t] \in Nat /\ stock[t] > 0 /\ open[t] \in Int /\ taken[t] \in Nat
          /\ taken[t] = IF open[t] <= 0 THEN 0
                        ELSE IF open[t] <= stock[t] THEN open[t] ELSE stock[t]
      BY <3>2, MemberFacts
    <3> QED BY <3>1, <3>2, <3>3
  <2>2. T \in SUBSET Nat /\ T # {}
    BY <1>3, <2>1
  <2> HIDE DEF Givers
  <2>3. \E m \in T : \A k \in T : m <= k
    BY <2>2, LeastMember
  <2>4. PICK t \in Givers : \A u \in Givers : open[t] <= open[u]
    BY <2>3
  <2> HIDE DEF T
  <2> DEFINE a == ahead[t]
  <2>5. a \in [1..n -> Int] /\ a[t] = 0 /\ open[t] = q - Total(a, n)
    BY <2>1, MemberFacts
  <2>6. ASSUME NEW i \in 1..n, i # t PROVE taken[i] <= a[i]
    <3>1. CASE i \in Givers
      <4>1. i \in U /\ t \in U
        BY <2>1, <3>1
      <4>2. <<t, i>> \notin L
        <5>1. SUFFICES ASSUME <<t, i>> \in L PROVE FALSE
          OBVIOUS
        <5>2. open[t] >= open[i] + stock[t]
          BY <4>1, <5>1, OpenFalls
        <5> QED BY <5>2, <2>1, <2>4, <3>1
      <4>3. <<i, t>> \in L
        BY <4>1, <4>2, <2>6 DEF IsQueue
      <4>4. a[i] = stock[i]
        BY <4>1, <4>3, AheadFacts
      <4> QED BY <4>4, <2>1, <3>1
    <3>2. CASE i \notin Givers
      <4>1. taken[i] = 0
        <5>1. taken[i] \in Nat
          BY DEF IsDrained
        <5> QED BY <3>2, <5>1 DEF Givers
      <4>2. a[i] \in Nat
        BY <2>1, MemberFacts
      <4> QED BY <4>1, <4>2
    <3> QED BY <3>1, <3>2
  <2> HIDE DEF a
  <2> DEFINE x == -open[t]
  <2>7. x \in Int /\ taken[t] + x <= a[t] /\ t \in 1..n
    BY <2>1, <2>5
  <2>8. x = -open[t]
    OBVIOUS
  <2> HIDE DEF x
  <2>9. Total(taken, n) + x <= Total(a, n)
    BY <1>1, <2>5, <2>6, <2>7, TotalAtLeast
  <2>10. Total(a, n) \in Int /\ Total(taken, n) \in Int
    BY <1>1, <2>5, TotalType
  <2> QED BY <2>1, <2>5, <2>8, <2>9, <2>10
<1> QED BY <1>2, <1>3

\* When less is taken than the amount, every member has given all it had.
LEMMA ShortOnlyWhenEmpty ==
    ASSUME NEW n \in Nat, NEW U, NEW L, NEW stock, NEW ahead, NEW open, NEW taken,
           NEW q \in Nat, IsQueue(n, U, L),
           IsDrained(n, U, L, stock, ahead, open, taken, q),
           Total(taken, n) < q, NEW t0 \in U
    PROVE  taken[t0] = stock[t0]
<1> DEFINE Keepers == {t \in U : open[t] < stock[t]}
           T == {Total(ahead[t], n) : t \in Keepers}
<1>1. ASSUME NEW t \in U
      PROVE  /\ t \in 1..n /\ open[t] \in Int /\ stock[t] \in Nat /\ stock[t] > 0
             /\ taken[t] \in Nat /\ Total(ahead[t], n) \in Nat
             /\ open[t] = q - Total(ahead[t], n)
             /\ t \notin Keepers => taken[t] = stock[t]
  <2>1. /\ t \in 1..n /\ open[t] \in Int /\ stock[t] \in Nat /\ stock[t] > 0
        /\ taken[t] \in Nat /\ Total(ahead[t], n) \in Nat
        /\ open[t] = q - Total(ahead[t], n)
        /\ taken[t] = IF open[t] <= 0 THEN 0
                      ELSE IF open[t] <= stock[t] THEN open[t] ELSE stock[t]
    BY MemberFacts
  <2>2. t \notin Keepers => open[t] >= stock[t]
    BY <2>1
  <2>3. t \notin Keepers => taken[t] = stock[t]
    BY <2>1, <2>2
  <2> QED BY <2>1, <2>3
<1> SUFFICES ASSUME t0 \in Keepers PROVE FALSE
  BY <1>1
<1>2. T \in SUBSET Nat /\ T # {}
  BY <1>1
<1> HIDE DEF Keepers
<1>3. \E m \in T : \A k \in T : m <= k
  BY <1>2, LeastMember
<1>4. PICK t \in Keepers : \A u \in Keepers : Total(ahead[t], n) <= Total(ahead[u], n)
  BY <1>3
<1> HIDE DEF T
<1>5. t \in U /\ open[t] < stock[t]
  BY <1>4 DEF Keepers
<1> DEFINE a == ahead[t]
<1>6. a \in [1..n -> Int] /\ a[t] = 0 /\ t \in 1..n
  BY <1>5, MemberFacts
<1>7. ASSUME NEW i \in 1..n PROVE a[i] <= taken[i]
  <2>1. CASE i \in U /\ <<i, t>> \in L
    <3>1. Total(ahead[i], n) + stock[i] <= Total(ahead[t], n)
      BY <1>5, <2>1, OpenFalls
    <3>2. i \notin Keepers
      BY <3>1, <1>1, <1>4, <1>5, <2>1
    <3>3. taken[i] = stock[i] /\ a[i] = stock[i] /\ stock[i] \in Nat
      BY <3>2, <1>1, <1>5, <2>1, AheadFacts
    <3> QED BY <3>3
  <2>2. CASE ~(i \in U /\ <<i, t>> \in L)
    <3>1. a[i] = 0
      BY <2>2, <1>5, AheadFacts
    <3>2. taken[i] \in Nat
      BY DEF IsDrained
    <3> QED BY <3>1, <3>2
  <2> QED BY <2>1, <2>2
<1>8. taken \in [1..n -> Int]
  BY DEF IsDrained
<1>9. open[t] = q - Total(a, n) /\ Total(a, n) \in Nat /\ Total(taken, n) \in Int
  BY <1>1, <1>5, <1>8, TotalType
<1>10. CASE open[t] <= 0
  <2> HIDE DEF a
  <2>1. Total(a, n) <= Total(taken, n)
    BY <1>6, <1>7, <1>8, TotalMonotone
  <2> QED BY <1>9, <1>10, <2>1
<1>11. CASE open[t] > 0
  <2>1. taken[t] = open[t] /\ open[t] \in Int
    <3>1. /\ open[t] \in Int /\ stock[t] \in Nat
          /\ taken[t] = IF open[t] <= 0 THEN 0
                        ELSE IF open[t] <= stock[t] THEN open[t] ELSE stock[t]
      BY <1>5, MemberFacts
    <3> QED BY <3>1, <1>5, <1>11
  <2> DEFINE x == open[t]
  <2>2. a[t] + x <= taken[t] /\ x \in Int
    BY <1>6, <2>1
  <2> HIDE DEF a, x
  <2>3. Total(a, n) + x <= Total(taken, n)
    BY <1>6, <1>7, <1>8, <2>2, TotalAtLeast
  <2> QED BY <1>9, <2>3 DEF x
<1>12. open[t] \in Int
  BY <1>1, <1>5
<1> QED BY <1>10, <1>11, <1>12

-----------------------------------------------------------------------------
(* Tables that refer to one another *)

PttsRefer(db) == \A t \in Live(db.ptt) : db.ptt[t].prepaid \in Live(db.prepaid)

\* The payments there are after a method are for transactions there were.
PaymentsFrom(db, next) ==
    \A s \in Live(next.sale), t \in PttIds :
        next.sale[s].drawn[t] > 0 => t \in PttsOf(db, next.sale[s].prepaid)

\* A row that stays is still the same prepaid, transaction or order.
SameRows(db, next) ==
    /\ \A p \in Live(db.prepaid) :
          p \in Live(next.prepaid) => next.prepaid[p].type = db.prepaid[p].type
    /\ \A t \in Live(db.ptt) :
          t \in Live(next.ptt) => next.ptt[t].prepaid = db.ptt[t].prepaid
    /\ \A s \in Live(db.sale) :
          s \in Live(next.sale) => next.sale[s] = db.sale[s]

\* Where the row of a transaction did not change, neither did its payments.
RowsTell(db, next) ==
    \A t \in PttIds : next.ptt[t] = db.ptt[t] => DrawnOn(next, t) = DrawnOn(db, t)

Kept(db, next) ==
    /\ next \in Database
    /\ PttsRefer(next)
    /\ SumsAgree(db) => SumsAgree(next)
    /\ SameRows(db, next)
    /\ PaymentsFrom(db, next)
    /\ RowsTell(db, next)

\* The rows a method adds are new ones.
Adds(db, next, ps, ts, ss) ==
    /\ Live(next.prepaid) \subseteq Live(db.prepaid) \union ps
    /\ Live(next.ptt) \subseteq Live(db.ptt) \union ts
    /\ Live(next.sale) \subseteq Live(db.sale) \union ss

\* No balance of a transaction is negative, no order owes less than nothing.
Holds(db) ==
    /\ \A t \in Live(db.ptt) : db.ptt[t].remain >= 0
    /\ \A s \in Live(db.sale) : db.sale[s].due >= 0
    /\ PaymentsWithinItems(db)

\* What a method keeps of the money, granted before and granted2 after it.
MoneyKept(db, granted, next, granted2) ==
    /\ Holds(db) => Holds(next)
    /\ GrantsKept(db, granted) => GrantsKept(next, granted2)
    /\ CashAdds(db, granted) => CashAdds(next, granted2)

\* The transactions a checkout may draw on, as a queue to pay from.
Usable(db, p, today) == {t \in PttIds : IsUsable(db, p, today, t)}
AheadIn(db)          == {ut \in PttIds \X PttIds : IsAhead(db, ut[1], ut[2])}

Stock(db, p, today)       == [t \in PttIds |-> IF t \in Usable(db, p, today) THEN db.ptt[t].remain ELSE 0]
AheadOf(db, p, today)     == [t \in PttIds |-> UsableAhead(db, p, today, t)]
OpenAt(db, p, today, qty) == [t \in PttIds |-> qty - Total(AheadOf(db, p, today)[t], NPtts)]

-----------------------------------------------------------------------------
\* The tables are functions to rows or no row, and a live row has its type.
LEMMA RowTypes ==
    ASSUME NEW db \in Database
    PROVE  /\ db.prepaid \in [PrepaidIds -> PrepaidRow \union {NoRow}]
           /\ db.ptt \in [PttIds -> PttRow \union {NoRow}]
           /\ db.sale \in [SaleIds -> SaleRow \union {NoRow}]
           /\ \A p \in Live(db.prepaid) : p \in PrepaidIds /\ db.prepaid[p] \in PrepaidRow
           /\ \A t \in Live(db.ptt) : t \in PttIds /\ db.ptt[t] \in PttRow
           /\ \A s \in Live(db.sale) : s \in SaleIds /\ db.sale[s] \in SaleRow
BY DEF Database, Live

\* The amounts of a prepaid's transactions are integers.
LEMMA ColumnTypes ==
    ASSUME NEW db \in Database, NEW p
    PROVE  /\ InitOf(db, p) \in [PttIds -> Int]
           /\ RemainOf(db, p) \in [PttIds -> Int]
<1>1. \A t \in PttsOf(db, p) : db.ptt[t] \in PttRow
  BY RowTypes DEF PttsOf
<1> QED BY <1>1 DEF InitOf, RemainOf, PttRow

\* What live sales took from a transaction is a number, and so is its total.
LEMMA DrawnType ==
    ASSUME NEW db \in Database, NEW t \in PttIds
    PROVE  DrawnOn(db, t) \in [SaleIds -> Nat] /\ Total(DrawnOn(db, t), NSales) \in Nat
<1>1. DrawnOn(db, t) \in [SaleIds -> Nat]
  BY RowTypes DEF DrawnOn, SaleRow
<1> QED BY <1>1, TotalNonNegative, TablesAssumption DEF SaleIds

\* A prepaid none of whose amounts changes stays balanced.
LEMMA UntouchedStaysBalanced ==
    ASSUME NEW db \in Database, SumsAgree(db), NEW p \in Live(db.prepaid), NEW next,
           next.prepaid[p].init = db.prepaid[p].init,
           next.prepaid[p].remain = db.prepaid[p].remain,
           PttsOf(next, p) = PttsOf(db, p),
           \A t \in PttsOf(db, p) : /\ next.ptt[t].init = db.ptt[t].init
                                    /\ next.ptt[t].remain = db.ptt[t].remain
    PROVE  /\ next.prepaid[p].init = Total(InitOf(next, p), NPtts)
           /\ next.prepaid[p].remain = Total(RemainOf(next, p), NPtts)
<1>1. InitOf(next, p) = InitOf(db, p) /\ RemainOf(next, p) = RemainOf(db, p)
  BY DEF InitOf, RemainOf
<1> QED BY <1>1 DEF SumsAgree

\* A prepaid with one transaction is balanced when the two agree.
LEMMA SingleIsBalanced ==
    ASSUME NEW next \in Database, NEW p \in PrepaidIds, NEW t \in PttIds, PttsOf(next, p) = {t}
    PROVE  /\ Total(InitOf(next, p), NPtts) = next.ptt[t].init
           /\ Total(RemainOf(next, p), NPtts) = next.ptt[t].remain
<1> DEFINE a == InitOf(next, p)
           b == RemainOf(next, p)
<1>1. t \in Live(next.ptt)
  BY DEF PttsOf
<1>2. next.ptt[t] \in PttRow
  BY <1>1 DEF Database, Live
<1>3. /\ a \in [PttIds -> Int] /\ a[t] = next.ptt[t].init
      /\ b \in [PttIds -> Int] /\ b[t] = next.ptt[t].remain
      /\ \A i \in PttIds : i # t => a[i] = 0 /\ b[i] = 0
  BY <1>2 DEF InitOf, RemainOf, PttRow
<1> HIDE DEF a, b
<1>4. NPtts \in Nat /\ PttIds = 1..NPtts
  BY TablesAssumption DEF PttIds
<1>5. Total(a, NPtts) = a[t]
  BY <1>3, <1>4, TotalOne
<1>6. Total(b, NPtts) = b[t]
  BY <1>3, <1>4, TotalOne
<1> QED BY <1>3, <1>5, <1>6 DEF a, b

\* Two numbers whose difference stays the same change by the same amount.
LEMMA SameGap ==
    ASSUME NEW i \in Int, NEW i1 \in Int, NEW x \in Int, NEW x1 \in Int, NEW d \in Int,
           i1 - x1 = i - x, x1 = x + d
    PROVE  i1 = i + d
OBVIOUS

\* A prepaid one of whose transactions changes stays balanced when its own
\* amounts change by as much.
LEMMA ChangedStaysBalanced ==
    ASSUME NEW db \in Database, NEW next \in Database, SumsAgree(db),
           NEW p \in Live(db.prepaid), p \in Live(next.prepaid), NEW t \in PttIds,
           next.prepaid[p].init - InitOf(next, p)[t] = db.prepaid[p].init - InitOf(db, p)[t],
           next.prepaid[p].remain - RemainOf(next, p)[t] = db.prepaid[p].remain - RemainOf(db, p)[t],
           \A u \in PttIds : u # t => /\ InitOf(next, p)[u] = InitOf(db, p)[u]
                                     /\ RemainOf(next, p)[u] = RemainOf(db, p)[u]
    PROVE  /\ next.prepaid[p].init = Total(InitOf(next, p), NPtts)
           /\ next.prepaid[p].remain = Total(RemainOf(next, p), NPtts)
<1> DEFINE a == InitOf(db, p)
           b == RemainOf(db, p)
           a1 == InitOf(next, p)
           b1 == RemainOf(next, p)
<1>1. NPtts \in Nat /\ PttIds = 1..NPtts
  BY TablesAssumption DEF PttIds
<1>2. a \in [PttIds -> Int] /\ b \in [PttIds -> Int]
  BY ColumnTypes
<1>3. a1 \in [PttIds -> Int] /\ b1 \in [PttIds -> Int]
  BY ColumnTypes
<1>4. /\ \A u \in PttIds : u # t => a1[u] = a[u]
      /\ \A u \in PttIds : u # t => b1[u] = b[u]
      /\ next.prepaid[p].init - a1[t] = db.prepaid[p].init - a[t]
      /\ next.prepaid[p].remain - b1[t] = db.prepaid[p].remain - b[t]
  OBVIOUS
<1>5. /\ db.prepaid[p].init = Total(a, NPtts) /\ db.prepaid[p].remain = Total(b, NPtts)
      /\ db.prepaid[p].init \in Int /\ db.prepaid[p].remain \in Int
      /\ next.prepaid[p].init \in Int /\ next.prepaid[p].remain \in Int
  BY RowTypes DEF SumsAgree, PrepaidRow, Database, Live
<1> HIDE DEF a, b, a1, b1
<1>6. PICK d \in Int : a1[t] = a[t] + d
  <2>1. a[t] \in Int /\ a1[t] \in Int
    BY <1>2, <1>3
  <2> QED BY <2>1, a1[t] - a[t] \in Int
<1>7. PICK e \in Int : b1[t] = b[t] + e
  <2>1. b[t] \in Int /\ b1[t] \in Int
    BY <1>2, <1>3
  <2> QED BY <2>1, b1[t] - b[t] \in Int
<1>8. Total(a1, NPtts) = Total(a, NPtts) + d
  BY <1>1, <1>2, <1>3, <1>4, <1>6, TotalChangeOne
<1>9. Total(b1, NPtts) = Total(b, NPtts) + e
  BY <1>1, <1>2, <1>3, <1>4, <1>7, TotalChangeOne
<1>10. /\ next.prepaid[p].init = db.prepaid[p].init + d
      /\ next.prepaid[p].remain = db.prepaid[p].remain + e
  <2>1. a[t] \in Int /\ a1[t] \in Int /\ b[t] \in Int /\ b1[t] \in Int
    BY <1>2, <1>3
  <2>2. next.prepaid[p].init = db.prepaid[p].init + d
    <3>1. PICK i, i1, x, x1 : /\ i = db.prepaid[p].init /\ i1 = next.prepaid[p].init
                              /\ x = a[t] /\ x1 = a1[t]
      OBVIOUS
    <3>2. /\ i \in Int /\ i1 \in Int /\ x \in Int /\ x1 \in Int
          /\ i1 - x1 = i - x /\ x1 = x + d
      BY <1>4, <1>5, <1>6, <2>1, <3>1
    <3>3. i1 = i + d
      BY <3>2, SameGap
    <3> QED BY <3>1, <3>3
  <2>3. next.prepaid[p].remain = db.prepaid[p].remain + e
    <3>1. PICK i, i1, x, x1 : /\ i = db.prepaid[p].remain /\ i1 = next.prepaid[p].remain
                              /\ x = b[t] /\ x1 = b1[t]
      OBVIOUS
    <3>2. /\ i \in Int /\ i1 \in Int /\ x \in Int /\ x1 \in Int
          /\ i1 - x1 = i - x /\ x1 = x + e
      BY <1>4, <1>5, <1>7, <2>1, <3>1
    <3>3. i1 = i + e
      BY <3>2, SameGap
    <3> QED BY <3>1, <3>3
  <2> QED BY <2>2, <2>3
<1> QED BY <1>5, <1>8, <1>9, <1>10 DEF a1, b1

\* No row comes or goes and none changes hands: every reference still holds.
LEMMA ReferencesKept ==
    ASSUME NEW db \in Database, RowsRefer(db), NEW next,
           Live(next.prepaid) = Live(db.prepaid), Live(next.ptt) = Live(db.ptt),
           \A t \in Live(db.ptt) : next.ptt[t].prepaid = db.ptt[t].prepaid
    PROVE  /\ \A p : PttsOf(next, p) = PttsOf(db, p)
           /\ \A t \in Live(next.ptt) : next.ptt[t].prepaid \in Live(next.prepaid)
<1>1. \A t \in Live(next.ptt) : next.ptt[t].prepaid \in Live(next.prepaid)
  BY DEF RowsRefer
<1>2. ASSUME NEW p PROVE PttsOf(next, p) = PttsOf(db, p)
  BY DEF PttsOf
<1> QED BY <1>1, <1>2

\* An edited transaction has the type of a row and stays with its prepaid.
LEMMA EditedPttType ==
    ASSUME NEW row \in PttRow, NEW v \in Nat, NEW r \in Nat, NEW active \in BOOLEAN,
           NEW date \in Nat, NEW expiry \in Nat
    PROVE  /\ EditedPtt(row, v, r, active, date, expiry) \in PttRow
           /\ EditedPtt(row, v, r, active, date, expiry).prepaid = row.prepaid
           /\ EditedPtt(row, v, r, active, date, expiry).init = v
           /\ EditedPtt(row, v, r, active, date, expiry).remain = r
BY DEF PttRow, EditedPtt

\* Booking amounts on a prepaid gives a row with just these amounts added.
LEMMA BookedType ==
    ASSUME NEW row \in PrepaidRow, NEW i \in Int, NEW r \in Int
    PROVE  /\ Booked(row, i, r) \in PrepaidRow
           /\ Booked(row, i, r).init = row.init + i
           /\ Booked(row, i, r).remain = row.remain + r
BY DEF PrepaidRow, Booked

\* Initial values are numbers.
LEMMA InitValueType ==
    ASSUME NEW type, NEW v \in Nat
    PROVE  InitValue(type, v) \in Nat
BY DEF InitValue

\* What a method keeps that leaves the orders alone.
LEMMA KeptWithSales ==
    ASSUME NEW db \in Database, RowsRefer(db), NEW next \in Database, next.sale = db.sale,
           PttsRefer(next), SumsAgree(db) => SumsAgree(next),
           \A p \in Live(db.prepaid) :
              p \in Live(next.prepaid) => next.prepaid[p].type = db.prepaid[p].type,
           \A t \in Live(db.ptt) :
              t \in Live(next.ptt) => next.ptt[t].prepaid = db.ptt[t].prepaid
    PROVE  Kept(db, next)
<1>1. SameRows(db, next)
  BY DEF SameRows
<1>2. PaymentsFrom(db, next)
  BY DEF PaymentsFrom, RowsRefer
<1>3. RowsTell(db, next)
  BY DEF RowsTell, DrawnOn
<1> QED BY <1>1, <1>2, <1>3 DEF Kept

-----------------------------------------------------------------------------
\* Selling a prepaid: the new row's amounts are those of its one transaction.
LEMMA AddPrepaidKeeps ==
    ASSUME NEW db \in Database, RowsRefer(db), NEW p \in PrepaidIds, NEW t \in PttIds,
           NEW type \in PrepaidTypes, NEW v \in Nat, NEW date \in Nat, NEW expiry \in Nat,
           p \notin Live(db.prepaid), t \notin Live(db.ptt),
           NEW next, next = AddPrepaidDb(db, p, t, type, v, date, expiry)
    PROVE  Kept(db, next) /\ RowsRefer(next) /\ Adds(db, next, {p}, {t}, {})
<1> DEFINE init == InitValue(type, v)
           row  == [type |-> type, active |-> TRUE, init |-> init, remain |-> init]
           new  == NewPtt(p, TRUE, init, date, expiry)
<1>1. /\ next.prepaid = [db.prepaid EXCEPT ![p] = row]
      /\ next.ptt = [db.ptt EXCEPT ![t] = new]
      /\ next.sale = db.sale
      /\ next = [prepaid |-> next.prepaid, ptt |-> next.ptt, sale |-> next.sale]
  BY DEF AddPrepaidDb
<1>2. init \in Nat
  BY InitValueType
<1>3. row \in PrepaidRow /\ new \in PttRow
  BY <1>2 DEF NewPtt, PrepaidRow, PttRow
<1>4. p \notin Live(db.prepaid) /\ t \notin Live(db.ptt)
  OBVIOUS
<1> HIDE DEF init, row, new
<1>5. next \in Database
  BY <1>1, <1>3, RowTypes DEF Database
<1>6. /\ Live(next.prepaid) = Live(db.prepaid) \union {p}
      /\ Live(next.ptt) = Live(db.ptt) \union {t}
      /\ Live(next.sale) = Live(db.sale)
  BY <1>1, <1>3, RowTypes, TablesAssumption DEF Live
<1>7. new.prepaid = p /\ new.init = init /\ new.remain = init
      /\ row.init = init /\ row.remain = init
  BY DEF new, row, NewPtt
<1>8. PttsOf(next, p) = {t}
  BY <1>1, <1>4, <1>6, <1>7, RowTypes DEF PttsOf, RowsRefer
<1>9. \A q \in PrepaidIds : q # p => PttsOf(next, q) = PttsOf(db, q)
  BY <1>1, <1>4, <1>6, <1>7, RowTypes DEF PttsOf
<1>10. RowsRefer(next)
  <2>1. \A u \in Live(next.ptt) : next.ptt[u].prepaid \in Live(next.prepaid)
    BY <1>1, <1>4, <1>6, <1>7, RowTypes DEF RowsRefer
  <2>2. ASSUME NEW s \in Live(db.sale), NEW u \in PttIds, db.sale[s].drawn[u] > 0
        PROVE  u \in PttsOf(next, next.sale[s].prepaid)
    <3>1. u \in PttsOf(db, db.sale[s].prepaid)
      BY <2>2 DEF RowsRefer
    <3>2. db.sale[s].prepaid \in PrepaidIds /\ db.sale[s].prepaid # p
      BY <3>1, <1>4, RowTypes DEF PttsOf, RowsRefer
    <3> QED BY <3>1, <3>2, <1>9, <1>1
  <2> QED BY <2>1, <2>2, <1>1, <1>6 DEF RowsRefer
<1>11. SumsAgree(db) => SumsAgree(next)
  <2> SUFFICES ASSUME SumsAgree(db), NEW q \in Live(next.prepaid)
               PROVE  /\ next.prepaid[q].init = Total(InitOf(next, q), NPtts)
                      /\ next.prepaid[q].remain = Total(RemainOf(next, q), NPtts)
    BY DEF SumsAgree
  <2>1. CASE q = p
    BY <2>1, <1>1, <1>5, <1>7, <1>8, SingleIsBalanced, RowTypes
  <2>2. CASE q # p
    <3>1. q \in Live(db.prepaid) /\ q \in PrepaidIds /\ next.prepaid[q] = db.prepaid[q]
      BY <2>2, <1>1, <1>6, RowTypes
    <3>2. \A u \in PttsOf(db, q) : next.ptt[u] = db.ptt[u]
      BY <1>1, <1>4, RowTypes DEF PttsOf
    <3> QED BY <3>1, <3>2, <2>2, <1>9, UntouchedStaysBalanced
  <2> QED BY <2>1, <2>2
<1>12. /\ \A q \in Live(db.prepaid) : next.prepaid[q] = db.prepaid[q]
       /\ \A u \in Live(db.ptt) : next.ptt[u] = db.ptt[u]
  BY <1>1, <1>4, RowTypes
<1>13. Kept(db, next)
  BY <1>1, <1>5, <1>10, <1>11, <1>12, KeptWithSales DEF PttsRefer, RowsRefer
<1> QED BY <1>6, <1>10, <1>13 DEF Adds

\* A top-up: the new transaction's value is added to the prepaid; the carried
\* transactions change their expiry only.
LEMMA TopUpKeeps ==
    ASSUME NEW db \in Database, RowsRefer(db), NEW p \in PrepaidIds, p \in Live(db.prepaid),
           NEW t \in PttIds, NEW v \in Nat, NEW date \in Nat, NEW expiry \in Nat, t \notin Live(db.ptt),
           NEW next, next = TopUpDb(db, p, t, v, date, expiry)
    PROVE  Kept(db, next) /\ RowsRefer(next) /\ Adds(db, next, {}, {t}, {})
<1> DEFINE new == NewPtt(p, FALSE, v, date, expiry)
<1>1. /\ next.prepaid = [db.prepaid EXCEPT ![p] = Booked(@, v, v)]
      /\ next.ptt \in [PttIds -> PttRow \union {NoRow}]
      /\ next.ptt[t] = new
      /\ \A u \in PttIds \ {t} :
            /\ next.ptt[u] = NoRow <=> db.ptt[u] = NoRow
            /\ db.ptt[u] # NoRow => /\ next.ptt[u].prepaid = db.ptt[u].prepaid
                                    /\ next.ptt[u].init = db.ptt[u].init
                                    /\ next.ptt[u].remain = db.ptt[u].remain
      /\ next.sale = db.sale
      /\ next = [prepaid |-> next.prepaid, ptt |-> next.ptt, sale |-> next.sale]
  <2>1. v \in Nat /\ new \in PttRow
    BY DEF NewPtt, PttRow
  <2> DEFINE carried(u) == [db.ptt[u] EXCEPT !.expiry = expiry]
  <2>2. next.ptt = [u \in PttIds |->
                     IF u = t THEN new
                     ELSE IF u \in PttsOf(db, p) /\ db.ptt[u].active /\ db.ptt[u].remain > 0
                          THEN carried(u) ELSE db.ptt[u]]
    BY DEF TopUpDb
  <2>3. \A u \in PttsOf(db, p) :
           /\ carried(u) \in PttRow
           /\ carried(u).prepaid = db.ptt[u].prepaid
           /\ carried(u).init = db.ptt[u].init
           /\ carried(u).remain = db.ptt[u].remain
    BY RowTypes DEF PttsOf, PttRow
  <2>4. PttsOf(db, p) \subseteq Live(db.ptt) /\ \A u \in Live(db.ptt) : db.ptt[u] # NoRow
    BY DEF PttsOf, Live
  <2> HIDE DEF carried, new
  <2>5. next.ptt \in [PttIds -> PttRow \union {NoRow}]
    BY <2>1, <2>2, <2>3, RowTypes
  <2>6. next.ptt[t] = new
    BY <2>2
  <2>7. ASSUME NEW u \in PttIds \ {t}
        PROVE  /\ next.ptt[u] = NoRow <=> db.ptt[u] = NoRow
               /\ db.ptt[u] # NoRow => /\ next.ptt[u].prepaid = db.ptt[u].prepaid
                                       /\ next.ptt[u].init = db.ptt[u].init
                                       /\ next.ptt[u].remain = db.ptt[u].remain
    <3>1. next.ptt[u] = db.ptt[u] \/ (u \in PttsOf(db, p) /\ next.ptt[u] = carried(u))
      BY <2>2
    <3> QED BY <3>1, <2>3, <2>4, TablesAssumption
  <2> QED BY <2>5, <2>6, <2>7 DEF TopUpDb
<1>2. /\ v \in Nat /\ new \in PttRow
      /\ new.prepaid = p /\ new.init = v /\ new.remain = v
  BY DEF NewPtt, PttRow
<1>3. p \in Live(db.prepaid) /\ t \notin Live(db.ptt) /\ db.ptt[t] = NoRow
  BY RowTypes DEF Live
<1> HIDE DEF new
<1>4. /\ next.prepaid \in [PrepaidIds -> PrepaidRow \union {NoRow}]
      /\ next.prepaid[p] # NoRow
      /\ next.prepaid[p].init = db.prepaid[p].init + v
      /\ next.prepaid[p].remain = db.prepaid[p].remain + v
      /\ \A q \in PrepaidIds : q # p => next.prepaid[q] = db.prepaid[q]
  <2>1. db.prepaid[p] \in PrepaidRow
    BY <1>3, RowTypes
  <2> DEFINE prow == Booked(db.prepaid[p], v, v)
  <2>2. /\ prow \in PrepaidRow /\ prow.init = db.prepaid[p].init + v
        /\ prow.remain = db.prepaid[p].remain + v
    BY <1>2, <2>1, BookedType
  <2>3. next.prepaid = [db.prepaid EXCEPT ![p] = prow]
    BY <1>1
  <2> HIDE DEF prow
  <2> QED BY <2>2, <2>3, RowTypes, TablesAssumption
<1>5. next \in Database
  BY <1>1, <1>4, RowTypes DEF Database
<1>6. /\ Live(next.prepaid) = Live(db.prepaid)
      /\ Live(next.ptt) = Live(db.ptt) \union {t}
      /\ Live(next.sale) = Live(db.sale)
  BY <1>1, <1>2, <1>3, <1>4, RowTypes, TablesAssumption DEF Live
<1>7. PttsOf(next, p) = PttsOf(db, p) \union {t}
  BY <1>1, <1>2, <1>3, <1>6, RowTypes DEF PttsOf, Live
<1>8. \A q \in PrepaidIds : q # p => PttsOf(next, q) = PttsOf(db, q)
  BY <1>1, <1>2, <1>3, <1>6, RowTypes DEF PttsOf, Live
<1>9. RowsRefer(next)
  <2>1. \A u \in Live(next.ptt) : next.ptt[u].prepaid \in Live(next.prepaid)
    BY <1>1, <1>2, <1>3, <1>6, RowTypes DEF RowsRefer, Live
  <2>2. ASSUME NEW s \in Live(db.sale), NEW u \in PttIds, db.sale[s].drawn[u] > 0
        PROVE  u \in PttsOf(next, next.sale[s].prepaid)
    <3>1. u \in PttsOf(db, db.sale[s].prepaid) /\ db.sale[s].prepaid \in PrepaidIds
      BY <2>2, RowTypes DEF RowsRefer, SaleRow
    <3> QED BY <3>1, <1>7, <1>8, <1>1
  <2> QED BY <2>1, <2>2, <1>1, <1>6 DEF RowsRefer
<1>10. SumsAgree(db) => SumsAgree(next)
  <2> SUFFICES ASSUME SumsAgree(db), NEW q \in Live(db.prepaid)
               PROVE  /\ next.prepaid[q].init = Total(InitOf(next, q), NPtts)
                      /\ next.prepaid[q].remain = Total(RemainOf(next, q), NPtts)
    BY <1>6 DEF SumsAgree
  <2>1. CASE q = p
    <3>1. t \notin PttsOf(db, p)
      BY <1>3 DEF PttsOf
    <3>2. InitOf(next, p)[t] = InitOf(db, p)[t] + v /\ RemainOf(next, p)[t] = RemainOf(db, p)[t] + v
      BY <3>1, <1>1, <1>2, <1>7 DEF InitOf, RemainOf
    <3>3. \A u \in PttIds : u # t => /\ InitOf(next, p)[u] = InitOf(db, p)[u]
                                     /\ RemainOf(next, p)[u] = RemainOf(db, p)[u]
      BY <1>1, <1>7 DEF InitOf, RemainOf, PttsOf, Live
    <3>4. /\ next.prepaid[p].init - InitOf(next, p)[t] = db.prepaid[p].init - InitOf(db, p)[t]
          /\ next.prepaid[p].remain - RemainOf(next, p)[t] = db.prepaid[p].remain - RemainOf(db, p)[t]
      <4>1. InitOf(db, p)[t] = 0 /\ RemainOf(db, p)[t] = 0
        BY <3>1 DEF InitOf, RemainOf
      <4>2. db.prepaid[p].init \in Int /\ db.prepaid[p].remain \in Int
        BY <1>3, RowTypes DEF PrepaidRow
      <4> QED BY <4>1, <4>2, <3>2, <1>2, <1>4
    <3> QED BY <2>1, <3>3, <3>4, <1>3, <1>5, <1>6, ChangedStaysBalanced
  <2>2. CASE q # p
    <3>1. q \in PrepaidIds /\ next.prepaid[q] = db.prepaid[q]
      BY <2>2, <1>4, RowTypes
    <3>2. \A u \in PttsOf(db, q) : /\ next.ptt[u].init = db.ptt[u].init
                                   /\ next.ptt[u].remain = db.ptt[u].remain
      BY <1>1, <1>3, RowTypes DEF PttsOf, Live
    <3> QED BY <3>1, <3>2, <2>2, <1>8, UntouchedStaysBalanced
  <2> QED BY <2>1, <2>2
<1>11. \A q \in Live(db.prepaid) : next.prepaid[q].type = db.prepaid[q].type
  <2>1. Booked(db.prepaid[p], v, v).type = db.prepaid[p].type
    BY DEF Booked
  <2> QED BY <2>1, <1>1, RowTypes
<1>12. \A u \in Live(db.ptt) : next.ptt[u].prepaid = db.ptt[u].prepaid
  BY <1>1, <1>3, RowTypes DEF Live
<1>13. Kept(db, next)
  BY <1>1, <1>5, <1>9, <1>10, <1>11, <1>12, KeptWithSales DEF PttsRefer, RowsRefer
<1> QED BY <1>6, <1>9, <1>13 DEF Adds

\* The edit form of a prepaid: it and its one transaction get the same amounts.
LEMMA EditPrepaidKeeps ==
    ASSUME NEW db \in Database, RowsRefer(db), NEW p \in PrepaidIds, p \in Live(db.prepaid),
           NEW t \in PttIds, PttsOf(db, p) = {t}, NEW v \in Nat, NEW r \in Nat, NEW active \in BOOLEAN,
           NEW date \in Nat, NEW expiry \in Nat,
           NEW next, next = EditPrepaidDb(db, p, t, v, r, active, date, expiry)
    PROVE  Kept(db, next) /\ RowsRefer(next) /\ Adds(db, next, {}, {}, {})
<1> DEFINE init == InitValue(db.prepaid[p].type, v)
           prow == [type |-> db.prepaid[p].type, active |-> active, init |-> init, remain |-> r]
           trow == EditedPtt(db.ptt[t], init, r, active, date, expiry)
<1>1. /\ next.prepaid = [db.prepaid EXCEPT ![p] = prow]
      /\ next.ptt = [db.ptt EXCEPT ![t] = trow]
      /\ next.sale = db.sale
      /\ next = [prepaid |-> next.prepaid, ptt |-> next.ptt, sale |-> next.sale]
  BY RowTypes DEF EditPrepaidDb
<1>2. init \in Nat /\ r \in Nat
  BY InitValueType
<1>3. /\ p \in Live(db.prepaid) /\ db.prepaid[p] \in PrepaidRow
      /\ t \in Live(db.ptt) /\ db.ptt[t] \in PttRow /\ db.ptt[t].prepaid = p
      /\ PttsOf(db, p) = {t}
  BY RowTypes DEF PttsOf
<1> HIDE DEF init
<1>4. /\ prow \in PrepaidRow /\ prow.init = init /\ prow.remain = r
      /\ trow \in PttRow /\ trow.init = init /\ trow.remain = r /\ trow.prepaid = p
  <2>1. prow \in PrepaidRow /\ prow.init = init /\ prow.remain = r
    BY <1>2, <1>3 DEF PrepaidRow
  <2>2. trow \in PttRow /\ trow.init = init /\ trow.remain = r /\ trow.prepaid = p
    BY <1>2, <1>3 DEF EditedPtt, PttRow
  <2> QED BY <2>1, <2>2
<1> HIDE DEF prow, trow
<1>5. next \in Database
  BY <1>1, <1>4, RowTypes DEF Database
<1>6. /\ Live(next.prepaid) = Live(db.prepaid)
      /\ Live(next.ptt) = Live(db.ptt)
      /\ \A u \in Live(db.ptt) : next.ptt[u].prepaid = db.ptt[u].prepaid
  BY <1>1, <1>3, <1>4, RowTypes, TablesAssumption DEF Live
<1>7. \A q : PttsOf(next, q) = PttsOf(db, q)
  BY <1>6, ReferencesKept
<1>8. RowsRefer(next)
  BY <1>1, <1>6, <1>7, ReferencesKept DEF RowsRefer
<1>9. SumsAgree(db) => SumsAgree(next)
  <2> SUFFICES ASSUME SumsAgree(db), NEW q \in Live(db.prepaid)
               PROVE  /\ next.prepaid[q].init = Total(InitOf(next, q), NPtts)
                      /\ next.prepaid[q].remain = Total(RemainOf(next, q), NPtts)
    BY <1>6 DEF SumsAgree
  <2>1. CASE q = p
    BY <2>1, <1>1, <1>3, <1>4, <1>5, <1>7, SingleIsBalanced, RowTypes
  <2>2. CASE q # p
    <3>1. q \in PrepaidIds /\ next.prepaid[q] = db.prepaid[q]
      BY <2>2, <1>1, RowTypes
    <3>2. \A u \in PttsOf(db, q) : next.ptt[u] = db.ptt[u]
      BY <2>2, <1>1, <1>3, RowTypes DEF PttsOf
    <3> QED BY <3>1, <3>2, <1>7, UntouchedStaysBalanced
  <2> QED BY <2>1, <2>2
<1>10. \A q \in Live(db.prepaid) : next.prepaid[q].type = db.prepaid[q].type
  <2>1. prow.type = db.prepaid[p].type
    BY DEF prow
  <2> QED BY <2>1, <1>1, RowTypes
<1>11. Kept(db, next)
  BY <1>1, <1>5, <1>6, <1>8, <1>9, <1>10, KeptWithSales DEF PttsRefer, RowsRefer
<1>12. Adds(db, next, {}, {}, {})
  BY <1>1, <1>6 DEF Adds
<1> QED BY <1>8, <1>11, <1>12

\* Editing and deleting a top-up book the difference on its prepaid: where row
\* t changes, and its prepaid by as much, every prepaid stays balanced.
LEMMA BookingKeepsBalance ==
    ASSUME NEW db \in Database, SumsAgree(db), NEW next \in Database, NEW t \in Live(db.ptt),
           NEW p \in Live(db.prepaid), p = db.ptt[t].prepaid,
           Live(next.prepaid) = Live(db.prepaid),
           \A q \in Live(db.prepaid) : q # p => next.prepaid[q] = db.prepaid[q],
           next.prepaid[p].init - InitOf(next, p)[t] = db.prepaid[p].init - InitOf(db, p)[t],
           next.prepaid[p].remain - RemainOf(next, p)[t] = db.prepaid[p].remain - RemainOf(db, p)[t],
           \A u \in PttIds : u # t => next.ptt[u] = db.ptt[u],
           next.ptt[t] # NoRow => next.ptt[t].prepaid = p
    PROVE  SumsAgree(next)
<1>1. t \in PttIds /\ t \in PttsOf(db, p)
  BY RowTypes DEF PttsOf
<1>5. DOMAIN next.ptt = PttIds /\ DOMAIN db.ptt = PttIds
  BY RowTypes DEF Database
<1>6. ASSUME NEW q, NEW u \in PttIds, u # t
      PROVE  u \in PttsOf(next, q) <=> u \in PttsOf(db, q)
  BY <1>5, <1>6 DEF PttsOf, Live
<1>7. SUFFICES ASSUME NEW q \in Live(db.prepaid)
               PROVE  /\ next.prepaid[q].init = Total(InitOf(next, q), NPtts)
                      /\ next.prepaid[q].remain = Total(RemainOf(next, q), NPtts)
  BY DEF SumsAgree
<1>8. CASE q = p
  <2>1. \A u \in PttIds : u # t => /\ InitOf(next, p)[u] = InitOf(db, p)[u]
                                   /\ RemainOf(next, p)[u] = RemainOf(db, p)[u]
    <3>1. ASSUME NEW u \in PttIds, u # t
          PROVE  InitOf(next, p)[u] = InitOf(db, p)[u] /\ RemainOf(next, p)[u] = RemainOf(db, p)[u]
      <4>1. next.ptt[u] = db.ptt[u] /\ (u \in PttsOf(next, p) <=> u \in PttsOf(db, p))
        BY <3>1, <1>6
      <4> QED BY <4>1 DEF InitOf, RemainOf
    <3> QED BY <3>1
  <2>3. /\ next.prepaid[p].init = Total(InitOf(next, p), NPtts)
        /\ next.prepaid[p].remain = Total(RemainOf(next, p), NPtts)
    BY <1>1, <2>1, ChangedStaysBalanced
  <2> QED BY <1>8, <2>3
<1>9. CASE q # p
  <2>1. t \notin PttsOf(db, q) /\ t \notin PttsOf(next, q)
    BY <1>9 DEF PttsOf, Live
  <2>2. PttsOf(db, q) \subseteq PttIds /\ PttsOf(next, q) \subseteq PttIds
    BY <1>5 DEF PttsOf, Live
  <2>3. \A u : u \in PttsOf(next, q) <=> u \in PttsOf(db, q)
    BY <2>1, <2>2, <1>6
  <2>4. \A u \in PttsOf(db, q) : next.ptt[u] = db.ptt[u]
    BY <2>1, <2>2
  <2>5. PttsOf(next, q) = PttsOf(db, q) /\ next.prepaid[q] = db.prepaid[q]
    BY <2>3, <1>9
  <2> QED BY <2>4, <2>5, UntouchedStaysBalanced
<1> QED BY <1>8, <1>9

\* The edit form of a top-up: the prepaid changes by the difference.
LEMMA EditTopUpKeeps ==
    ASSUME NEW db \in Database, RowsRefer(db), NEW t \in PttIds, t \in Live(db.ptt), NEW v \in Nat,
           NEW r \in Nat, NEW active \in BOOLEAN, NEW date \in Nat, NEW expiry \in Nat,
           NEW next, next = EditTopUpDb(db, t, v, r, active, date, expiry)
    PROVE  Kept(db, next) /\ RowsRefer(next) /\ Adds(db, next, {}, {}, {})
<1>0. PICK p : p = db.ptt[t].prepaid
  OBVIOUS
<1> DEFINE old == db.ptt[t]
           new == EditedPtt(old, v, r, active, date, expiry)
           d   == v - old.init
           e   == r - old.remain
<1>1. /\ next.prepaid = [db.prepaid EXCEPT ![p] = Booked(@, d, e)]
      /\ next.ptt = [db.ptt EXCEPT ![t] = new]
      /\ next.sale = db.sale
      /\ next = [prepaid |-> next.prepaid, ptt |-> next.ptt, sale |-> next.sale]
  BY <1>0 DEF EditTopUpDb
<1>2. /\ t \in Live(db.ptt) /\ old \in PttRow /\ t \in PttsOf(db, p)
      /\ p \in Live(db.prepaid) /\ p \in PrepaidIds /\ db.prepaid[p] \in PrepaidRow
  BY <1>0, RowTypes DEF RowsRefer, PttsOf
<1>3. /\ v \in Nat /\ r \in Nat
      /\ old.init \in Int /\ old.remain \in Int /\ d \in Int /\ e \in Int
      /\ v = old.init + d /\ r = old.remain + e
  BY <1>2 DEF PttRow
<1>4. new \in PttRow /\ new.init = v /\ new.remain = r /\ new.prepaid = p
  BY <1>0, <1>2, <1>3 DEF EditedPtt, PttRow
<1>5. Booked(db.prepaid[p], d, e) \in PrepaidRow
  BY <1>2, <1>3, BookedType
<1> HIDE DEF new, d, e
<1>6. next \in Database
  BY <1>1, <1>2, <1>4, <1>5, RowTypes DEF Database
<1>7. /\ Live(next.prepaid) = Live(db.prepaid)
      /\ Live(next.ptt) = Live(db.ptt)
      /\ \A u \in Live(db.ptt) : next.ptt[u].prepaid = db.ptt[u].prepaid
  BY <1>0, <1>1, <1>2, <1>4, <1>5, RowTypes, TablesAssumption DEF Live
<1>8. \A q : PttsOf(next, q) = PttsOf(db, q)
  BY <1>7, ReferencesKept
<1>9. RowsRefer(next)
  BY <1>1, <1>7, <1>8, ReferencesKept DEF RowsRefer
<1>10. SumsAgree(db) => SumsAgree(next)
  <2> SUFFICES ASSUME SumsAgree(db) PROVE SumsAgree(next)
    OBVIOUS
  <2>1. next.ptt[t] = new /\ t \in PttsOf(next, p)
    <3>1. next.ptt[t] = new
      BY <1>1, RowTypes
    <3>2. t \in PttsOf(next, p)
      BY <1>2, <1>8
    <3> QED BY <3>1, <3>2
  <2>2. InitOf(next, p)[t] = v /\ RemainOf(next, p)[t] = r
    BY <2>1, <1>4 DEF InitOf, RemainOf
  <2>3. InitOf(db, p)[t] = old.init /\ RemainOf(db, p)[t] = old.remain
    BY <1>2 DEF InitOf, RemainOf
  <2>4. /\ next.prepaid[p] = Booked(db.prepaid[p], d, e)
        /\ \A q \in Live(db.prepaid) : q # p => next.prepaid[q] = db.prepaid[q]
    BY <1>1, <1>2, RowTypes
  <2>5. /\ next.prepaid[p].init - v = db.prepaid[p].init - old.init
        /\ next.prepaid[p].remain - r = db.prepaid[p].remain - old.remain
    <3>1. /\ next.prepaid[p].init = db.prepaid[p].init + d
          /\ next.prepaid[p].remain = db.prepaid[p].remain + e
      BY <2>4, <1>2, <1>3, BookedType
    <3>2. db.prepaid[p].init \in Int /\ db.prepaid[p].remain \in Int
      BY <1>2 DEF PrepaidRow
    <3> QED BY <3>1, <3>2, <1>3
  <2>6. \A u \in PttIds : u # t => next.ptt[u] = db.ptt[u]
    BY <1>1, RowTypes
  <2>7. next.ptt[t].prepaid = p /\ p = db.ptt[t].prepaid
    BY <2>1, <1>0, <1>4
  <2>8. /\ next.prepaid[p].init - InitOf(next, p)[t] = db.prepaid[p].init - InitOf(db, p)[t]
        /\ next.prepaid[p].remain - RemainOf(next, p)[t]
             = db.prepaid[p].remain - RemainOf(db, p)[t]
    BY <2>2, <2>3, <2>5
  <2>9. \A q \in Live(db.prepaid) : q # p => next.prepaid[q] = db.prepaid[q]
    BY <2>4
  <2> QED BY <2>6, <2>7, <2>8, <2>9, <1>2, <1>6, <1>7, BookingKeepsBalance
<1>11. \A q \in Live(db.prepaid) : next.prepaid[q].type = db.prepaid[q].type
  <2>1. Booked(db.prepaid[p], d, e).type = db.prepaid[p].type
    BY DEF Booked
  <2> QED BY <2>1, <1>1, RowTypes
<1>12. Kept(db, next)
  BY <1>1, <1>6, <1>7, <1>9, <1>10, <1>11, KeptWithSales DEF PttsRefer, RowsRefer
<1>13. Adds(db, next, {}, {}, {})
  BY <1>1, <1>7 DEF Adds
<1> QED BY <1>9, <1>12, <1>13

\* Deleting a top-up.
LEMMA DeleteTopUpKeeps ==
    ASSUME NEW db \in Database, RowsRefer(db), NEW t \in PttIds, t \in Live(db.ptt),
           NEW next, next = DeleteTopUpDb(db, t)
    PROVE  Kept(db, next) /\ (PaymentsRefer(next) => RowsRefer(next)) /\ Adds(db, next, {}, {}, {})
<1>0. PICK p : p = db.ptt[t].prepaid
  OBVIOUS
<1> DEFINE old == db.ptt[t]
           d   == -old.init
           e   == -old.remain
<1>1. /\ next.prepaid = [db.prepaid EXCEPT ![p] = Booked(@, d, e)]
      /\ next.ptt = [db.ptt EXCEPT ![t] = NoRow]
      /\ next.sale = db.sale
      /\ next = [prepaid |-> next.prepaid, ptt |-> next.ptt, sale |-> next.sale]
  BY <1>0 DEF DeleteTopUpDb
<1>2. /\ t \in PttIds /\ old \in PttRow /\ t \in PttsOf(db, p)
      /\ p \in Live(db.prepaid) /\ p \in PrepaidIds /\ db.prepaid[p] \in PrepaidRow
  BY <1>0, RowTypes DEF RowsRefer, PttsOf
<1>3. /\ old.init \in Int /\ old.remain \in Int /\ d \in Int /\ e \in Int
      /\ 0 = old.init + d /\ 0 = old.remain + e
  BY <1>2 DEF PttRow
<1>4. Booked(db.prepaid[p], d, e) \in PrepaidRow
  BY <1>2, <1>3, BookedType
<1> HIDE DEF d, e
<1>5. next \in Database
  BY <1>1, <1>2, <1>4, RowTypes DEF Database
<1>6. /\ Live(next.prepaid) = Live(db.prepaid)
      /\ Live(next.ptt) = Live(db.ptt) \ {t}
      /\ \A u \in PttIds : u # t => next.ptt[u] = db.ptt[u]
      /\ next.ptt[t] = NoRow
  BY <1>1, <1>2, <1>4, RowTypes, TablesAssumption DEF Live
<1>7. \A q : PttsOf(next, q) = PttsOf(db, q) \ {t}
  BY <1>6, RowTypes DEF PttsOf
<1>8. PttsRefer(next) /\ (PaymentsRefer(next) => RowsRefer(next))
  <2>1. \A u \in Live(next.ptt) : next.ptt[u].prepaid \in Live(next.prepaid)
    BY <1>6, RowTypes DEF RowsRefer
  <2>2. ASSUME PaymentsRefer(next) PROVE RowsRefer(next)
    <3>1. \A s \in Live(db.sale), u \in PttIds : db.sale[s].drawn[u] > 0 => u # t
      BY <2>2, <1>1, <1>6 DEF PaymentsRefer
    <3> QED BY <2>1, <3>1, <1>1, <1>7 DEF RowsRefer
  <2> QED BY <2>1, <2>2 DEF PttsRefer
<1>9. SumsAgree(db) => SumsAgree(next)
  <2> SUFFICES ASSUME SumsAgree(db) PROVE SumsAgree(next)
    OBVIOUS
  <2>1. t \notin PttsOf(next, p)
    BY <1>7
  <2>2. InitOf(next, p)[t] = 0 /\ RemainOf(next, p)[t] = 0
    BY <2>1, <1>2 DEF InitOf, RemainOf
  <2>3. InitOf(db, p)[t] = old.init /\ RemainOf(db, p)[t] = old.remain
    BY <1>2 DEF InitOf, RemainOf
  <2>4. /\ next.prepaid[p] = Booked(db.prepaid[p], d, e)
        /\ \A q \in Live(db.prepaid) : q # p => next.prepaid[q] = db.prepaid[q]
    BY <1>1, <1>2, RowTypes
  <2>5. /\ next.prepaid[p].init - 0 = db.prepaid[p].init - old.init
        /\ next.prepaid[p].remain - 0 = db.prepaid[p].remain - old.remain
    <3>0. d \in Int /\ e \in Int /\ db.prepaid[p] \in PrepaidRow
      BY <1>2, <1>3
    <3>1. /\ next.prepaid[p].init = db.prepaid[p].init + d
          /\ next.prepaid[p].remain = db.prepaid[p].remain + e
      BY ONLY <3>0, <2>4, BookedType
    <3>2. db.prepaid[p].init \in Int /\ db.prepaid[p].remain \in Int
      BY <1>2 DEF PrepaidRow
    <3>3. old.init \in Int /\ d = -old.init /\ old.remain \in Int /\ e = -old.remain
      BY <1>3 DEF d, e
    <3> QED BY ONLY <3>0, <3>1, <3>2, <3>3
  <2> QED BY <2>2, <2>3, <2>4, <2>5, <1>0, <1>2, <1>5, <1>6, BookingKeepsBalance, ZenonT(30)
<1>10. \A q \in Live(db.prepaid) : next.prepaid[q].type = db.prepaid[q].type
  <2>1. Booked(db.prepaid[p], d, e).type = db.prepaid[p].type
    BY DEF Booked
  <2> QED BY <2>1, <1>1, RowTypes
<1>11. \A u \in Live(db.ptt) : u \in Live(next.ptt) => next.ptt[u].prepaid = db.ptt[u].prepaid
  BY <1>6, RowTypes
<1>12. Kept(db, next)
  BY <1>1, <1>5, <1>8, <1>9, <1>10, <1>11, KeptWithSales
<1>13. Adds(db, next, {}, {}, {})
  BY <1>1, <1>6 DEF Adds
<1> QED BY <1>8, <1>12, <1>13

\* Deleting a prepaid with all its transactions.
LEMMA DeletePrepaidKeeps ==
    ASSUME NEW db \in Database, RowsRefer(db), NEW p \in PrepaidIds, p \in Live(db.prepaid),
           NEW next, next = DeletePrepaidDb(db, p)
    PROVE  Kept(db, next) /\ (PaymentsRefer(next) => RowsRefer(next)) /\ Adds(db, next, {}, {}, {})
<1>1. /\ next.prepaid = [db.prepaid EXCEPT ![p] = NoRow]
      /\ next.ptt = [t \in PttIds |-> IF t \in PttsOf(db, p) THEN NoRow ELSE db.ptt[t]]
      /\ next.sale = db.sale
      /\ next = [prepaid |-> next.prepaid, ptt |-> next.ptt, sale |-> next.sale]
  BY DEF DeletePrepaidDb
<1>2. next \in Database
  BY <1>1, RowTypes DEF Database
<1>3. /\ Live(next.prepaid) = Live(db.prepaid) \ {p}
      /\ Live(next.ptt) = Live(db.ptt) \ PttsOf(db, p)
      /\ \A t \in PttIds \ PttsOf(db, p) : next.ptt[t] = db.ptt[t]
  BY <1>1, RowTypes DEF Live
<1>4. \A q : q # p => PttsOf(next, q) = PttsOf(db, q)
  BY <1>3, RowTypes DEF PttsOf
<1>5. PttsRefer(next) /\ (PaymentsRefer(next) => RowsRefer(next))
  <2>1. \A t \in Live(next.ptt) : next.ptt[t].prepaid \in Live(next.prepaid)
    BY <1>3, RowTypes DEF RowsRefer, PttsOf
  <2>2. ASSUME PaymentsRefer(next), NEW s \in Live(db.sale), NEW t \in PttIds,
               db.sale[s].drawn[t] > 0
        PROVE  t \in PttsOf(next, next.sale[s].prepaid)
    <3>1. t \in PttsOf(db, db.sale[s].prepaid) /\ t \in Live(next.ptt)
      BY <2>2, <1>1 DEF RowsRefer, PaymentsRefer
    <3>2. t \notin PttsOf(db, p)
      BY <3>1, <1>3
    <3> QED BY <3>1, <3>2, <1>1, <1>3 DEF PttsOf
  <2> QED BY <2>1, <2>2, <1>1 DEF RowsRefer, PttsRefer
<1>6. SumsAgree(db) => SumsAgree(next)
  <2> SUFFICES ASSUME SumsAgree(db), NEW q \in Live(db.prepaid), q # p
               PROVE  /\ next.prepaid[q].init = Total(InitOf(next, q), NPtts)
                      /\ next.prepaid[q].remain = Total(RemainOf(next, q), NPtts)
    BY <1>3 DEF SumsAgree
  <2>1. next.prepaid[q] = db.prepaid[q]
    BY <1>1, RowTypes
  <2>2. \A t \in PttsOf(db, q) : next.ptt[t] = db.ptt[t]
    BY <1>3, RowTypes DEF PttsOf
  <2> QED BY <2>1, <2>2, <1>4, UntouchedStaysBalanced
<1>7. /\ \A q \in Live(db.prepaid) : q \in Live(next.prepaid) => next.prepaid[q] = db.prepaid[q]
      /\ \A u \in Live(db.ptt) : u \in Live(next.ptt) => next.ptt[u] = db.ptt[u]
  BY <1>1, <1>3, RowTypes
<1>8. Kept(db, next)
  BY <1>1, <1>2, <1>5, <1>6, <1>7, KeptWithSales
<1>9. Adds(db, next, {}, {}, {})
  BY <1>1, <1>3 DEF Adds
<1> QED BY <1>5, <1>8, <1>9

\* What a checkout takes from each transaction is a number, and zero from any
\* transaction that is not one of the prepaid's.
LEMMA DrawsType ==
    ASSUME NEW db \in Database, NEW p, NEW today, NEW qty \in Nat
    PROVE  /\ Draws(db, p, today, qty) \in [PttIds -> Nat]
           /\ \A t \in PttIds : Draws(db, p, today, qty)[t] > 0 => t \in PttsOf(db, p)
<1> DEFINE ahead(t) == UsableAhead(db, p, today, t)
           open(t) == qty - Total(ahead(t), NPtts)
<1>1. \A t : IsUsable(db, p, today, t) => /\ t \in PttsOf(db, p) /\ t \in PttIds
                                         /\ db.ptt[t].remain \in Nat
  <2>1. ASSUME NEW t, IsUsable(db, p, today, t)
        PROVE  /\ t \in PttsOf(db, p) /\ t \in PttIds
               /\ db.ptt[t].remain \in Int /\ db.ptt[t].remain > 0
    BY <2>1, RowTypes DEF IsUsable, PttsOf, PttRow
  <2> QED BY <2>1
<1>2. ASSUME NEW t \in PttIds PROVE open(t) \in Int
  <2>1. ahead(t) \in [PttIds -> Int]
    BY <1>1 DEF UsableAhead
  <2> HIDE DEF ahead
  <2> QED BY <2>1, TotalType, TablesAssumption DEF PttIds
<1> HIDE DEF open
<1>3. Draws(db, p, today, qty) =
        [t \in PttIds |-> IF ~IsUsable(db, p, today, t) \/ open(t) <= 0 THEN 0
                          ELSE IF open(t) <= db.ptt[t].remain THEN open(t)
                          ELSE db.ptt[t].remain]
  BY DEF Draws, open
<1> QED BY <1>1, <1>2, <1>3

\* A checkout: the prepaid loses the total of what its transactions lose.
LEMMA CheckOutKeeps ==
    ASSUME NEW db \in Database, RowsRefer(db), NEW p \in PrepaidIds, p \in Live(db.prepaid),
           NEW s \in SaleIds, s \notin Live(db.sale), NEW today \in Nat, NEW qty \in Nat,
           NEW next, next = CheckOutDb(db, p, s, today, qty)
    PROVE  Kept(db, next) /\ RowsRefer(next) /\ Adds(db, next, {}, {}, {s})
<1> DEFINE d    == Draws(db, p, today, qty)
           used == Total(d, NPtts)
           left == db.prepaid[p].remain - used
           open == db.prepaid[p].active
                     /\ ~(left <= 0 /\ db.prepaid[p].type \in VoucherTypes)
           prow == [db.prepaid[p] EXCEPT !.remain = left, !.active = open]
           trow(t) == [db.ptt[t] EXCEPT !.remain = @ - d[t],
                                        !.active = @ /\ db.ptt[t].remain > d[t]]
           srow == [prepaid |-> p, created |-> today, qty |-> qty, drawn |-> d, due |-> qty - used]
<1>1. /\ next.prepaid = [db.prepaid EXCEPT ![p] = prow]
      /\ next.ptt = [t \in PttIds |-> IF d[t] = 0 THEN db.ptt[t] ELSE trow(t)]
      /\ next.sale = [db.sale EXCEPT ![s] = srow]
      /\ next = [prepaid |-> next.prepaid, ptt |-> next.ptt, sale |-> next.sale]
  BY RowTypes DEF CheckOutDb
<1>2. /\ qty \in Nat /\ d \in [PttIds -> Nat]
      /\ \A t \in PttIds : d[t] > 0 => t \in PttsOf(db, p)
  BY DrawsType
<1>3. p \in Live(db.prepaid) /\ db.prepaid[p] \in PrepaidRow
  BY RowTypes
<1> HIDE DEF d
<1>4. used \in Nat
  BY <1>2, TotalNonNegative, TablesAssumption DEF PttIds
<1> HIDE DEF used
<1>5. left \in Int /\ open \in BOOLEAN
  BY <1>3, <1>4 DEF PrepaidRow
<1> HIDE DEF open
<1>6. /\ prow \in PrepaidRow /\ prow.init = db.prepaid[p].init /\ prow.remain = left
      /\ prow.type = db.prepaid[p].type
  <2> HIDE DEF left
  <2> QED BY <1>3, <1>5 DEF PrepaidRow
<1>7. srow \in SaleRow /\ srow.prepaid = p /\ srow.drawn = d
  BY <1>2, <1>4 DEF SaleRow
<1>8. ASSUME NEW t \in PttIds, d[t] # 0
      PROVE  /\ t \in PttsOf(db, p) /\ trow(t) \in PttRow
             /\ trow(t).prepaid = db.ptt[t].prepaid /\ trow(t).init = db.ptt[t].init
             /\ trow(t).remain = db.ptt[t].remain - d[t]
  <2>1. t \in PttsOf(db, p) /\ db.ptt[t] \in PttRow /\ d[t] \in Nat
    BY <1>2, <1>8, RowTypes DEF PttsOf
  <2> DEFINE left1 == db.ptt[t].remain - d[t]
             open1 == db.ptt[t].active /\ db.ptt[t].remain > d[t]
  <2>2. left1 \in Int /\ open1 \in BOOLEAN
    BY <2>1 DEF PttRow
  <2>3. trow(t) = [db.ptt[t] EXCEPT !.remain = left1, !.active = open1]
    OBVIOUS
  <2> HIDE DEF trow, left1, open1
  <2>4. trow(t) \in PttRow /\ trow(t).prepaid = db.ptt[t].prepaid
        /\ trow(t).init = db.ptt[t].init /\ trow(t).remain = left1
    BY <2>1, <2>2, <2>3 DEF PttRow
  <2> QED BY <2>1, <2>4 DEF left1
<1> HIDE DEF prow, srow, trow, left
<1>9. next \in Database
  <2>1. next.ptt \in [PttIds -> PttRow \union {NoRow}]
    BY <1>1, <1>8, RowTypes
  <2> QED BY <2>1, <1>1, <1>6, <1>7, RowTypes DEF Database
<1>10. /\ Live(next.prepaid) = Live(db.prepaid)
       /\ Live(next.ptt) = Live(db.ptt)
       /\ Live(next.sale) = Live(db.sale) \union {s}
       /\ \A t \in Live(db.ptt) : next.ptt[t].prepaid = db.ptt[t].prepaid
  <2>1. Live(next.prepaid) = Live(db.prepaid)
    BY <1>1, <1>3, <1>6, RowTypes, TablesAssumption DEF Live
  <2>2. Live(next.sale) = Live(db.sale) \union {s}
    BY <1>1, <1>7, RowTypes, TablesAssumption DEF Live
  <2>3. \A t \in PttIds : \/ next.ptt[t] = db.ptt[t]
                          \/ /\ next.ptt[t] \in PttRow /\ t \in Live(db.ptt)
                             /\ next.ptt[t].prepaid = db.ptt[t].prepaid
    BY <1>1, <1>8 DEF PttsOf
  <2>4. DOMAIN next.ptt = PttIds /\ DOMAIN db.ptt = PttIds
    BY <1>1, RowTypes
  <2> QED BY <2>1, <2>2, <2>3, <2>4, TablesAssumption DEF Live
<1>11. \A q : PttsOf(next, q) = PttsOf(db, q)
  BY <1>10, ReferencesKept
<1>12. RowsRefer(next)
  <2>1. \A t \in Live(next.ptt) : next.ptt[t].prepaid \in Live(next.prepaid)
    BY <1>10, ReferencesKept
  <2>2. ASSUME NEW s1 \in Live(next.sale), NEW t \in PttIds, next.sale[s1].drawn[t] > 0
        PROVE  t \in PttsOf(db, next.sale[s1].prepaid)
    <3>1. CASE s1 = s
      BY <3>1, <2>2, <1>1, <1>2, <1>7, RowTypes
    <3>2. CASE s1 # s
      BY <3>2, <2>2, <1>1, <1>10, RowTypes DEF RowsRefer
    <3> QED BY <3>1, <3>2
  <2> QED BY <2>1, <2>2, <1>11 DEF RowsRefer
<1>13. SumsAgree(db) => SumsAgree(next)
  <2> SUFFICES ASSUME SumsAgree(db), NEW q \in Live(db.prepaid)
               PROVE  /\ next.prepaid[q].init = Total(InitOf(next, q), NPtts)
                      /\ next.prepaid[q].remain = Total(RemainOf(next, q), NPtts)
    BY <1>10 DEF SumsAgree
  <2>1. CASE q = p
    <3> DEFINE a == RemainOf(db, p)
               c == RemainOf(next, p)
    <3>1. a \in [PttIds -> Int] /\ c \in [PttIds -> Int]
      BY <1>9, ColumnTypes
    <3>2. ASSUME NEW t \in PttIds
          PROVE  c[t] = a[t] - d[t] /\ InitOf(next, p)[t] = InitOf(db, p)[t]
      <4>0. d[t] \in Nat
        BY <1>2
      <4>1. CASE t \in PttsOf(db, p)
        <5>1. db.ptt[t] \in PttRow /\ db.ptt[t].remain \in Int
          BY <4>1, RowTypes DEF PttsOf, PttRow
        <5>2. /\ next.ptt[t].init = db.ptt[t].init
              /\ next.ptt[t].remain = db.ptt[t].remain - d[t]
          BY <4>0, <5>1, <1>1, <1>8
        <5> QED BY <4>1, <5>2, <1>11 DEF InitOf, RemainOf
      <4>2. CASE t \notin PttsOf(db, p)
        <5>1. d[t] = 0
          BY <4>0, <4>2, <1>2
        <5> QED BY <5>1, <4>2, <1>11 DEF InitOf, RemainOf
      <4> QED BY <4>1, <4>2
    <3>3. InitOf(next, p) = InitOf(db, p)
      BY <3>2 DEF InitOf
    <3> HIDE DEF a, c
    <3>4. NPtts \in Nat /\ PttIds = 1..NPtts
      BY TablesAssumption DEF PttIds
    <3>5. d \in [PttIds -> Int]
      BY <1>2
    <3>6. \A t \in PttIds : c[t] = a[t] - d[t]
      BY <3>2
    <3>7. Total(c, NPtts) = Total(a, NPtts) - used
      BY <3>1, <3>4, <3>5, <3>6, TotalMinus DEF used
    <3>8. next.prepaid[p] = prow
      BY <1>1, RowTypes
    <3>9. db.prepaid[p].init = Total(InitOf(db, p), NPtts) /\ db.prepaid[p].remain = Total(a, NPtts)
      BY <1>3 DEF SumsAgree, a
    <3> QED BY <2>1, <3>3, <3>7, <3>8, <3>9, <1>6 DEF c, left
  <2>2. CASE q # p
    <3>1. next.prepaid[q] = db.prepaid[q]
      BY <2>2, <1>1, RowTypes
    <3>2. ASSUME NEW t \in PttsOf(db, q) PROVE next.ptt[t] = db.ptt[t]
      <4>1. t \in PttIds /\ t \notin PttsOf(db, p)
        BY <2>2, RowTypes DEF PttsOf
      <4> QED BY <4>1, <1>1, <1>2
    <3> QED BY <3>1, <3>2, <1>11, UntouchedStaysBalanced
  <2> QED BY <2>1, <2>2
<1>14. PaymentsFrom(db, next)
  BY <1>12, <1>11 DEF RowsRefer, PaymentsFrom
<1>15. SameRows(db, next)
  <2>1. \A q \in Live(db.prepaid) : next.prepaid[q].type = db.prepaid[q].type
    BY <1>1, <1>6, RowTypes
  <2>2. \A x \in Live(db.sale) : x # s /\ next.sale[x] = db.sale[x]
    BY <1>1, RowTypes
  <2> QED BY <2>1, <2>2, <1>10 DEF SameRows
<1>16. RowsTell(db, next)
  <2> SUFFICES ASSUME NEW t \in PttIds, next.ptt[t] = db.ptt[t], NEW x \in SaleIds
               PROVE  DrawnOn(next, t)[x] = DrawnOn(db, t)[x]
    BY DEF RowsTell, DrawnOn
  <2>1. d[t] = 0
    <3>1. CASE d[t] # 0
      <4>1. db.ptt[t] \in PttRow /\ db.ptt[t].remain \in Int
        BY <3>1, <1>8, RowTypes DEF PttsOf, PttRow
      <4>2. next.ptt[t].remain = db.ptt[t].remain - d[t] /\ d[t] \in Nat
        BY <3>1, <1>1, <1>2, <1>8
      <4> QED BY <4>1, <4>2, <3>1
    <3> QED BY <3>1
  <2>2. CASE x = s
    BY <2>1, <2>2, <1>1, <1>7, <1>10, RowTypes DEF DrawnOn
  <2>3. CASE x # s
    <3>1. next.sale[x] = db.sale[x] /\ (x \in Live(next.sale) <=> x \in Live(db.sale))
      BY <2>3, <1>1, <1>10, RowTypes
    <3> QED BY <3>1 DEF DrawnOn
  <2> QED BY <2>2, <2>3
<1>17. Kept(db, next)
  BY <1>9, <1>12, <1>13, <1>14, <1>15, <1>16 DEF Kept, RowsRefer, PttsRefer
<1>18. Adds(db, next, {}, {}, {s})
  BY <1>10 DEF Adds
<1> QED BY <1>12, <1>17, <1>18

\* What deleting an order puts back is a number, and zero for any transaction
\* the order did not redeem.
LEMMA PutBackType ==
    ASSUME NEW db \in Database, NEW s \in Live(db.sale)
    PROVE  /\ PutBack(db, s) \in [PttIds -> Nat]
           /\ \A t \in PttIds : PutBack(db, s)[t] > 0 => db.sale[s].drawn[t] > 0
BY RowTypes DEF PutBack, SaleRow

\* What an order redeemed it puts back, if not the same amount: an item is for
\* one treatment at least.
LEMMA PutBackSome ==
    ASSUME NEW db \in Database, NEW s \in Live(db.sale), NEW t \in PttIds,
           PutBack(db, s)[t] = 0, PaymentsWithinItems(db)
    PROVE  db.sale[s].drawn[t] = 0
<1>1. db.sale[s].drawn[t] \in Nat /\ db.sale[s].qty \in Nat
  BY RowTypes DEF SaleRow
<1>2. db.sale[s].drawn[t] <= db.sale[s].qty
  BY DEF PaymentsWithinItems
<1> QED BY <1>1, <1>2 DEF PutBack

\* Deleting an order: the prepaid gains the total of what its transactions gain.
LEMMA RemoveSaleKeeps ==
    ASSUME NEW db \in Database, RowsRefer(db), PaymentsWithinItems(db), NEW s \in SaleIds,
           s \in Live(db.sale), NEW next, next = RemoveSaleDb(db, s)
    PROVE  Kept(db, next) /\ RowsRefer(next) /\ Adds(db, next, {}, {}, {})
<1>0. PICK p : p = db.sale[s].prepaid
  OBVIOUS
<1> DEFINE back == PutBack(db, s)
           left == db.prepaid[p].remain + Total(back, NPtts)
           prow == [db.prepaid[p] EXCEPT !.remain = left, !.active = TRUE]
           trow(t) == [db.ptt[t] EXCEPT !.remain = @ + back[t], !.active = TRUE]
           any  == \E t \in PttIds : back[t] > 0
<1>1. s \in Live(db.sale) /\ p \in PrepaidIds
  BY <1>0, RowTypes DEF SaleRow
<1>2. /\ next.prepaid = IF any THEN [db.prepaid EXCEPT ![p] = prow] ELSE db.prepaid
      /\ next.ptt = [t \in PttIds |-> IF back[t] = 0 THEN db.ptt[t] ELSE trow(t)]
      /\ next.sale = [db.sale EXCEPT ![s] = NoRow]
      /\ next = [prepaid |-> next.prepaid, ptt |-> next.ptt, sale |-> next.sale]
  BY <1>0, <1>1, RowTypes DEF RemoveSaleDb
<1>3. /\ back \in [PttIds -> Nat]
      /\ \A t \in PttIds : back[t] > 0 => t \in PttsOf(db, p)
  BY <1>0, <1>1, PutBackType DEF RowsRefer
<1> HIDE DEF back
<1>4. ASSUME any
      PROVE  /\ p \in Live(db.prepaid) /\ db.prepaid[p] \in PrepaidRow
             /\ prow \in PrepaidRow
             /\ prow.init = db.prepaid[p].init /\ prow.remain = left
             /\ prow.type = db.prepaid[p].type
  <2>1. p \in Live(db.prepaid) /\ db.prepaid[p] \in PrepaidRow
    BY <1>3, <1>4, RowTypes DEF RowsRefer, PttsOf
  <2>2. left \in Int
    <3>1. back \in [PttIds -> Int]
      BY <1>3
    <3>2. Total(back, NPtts) \in Int
      BY <3>1, TotalType, TablesAssumption DEF PttIds
    <3> QED BY <2>1, <3>2 DEF PrepaidRow
  <2> HIDE DEF left
  <2> QED BY <2>1, <2>2 DEF PrepaidRow
<1>5. ASSUME NEW t \in PttIds, back[t] # 0
      PROVE  /\ t \in PttsOf(db, p) /\ trow(t) \in PttRow
             /\ trow(t).prepaid = db.ptt[t].prepaid /\ trow(t).init = db.ptt[t].init
             /\ trow(t).remain = db.ptt[t].remain + back[t]
  <2>1. t \in PttsOf(db, p) /\ db.ptt[t] \in PttRow /\ back[t] \in Nat
    BY <1>3, <1>5, RowTypes DEF PttsOf
  <2> DEFINE left1 == db.ptt[t].remain + back[t]
  <2>2. left1 \in Int
    BY <2>1 DEF PttRow
  <2>3. trow(t) = [db.ptt[t] EXCEPT !.remain = left1, !.active = TRUE]
    OBVIOUS
  <2> HIDE DEF trow, left1
  <2>4. trow(t) \in PttRow /\ trow(t).prepaid = db.ptt[t].prepaid
        /\ trow(t).init = db.ptt[t].init /\ trow(t).remain = left1
    BY <2>1, <2>2, <2>3 DEF PttRow
  <2> QED BY <2>1, <2>4 DEF left1
<1> HIDE DEF prow, trow, left
<1>6. next.prepaid \in [PrepaidIds -> PrepaidRow \union {NoRow}]
      /\ Live(next.prepaid) = Live(db.prepaid)
  <2>1. CASE any
    <3> HIDE DEF any
    <3>1. next.prepaid = [db.prepaid EXCEPT ![p] = prow]
      BY <2>1, <1>2
    <3> QED BY <2>1, <3>1, <1>1, <1>4, RowTypes, TablesAssumption DEF Live
  <2>2. CASE ~any
    <3> HIDE DEF any
    <3>1. next.prepaid = db.prepaid
      BY <2>2, <1>2
    <3> QED BY <3>1, RowTypes
  <2> QED BY <2>1, <2>2
<1>7. next \in Database
  <2>1. next.ptt \in [PttIds -> PttRow \union {NoRow}]
    BY <1>2, <1>5, RowTypes
  <2> QED BY <2>1, <1>2, <1>6, RowTypes DEF Database
<1>8. /\ Live(next.ptt) = Live(db.ptt)
      /\ Live(next.sale) = Live(db.sale) \ {s}
      /\ \A t \in Live(db.ptt) : next.ptt[t].prepaid = db.ptt[t].prepaid
  <2>1. Live(next.sale) = Live(db.sale) \ {s}
    BY <1>2, RowTypes DEF Live
  <2>2. \A t \in PttIds : \/ next.ptt[t] = db.ptt[t]
                          \/ /\ next.ptt[t] \in PttRow /\ t \in Live(db.ptt)
                             /\ next.ptt[t].prepaid = db.ptt[t].prepaid
    BY <1>2, <1>5 DEF PttsOf
  <2>3. DOMAIN next.ptt = PttIds /\ DOMAIN db.ptt = PttIds
    BY <1>2, RowTypes
  <2> QED BY <2>1, <2>2, <2>3, TablesAssumption DEF Live
<1>9. \A q : PttsOf(next, q) = PttsOf(db, q)
  BY <1>6, <1>8, ReferencesKept
<1>10. RowsRefer(next)
  <2>1. \A t \in Live(next.ptt) : next.ptt[t].prepaid \in Live(next.prepaid)
    BY <1>6, <1>8, ReferencesKept
  <2>2. ASSUME NEW s1 \in Live(next.sale), NEW t \in PttIds, next.sale[s1].drawn[t] > 0
        PROVE  t \in PttsOf(db, next.sale[s1].prepaid)
    BY <2>2, <1>2, <1>8, RowTypes DEF RowsRefer
  <2> QED BY <2>1, <2>2, <1>9 DEF RowsRefer
<1>11. SumsAgree(db) => SumsAgree(next)
  <2> SUFFICES ASSUME SumsAgree(db), NEW q \in Live(db.prepaid)
               PROVE  /\ next.prepaid[q].init = Total(InitOf(next, q), NPtts)
                      /\ next.prepaid[q].remain = Total(RemainOf(next, q), NPtts)
    BY <1>6 DEF SumsAgree
  <2>1. CASE any /\ q = p
    <3> HIDE DEF any
    <3> DEFINE a == RemainOf(db, p)
               c == RemainOf(next, p)
    <3>1. a \in [PttIds -> Int] /\ c \in [PttIds -> Int]
      BY <1>7, ColumnTypes
    <3>2. ASSUME NEW t \in PttIds
          PROVE  a[t] = c[t] - back[t] /\ InitOf(next, p)[t] = InitOf(db, p)[t]
      <4>0. back[t] \in Nat
        BY <1>3
      <4>1. CASE t \in PttsOf(db, p)
        <5>1. db.ptt[t] \in PttRow /\ db.ptt[t].remain \in Int
          BY <4>1, RowTypes DEF PttsOf, PttRow
        <5>2. /\ next.ptt[t].init = db.ptt[t].init
              /\ next.ptt[t].remain = db.ptt[t].remain + back[t]
          BY <4>0, <5>1, <1>2, <1>5
        <5> QED BY <4>0, <4>1, <5>1, <5>2, <1>9 DEF InitOf, RemainOf
      <4>2. CASE t \notin PttsOf(db, p)
        <5>1. back[t] = 0
          BY <4>0, <4>2, <1>3
        <5> QED BY <5>1, <4>2, <1>9 DEF InitOf, RemainOf
      <4> QED BY <4>1, <4>2
    <3>3. InitOf(next, p) = InitOf(db, p)
      BY <3>2 DEF InitOf
    <3> HIDE DEF a, c
    <3>4. NPtts \in Nat /\ PttIds = 1..NPtts
      BY TablesAssumption DEF PttIds
    <3>5. back \in [PttIds -> Int]
      BY <1>3
    <3>6. \A t \in PttIds : a[t] = c[t] - back[t]
      BY <3>2
    <3>7. Total(a, NPtts) = Total(c, NPtts) - Total(back, NPtts)
      BY <3>1, <3>4, <3>5, <3>6, TotalMinus
    <3>8. Total(a, NPtts) \in Int /\ Total(c, NPtts) \in Int /\ Total(back, NPtts) \in Int
      BY <3>1, <3>4, <3>5, TotalType
    <3>9. Total(c, NPtts) = Total(a, NPtts) + Total(back, NPtts)
      BY <3>7, <3>8
    <3>10. next.prepaid[p] = prow
      BY <2>1, <1>1, <1>2, RowTypes
    <3>11. db.prepaid[p].init = Total(InitOf(db, p), NPtts) /\ db.prepaid[p].remain = Total(a, NPtts)
      BY <2>1, <1>4 DEF SumsAgree, a
    <3> QED BY <2>1, <3>3, <3>9, <3>10, <3>11, <1>4 DEF c, left
  <2>2. CASE ~(any /\ q = p)
    <3>1. next.prepaid[q] = db.prepaid[q]
      <4> HIDE DEF any
      <4> QED BY <2>2, <1>2, RowTypes
    <3>2. ASSUME NEW t \in PttsOf(db, q) PROVE next.ptt[t] = db.ptt[t]
      <4>1. t \in PttIds /\ (t \in PttsOf(db, p) => q = p)
        BY RowTypes DEF PttsOf
      <4>2. back[t] = 0
        BY <4>1, <2>2, <1>3
      <4> QED BY <4>1, <4>2, <1>2
    <3> QED BY <3>1, <3>2, <1>9, UntouchedStaysBalanced
  <2> QED BY <2>1, <2>2
<1>12. PaymentsFrom(db, next)
  BY <1>9, <1>10 DEF RowsRefer, PaymentsFrom
<1>13. SameRows(db, next)
  <2>1. \A q \in Live(db.prepaid) : next.prepaid[q].type = db.prepaid[q].type
    <3>1. CASE any
      <4> HIDE DEF any
      <4>1. next.prepaid = [db.prepaid EXCEPT ![p] = prow]
        BY <3>1, <1>2
      <4> QED BY <3>1, <4>1, <1>4, RowTypes
    <3>2. CASE ~any
      <4> HIDE DEF any
      <4> QED BY <3>2, <1>2
    <3> QED BY <3>1, <3>2
  <2>2. \A x \in Live(db.sale) : x \in Live(next.sale) => next.sale[x] = db.sale[x]
    BY <1>2, <1>8, RowTypes
  <2> QED BY <2>1, <2>2, <1>8 DEF SameRows
<1>14. RowsTell(db, next)
  <2> SUFFICES ASSUME NEW t \in PttIds, next.ptt[t] = db.ptt[t], NEW x \in SaleIds
               PROVE  DrawnOn(next, t)[x] = DrawnOn(db, t)[x]
    BY DEF RowsTell, DrawnOn
  <2>1. back[t] = 0
    <3>1. CASE back[t] # 0
      <4>1. db.ptt[t] \in PttRow /\ db.ptt[t].remain \in Int
        BY <3>1, <1>5, RowTypes DEF PttsOf, PttRow
      <4>2. next.ptt[t].remain = db.ptt[t].remain + back[t] /\ back[t] \in Nat
        BY <3>1, <1>2, <1>3, <1>5
      <4> QED BY <4>1, <4>2, <3>1
    <3> QED BY <3>1
  <2>2. CASE x = s
    <3>1. db.sale[s].drawn[t] \in Nat /\ db.sale[s].qty \in Nat
      BY RowTypes DEF SaleRow
    <3>2. db.sale[s].drawn[t] = 0
      BY <2>1, <3>1, PutBackSome DEF back
    <3> QED BY <2>2, <3>2, <1>8 DEF DrawnOn
  <2>3. CASE x # s
    <3>1. next.sale[x] = db.sale[x] /\ (x \in Live(next.sale) <=> x \in Live(db.sale))
      BY <2>3, <1>2, <1>8, RowTypes
    <3> QED BY <3>1 DEF DrawnOn
  <2> QED BY <2>2, <2>3
<1>15. Kept(db, next)
  BY <1>7, <1>10, <1>11, <1>12, <1>13, <1>14 DEF Kept, RowsRefer, PttsRefer
<1>16. Adds(db, next, {}, {}, {})
  BY <1>6, <1>8 DEF Adds
<1> QED BY <1>10, <1>15, <1>16

\* The expiry job changes no amount.
LEMMA ExpireKeeps ==
    ASSUME NEW db \in Database, RowsRefer(db), NEW t \in PttIds, t \in Live(db.ptt),
           NEW next, next = ExpireDb(db, t)
    PROVE  Kept(db, next) /\ RowsRefer(next) /\ Adds(db, next, {}, {}, {})
<1>0. PICK p : p = db.ptt[t].prepaid
  OBVIOUS
<1>1. /\ t \in Live(db.ptt) /\ db.ptt[t] \in PttRow
      /\ p \in Live(db.prepaid) /\ p \in PrepaidIds /\ db.prepaid[p] \in PrepaidRow
  BY <1>0, RowTypes DEF RowsRefer
<1> DEFINE open == db.prepaid[p].active /\ db.prepaid[p].type \notin VoucherTypes
           prow == [db.prepaid[p] EXCEPT !.active = open]
           trow == [db.ptt[t] EXCEPT !.active = FALSE]
<1>2. /\ next.prepaid = [db.prepaid EXCEPT ![p] = prow]
      /\ next.ptt = [db.ptt EXCEPT ![t] = trow]
      /\ next.sale = db.sale
      /\ next = [prepaid |-> next.prepaid, ptt |-> next.ptt, sale |-> next.sale]
  BY <1>0, <1>1, RowTypes DEF ExpireDb
<1>3. open \in BOOLEAN
  OBVIOUS
<1> HIDE DEF open
<1>4. /\ prow \in PrepaidRow /\ prow.init = db.prepaid[p].init
      /\ prow.remain = db.prepaid[p].remain /\ prow.type = db.prepaid[p].type
  BY <1>1, <1>3 DEF PrepaidRow
<1>5. /\ trow \in PttRow /\ trow.prepaid = db.ptt[t].prepaid
      /\ trow.init = db.ptt[t].init /\ trow.remain = db.ptt[t].remain
  BY <1>1 DEF PttRow
<1> HIDE DEF prow, trow
<1>6. next \in Database
  BY <1>1, <1>2, <1>4, <1>5, RowTypes DEF Database
<1>7. /\ Live(next.prepaid) = Live(db.prepaid)
      /\ Live(next.ptt) = Live(db.ptt)
      /\ \A u \in Live(db.ptt) : next.ptt[u].prepaid = db.ptt[u].prepaid
  BY <1>1, <1>2, <1>4, <1>5, RowTypes, TablesAssumption DEF Live
<1>8. \A q : PttsOf(next, q) = PttsOf(db, q)
  BY <1>7, ReferencesKept
<1>9. RowsRefer(next)
  BY <1>2, <1>7, <1>8, ReferencesKept DEF RowsRefer
<1>10. SumsAgree(db) => SumsAgree(next)
  <2> SUFFICES ASSUME SumsAgree(db), NEW q \in Live(db.prepaid)
               PROVE  /\ next.prepaid[q].init = Total(InitOf(next, q), NPtts)
                      /\ next.prepaid[q].remain = Total(RemainOf(next, q), NPtts)
    BY <1>7 DEF SumsAgree
  <2>1. /\ next.prepaid[q].init = db.prepaid[q].init
        /\ next.prepaid[q].remain = db.prepaid[q].remain
    BY <1>2, <1>4, RowTypes
  <2>2. \A u \in PttsOf(db, q) : /\ next.ptt[u].init = db.ptt[u].init
                                 /\ next.ptt[u].remain = db.ptt[u].remain
    BY <1>2, <1>5, RowTypes DEF PttsOf
  <2> QED BY <2>1, <2>2, <1>8, UntouchedStaysBalanced
<1>11. \A q \in Live(db.prepaid) : next.prepaid[q].type = db.prepaid[q].type
  BY <1>2, <1>4, RowTypes
<1>12. Kept(db, next)
  BY <1>2, <1>6, <1>7, <1>9, <1>10, <1>11, KeptWithSales DEF PttsRefer, RowsRefer
<1>13. Adds(db, next, {}, {}, {})
  BY <1>2, <1>7 DEF Adds
<1> QED BY <1>9, <1>12, <1>13

-----------------------------------------------------------------------------
\* The usable transactions of a prepaid are a queue.
LEMMA UsableIsQueue ==
    ASSUME NEW db \in Database, NEW p, NEW today
    PROVE  /\ NPtts \in Nat /\ PttIds = 1..NPtts
           /\ IsQueue(NPtts, Usable(db, p, today), AheadIn(db))
           /\ \A t \in Usable(db, p, today) : /\ t \in PttsOf(db, p) /\ db.ptt[t] \in PttRow
                                   /\ db.ptt[t].remain \in Nat /\ db.ptt[t].remain > 0
<1>1. NPtts \in Nat /\ PttIds = 1..NPtts
  BY TablesAssumption DEF PttIds
<1>2. ASSUME NEW t \in Usable(db, p, today)
      PROVE  /\ t \in PttIds /\ t \in PttsOf(db, p) /\ db.ptt[t] \in PttRow
             /\ db.ptt[t].remain \in Nat /\ db.ptt[t].remain > 0
             /\ db.ptt[t].date \in Nat
  <2>1. t \in PttIds /\ t \in PttsOf(db, p) /\ db.ptt[t] \in PttRow /\ db.ptt[t].remain > 0
    BY RowTypes DEF Usable, IsUsable, PttsOf
  <2>2. db.ptt[t].remain \in Int /\ db.ptt[t].date \in Nat
    BY <2>1 DEF PttRow
  <2> QED BY <2>1, <2>2
<1>3. \A t, u \in Usable(db, p, today) : <<u, t>> \in AheadIn(db) <=> IsAhead(db, u, t)
  BY <1>2 DEF AheadIn
<1>4. \A t \in Usable(db, p, today) : t \in Nat /\ db.ptt[t].date \in Nat
  BY <1>1, <1>2
<1>5. \A t \in Usable(db, p, today) : <<t, t>> \notin AheadIn(db)
  BY <1>3, <1>4 DEF IsAhead
<1>6. ASSUME NEW t \in Usable(db, p, today), NEW u \in Usable(db, p, today), t # u
      PROVE  <<t, u>> \in AheadIn(db) \/ <<u, t>> \in AheadIn(db)
  <2>1. t \in Nat /\ u \in Nat /\ db.ptt[t].date \in Nat /\ db.ptt[u].date \in Nat
    BY <1>4
  <2>2. IsAhead(db, t, u) \/ IsAhead(db, u, t)
    BY <2>1, <1>6 DEF IsAhead
  <2> QED BY <2>2, <1>3
<1>7. ASSUME NEW t \in Usable(db, p, today), NEW u \in Usable(db, p, today), NEW v \in Usable(db, p, today),
             <<t, u>> \in AheadIn(db), <<u, v>> \in AheadIn(db)
      PROVE  <<t, v>> \in AheadIn(db)
  <2>1. IsAhead(db, t, u) /\ IsAhead(db, u, v)
    BY <1>3, <1>7
  <2>2. /\ t \in Nat /\ u \in Nat /\ v \in Nat
        /\ db.ptt[t].date \in Nat /\ db.ptt[u].date \in Nat /\ db.ptt[v].date \in Nat
    BY <1>4
  <2>3. IsAhead(db, t, v)
    BY <2>1, <2>2 DEF IsAhead
  <2> QED BY <2>3, <1>3
<1>8. Usable(db, p, today) \subseteq 1..NPtts
  BY <1>1 DEF Usable
<1> QED BY <1>1, <1>2, <1>5, <1>6, <1>7, <1>8 DEF IsQueue

\* What the redemption loop takes drains this queue.
LEMMA DrawsDrain ==
    ASSUME NEW db \in Database, NEW p, NEW today, NEW qty \in Nat
    PROVE  IsDrained(NPtts, Usable(db, p, today), AheadIn(db), Stock(db, p, today), AheadOf(db, p, today), OpenAt(db, p, today, qty),
                     Draws(db, p, today, qty), qty)
<1> DEFINE U == Usable(db, p, today)
           d == Draws(db, p, today, qty)
<1>1. /\ NPtts \in Nat /\ PttIds = 1..NPtts
      /\ \A t \in U : t \in PttIds /\ db.ptt[t].remain \in Nat /\ db.ptt[t].remain > 0
  BY UsableIsQueue DEF Usable
<1>2. Stock(db, p, today) \in [PttIds -> Nat] /\ \A t \in U : Stock(db, p, today)[t] = db.ptt[t].remain
  BY <1>1 DEF Stock
<1>3. \A u \in PttIds : u \in U <=> IsUsable(db, p, today, u)
  BY DEF Usable
<1>4. \A t \in PttIds : AheadOf(db, p, today)[t] = [u \in PttIds |->
                           IF u \in U /\ IsAhead(db, u, t) THEN db.ptt[u].remain ELSE 0]
  BY <1>3 DEF AheadOf, UsableAhead
<1> HIDE DEF U
<1>5. ASSUME NEW t \in PttIds PROVE AheadOf(db, p, today)[t] \in [PttIds -> Nat]
  <2> DEFINE had(u) == IF u \in U /\ IsAhead(db, u, t) THEN db.ptt[u].remain ELSE 0
  <2>1. \A u \in PttIds : had(u) \in Nat
    BY <1>1
  <2>2. AheadOf(db, p, today)[t] = [u \in PttIds |-> had(u)]
    BY <1>4
  <2> HIDE DEF had
  <2> QED BY <2>1, <2>2
<1>6. AheadOf(db, p, today) \in [PttIds -> [PttIds -> Nat]]
  BY <1>5 DEF AheadOf
<1>7. ASSUME NEW t \in PttIds PROVE Total(AheadOf(db, p, today)[t], NPtts) \in Nat
  BY <1>1, <1>5, TotalNonNegative
<1>8. OpenAt(db, p, today, qty) \in [PttIds -> Int]
      /\ \A t \in PttIds : OpenAt(db, p, today, qty)[t] = qty - Total(AheadOf(db, p, today)[t], NPtts)
  BY <1>7 DEF OpenAt
<1>9. d \in [PttIds -> Nat]
  BY DrawsType
<1>10. ASSUME NEW t \in U, NEW u \in PttIds
       PROVE  AheadOf(db, p, today)[t][u] = IF u \in U /\ <<u, t>> \in AheadIn(db) THEN Stock(db, p, today)[u] ELSE 0
  <2>1. t \in PttIds /\ (<<u, t>> \in AheadIn(db) <=> IsAhead(db, u, t))
    BY <1>1 DEF AheadIn
  <2>2. AheadOf(db, p, today)[t][u] = IF u \in U /\ IsAhead(db, u, t) THEN db.ptt[u].remain ELSE 0
    BY <2>1, <1>4
  <2>3. CASE u \in U
    BY <2>1, <2>2, <2>3, <1>2
  <2>4. CASE u \notin U
    BY <2>2, <2>4
  <2> QED BY <2>3, <2>4
<1>11. ASSUME NEW t \in PttIds
       PROVE  d[t] = IF t \notin U \/ OpenAt(db, p, today, qty)[t] <= 0 THEN 0
                     ELSE IF OpenAt(db, p, today, qty)[t] <= Stock(db, p, today)[t] THEN OpenAt(db, p, today, qty)[t]
                     ELSE Stock(db, p, today)[t]
  <2> DEFINE open == OpenAt(db, p, today, qty)[t]
  <2>1. open = qty - Total(UsableAhead(db, p, today, t), NPtts)
    BY <1>8 DEF AheadOf
  <2>2. d[t] = IF ~IsUsable(db, p, today, t) \/ open <= 0 THEN 0
               ELSE IF open <= db.ptt[t].remain THEN open ELSE db.ptt[t].remain
    BY <2>1 DEF Draws
  <2> HIDE DEF open, d
  <2>3. CASE t \in U
    <3>1. IsUsable(db, p, today, t) /\ Stock(db, p, today)[t] = db.ptt[t].remain
      BY <2>3, <1>2, <1>3
    <3> QED BY <2>2, <2>3, <3>1 DEF open
  <2>4. CASE t \notin U
    BY <2>2, <2>4, <1>3
  <2> QED BY <2>3, <2>4
<1> HIDE DEF d
<1> QED BY <1>1, <1>2, <1>6, <1>8, <1>9, <1>10, <1>11 DEF IsDrained, U, d

\* What a checkout writes, in terms of the transactions it draws on.
LEMMA CheckOutEffect ==
    ASSUME NEW db \in Database, RowsRefer(db), NEW p \in PrepaidIds, p \in Live(db.prepaid),
           NEW s \in SaleIds, s \notin Live(db.sale), NEW today \in Nat, NEW qty \in Nat,
           NEW next, next = CheckOutDb(db, p, s, today, qty), NEW d, d = Draws(db, p, today, qty)
    PROVE  /\ qty \in Nat /\ d \in [PttIds -> Nat] /\ Total(d, NPtts) \in Nat
           /\ \A t \in PttIds : d[t] > 0 => t \in PttsOf(db, p)
           /\ next.sale = [db.sale EXCEPT ![s] =
                 [prepaid |-> p, created |-> today, qty |-> qty, drawn |-> d, due |-> qty - Total(d, NPtts)]]
           /\ next.prepaid[p].remain = db.prepaid[p].remain - Total(d, NPtts)
           /\ \A q \in PrepaidIds : q # p => next.prepaid[q] = db.prepaid[q]
           /\ \A q \in Live(db.prepaid) : next.prepaid[q].type = db.prepaid[q].type
           /\ \A t \in PttIds : d[t] = 0 => next.ptt[t] = db.ptt[t]
           /\ \A t \in Live(db.ptt) :
                 /\ next.ptt[t].prepaid = db.ptt[t].prepaid
                 /\ next.ptt[t].remain = db.ptt[t].remain - d[t]
           /\ Live(next.ptt) = Live(db.ptt)
<1>1. /\ qty \in Nat /\ d \in [PttIds -> Nat]
      /\ \A t \in PttIds : d[t] > 0 => t \in PttsOf(db, p)
  BY DrawsType
<1>2. Total(d, NPtts) \in Nat
  BY <1>1, TotalNonNegative, TablesAssumption DEF PttIds
<1> DEFINE left == db.prepaid[p].remain - Total(d, NPtts)
           open == db.prepaid[p].active
                     /\ ~(left <= 0 /\ db.prepaid[p].type \in VoucherTypes)
           prow == [db.prepaid[p] EXCEPT !.remain = left, !.active = open]
           trow(t) == [db.ptt[t] EXCEPT !.remain = @ - d[t],
                                        !.active = @ /\ db.ptt[t].remain > d[t]]
           srow == [prepaid |-> p, created |-> today, qty |-> qty, drawn |-> d, due |-> qty - Total(d, NPtts)]
<1>4. /\ next.prepaid = [db.prepaid EXCEPT ![p] = prow]
      /\ next.ptt = [t \in PttIds |-> IF d[t] = 0 THEN db.ptt[t] ELSE trow(t)]
      /\ next.sale = [db.sale EXCEPT ![s] = srow]
  BY RowTypes DEF CheckOutDb
<1>5. /\ p \in Live(db.prepaid) /\ next.prepaid[p].remain = left
      /\ \A q \in Live(db.prepaid) : next.prepaid[q].type = db.prepaid[q].type
      /\ \A q \in PrepaidIds : q # p => next.prepaid[q] = db.prepaid[q]
  <2>1. p \in Live(db.prepaid) /\ db.prepaid[p] \in PrepaidRow
    BY RowTypes
  <2>2. prow.type = db.prepaid[p].type /\ prow.remain = left
    <3> HIDE DEF left, open
    <3> QED BY <2>1 DEF PrepaidRow
  <2> HIDE DEF prow, left
  <2> QED BY <2>1, <2>2, <1>4, RowTypes
<1>6. ASSUME NEW t \in PttIds, d[t] # 0
      PROVE  /\ t \in Live(db.ptt) /\ trow(t) \in PttRow
             /\ trow(t).prepaid = db.ptt[t].prepaid
             /\ trow(t).remain = db.ptt[t].remain - d[t]
  <2>1. t \in PttsOf(db, p) /\ db.ptt[t] \in PttRow /\ d[t] \in Nat
    BY <1>1, <1>6, RowTypes DEF PttsOf
  <2> DEFINE left1 == db.ptt[t].remain - d[t]
             open1 == db.ptt[t].active /\ db.ptt[t].remain > d[t]
  <2>2. left1 \in Int /\ open1 \in BOOLEAN
    BY <2>1 DEF PttRow
  <2>3. trow(t) = [db.ptt[t] EXCEPT !.remain = left1, !.active = open1]
    OBVIOUS
  <2> HIDE DEF trow, left1, open1
  <2>4. trow(t) \in PttRow /\ trow(t).prepaid = db.ptt[t].prepaid /\ trow(t).remain = left1
    BY <2>1, <2>2, <2>3 DEF PttRow
  <2> QED BY <2>1, <2>4 DEF left1, PttsOf
<1> HIDE DEF trow, prow
<1>7. \A t \in PttIds : d[t] = 0 => next.ptt[t] = db.ptt[t]
  BY <1>4
<1>8. ASSUME NEW t \in Live(db.ptt)
      PROVE  /\ next.ptt[t].prepaid = db.ptt[t].prepaid
             /\ next.ptt[t].remain = db.ptt[t].remain - d[t]
  <2>1. t \in PttIds /\ db.ptt[t].remain \in Int
    BY RowTypes DEF PttRow
  <2>2. CASE d[t] = 0
    BY <2>1, <2>2, <1>7
  <2>3. CASE d[t] # 0
    BY <2>1, <2>3, <1>4, <1>6
  <2> QED BY <2>2, <2>3
<1>9. Live(next.ptt) = Live(db.ptt)
  <2>1. \A t \in PttIds : \/ next.ptt[t] = db.ptt[t]
                          \/ next.ptt[t] \in PttRow /\ t \in Live(db.ptt)
    BY <1>4, <1>6
  <2>2. DOMAIN next.ptt = PttIds /\ DOMAIN db.ptt = PttIds
    BY <1>4, RowTypes
  <2> QED BY <2>1, <2>2, TablesAssumption DEF Live
<1>10. next.prepaid[p].remain = db.prepaid[p].remain - Total(d, NPtts)
  BY <1>5
<1> HIDE DEF left, open
<1> QED BY <1>1, <1>2, <1>4, <1>5, <1>7, <1>8, <1>9, <1>10

\* No more is drawn than the item; what is drawn from a transaction is there.
LEMMA DrawsBound ==
    ASSUME NEW db \in Database, NEW p, NEW today, NEW qty \in Nat, NEW d, d = Draws(db, p, today, qty)
    PROVE  /\ Total(d, NPtts) <= qty
           /\ \A t \in PttIds : d[t] <= qty /\ (d[t] > 0 => d[t] <= db.ptt[t].remain)
<1>1. /\ NPtts \in Nat /\ PttIds = 1..NPtts /\ IsQueue(NPtts, Usable(db, p, today), AheadIn(db))
      /\ IsDrained(NPtts, Usable(db, p, today), AheadIn(db), Stock(db, p, today), AheadOf(db, p, today), OpenAt(db, p, today, qty), d, qty)
  BY UsableIsQueue, DrawsDrain
<1>2. Total(d, NPtts) <= qty
  BY <1>1, TakenAtMost
<1>3. d \in [PttIds -> Nat]
  BY DrawsType
<1>4. ASSUME NEW t \in PttIds PROVE d[t] <= qty
  <2>1. d[t] \in Nat /\ d[t] <= Total(d, NPtts) /\ Total(d, NPtts) \in Nat
    BY <1>1, <1>3, TotalBoundsEntry, TotalNonNegative
  <2> QED BY <2>1, <1>2
<1>5. ASSUME NEW t \in PttIds, d[t] > 0 PROVE d[t] <= db.ptt[t].remain
  <2>1. d[t] = IF t \notin Usable(db, p, today) \/ OpenAt(db, p, today, qty)[t] <= 0 THEN 0
               ELSE IF OpenAt(db, p, today, qty)[t] <= Stock(db, p, today)[t] THEN OpenAt(db, p, today, qty)[t]
               ELSE Stock(db, p, today)[t]
    BY <1>1 DEF IsDrained
  <2>2. t \in Usable(db, p, today) /\ d[t] \in Nat
    BY <2>1, <1>3, <1>5
  <2>3. Stock(db, p, today)[t] = db.ptt[t].remain /\ db.ptt[t].remain \in Nat
    BY <2>2, UsableIsQueue DEF Stock
  <2>4. OpenAt(db, p, today, qty)[t] \in Int
    BY <1>1 DEF IsDrained
  <2> QED BY <2>1, <2>2, <2>3, <2>4
<1> QED BY <1>2, <1>4, <1>5

-----------------------------------------------------------------------------
\* Methods that leave the sales alone: each transaction left either keeps its
\* balance and what was granted, or is granted what the request says it holds.
IsRestated(db, granted, next, granted2, t) ==
    \/ /\ next.ptt[t].remain >= 0
       /\ granted2[t] = next.ptt[t].remain + Total(DrawnOn(db, t), NSales)
    \/ /\ t \in Live(db.ptt) /\ granted2[t] = granted[t]
       /\ next.ptt[t].remain = db.ptt[t].remain
       /\ next.prepaid[next.ptt[t].prepaid].type = db.prepaid[db.ptt[t].prepaid].type

LEMMA Restated ==
    ASSUME NEW db \in Database, NEW next \in Database, next.sale = db.sale,
           NEW granted, NEW granted2,
           \A t \in Live(next.ptt) : IsRestated(db, granted, next, granted2, t)
    PROVE  MoneyKept(db, granted, next, granted2)
<1>1. ASSUME NEW t \in Live(next.ptt)
      PROVE  /\ t \in PttIds /\ next.ptt[t].remain \in Int
             /\ DrawnOn(next, t) = DrawnOn(db, t) /\ Total(DrawnOn(db, t), NSales) \in Nat
  <2>1. t \in PttIds /\ next.ptt[t].remain \in Int
    BY RowTypes DEF PttRow
  <2> QED BY <2>1, DrawnType DEF DrawnOn
<1>2. Holds(db) => Holds(next)
  <2> SUFFICES ASSUME Holds(db) PROVE Holds(next)
    OBVIOUS
  <2>1. ASSUME NEW t \in Live(next.ptt) PROVE next.ptt[t].remain >= 0
    BY DEF Holds, IsRestated
  <2> QED BY <2>1 DEF Holds, PaymentsWithinItems
<1>3. GrantsKept(db, granted) => GrantsKept(next, granted2)
  <2> SUFFICES ASSUME GrantsKept(db, granted), NEW t \in Live(next.ptt)
               PROVE  next.ptt[t].remain + Total(DrawnOn(next, t), NSales) >= granted2[t]
    BY DEF GrantsKept
  <2>1. CASE granted2[t] = next.ptt[t].remain + Total(DrawnOn(db, t), NSales)
    BY <1>1, <2>1
  <2>2. CASE t \in Live(db.ptt) /\ granted2[t] = granted[t] /\ next.ptt[t].remain = db.ptt[t].remain
    BY <1>1, <2>2 DEF GrantsKept
  <2> QED BY <2>1, <2>2 DEF IsRestated
<1>4. CashAdds(db, granted) => CashAdds(next, granted2)
  <2> SUFFICES ASSUME CashAdds(db, granted), NEW t \in Live(next.ptt),
                      next.prepaid[next.ptt[t].prepaid].type \in CashTypes
               PROVE  next.ptt[t].remain + Total(DrawnOn(next, t), NSales) = granted2[t]
    BY DEF CashAdds
  <2>1. CASE granted2[t] = next.ptt[t].remain + Total(DrawnOn(db, t), NSales)
    BY <1>1, <2>1
  <2>2. CASE /\ t \in Live(db.ptt) /\ granted2[t] = granted[t]
             /\ next.ptt[t].remain = db.ptt[t].remain
             /\ next.prepaid[next.ptt[t].prepaid].type = db.prepaid[db.ptt[t].prepaid].type
    BY <1>1, <2>2 DEF CashAdds
  <2> QED BY <2>1, <2>2 DEF IsRestated
<1> QED BY <1>2, <1>3, <1>4 DEF MoneyKept

\* Nothing was drawn from a transaction that is not there yet.
LEMMA NothingDrawnYet ==
    ASSUME NEW db \in Database, RowsRefer(db), NEW t \in PttIds, t \notin Live(db.ptt)
    PROVE  Total(DrawnOn(db, t), NSales) = 0
<1>1. DrawnOn(db, t) \in [SaleIds -> Nat]
  BY DrawnType
<1>2. ASSUME NEW s \in SaleIds PROVE DrawnOn(db, t)[s] = 0
  <2>1. s \in Live(db.sale) => ~(db.sale[s].drawn[t] > 0)
    BY DEF RowsRefer, PttsOf
  <2>2. s \in Live(db.sale) => db.sale[s].drawn[t] \in Nat
    BY RowTypes DEF SaleRow
  <2> QED BY <2>1, <2>2 DEF DrawnOn
<1>3. DrawnOn(db, t) \in [SaleIds -> Int]
  BY <1>1
<1> QED BY <1>2, <1>3, TotalZero, TablesAssumption DEF SaleIds

LEMMA AddPrepaidMoney ==
    ASSUME NEW db \in Database, RowsRefer(db), NEW p \in PrepaidIds, NEW t \in PttIds,
           NEW type \in PrepaidTypes, NEW v \in Nat, NEW date \in Nat, NEW expiry \in Nat,
           p \notin Live(db.prepaid), t \notin Live(db.ptt),
           NEW next \in Database, next = AddPrepaidDb(db, p, t, type, v, date, expiry),
           NEW granted \in [PttIds -> Int], NEW granted2,
           granted2 = [granted EXCEPT ![t] = InitValue(type, v)]
    PROVE  MoneyKept(db, granted, next, granted2)
<1> DEFINE init == InitValue(type, v)
<1>1. init \in Nat
  BY InitValueType
<1>2. /\ next.sale = db.sale /\ next.ptt[t].remain = init
      /\ \A u \in PttIds : u # t => next.ptt[u] = db.ptt[u]
      /\ \A q \in PrepaidIds : q # p => next.prepaid[q] = db.prepaid[q]
  BY RowTypes DEF AddPrepaidDb, NewPtt
<1> HIDE DEF init
<1>4. granted2[t] = init /\ \A u \in PttIds : u # t => granted2[u] = granted[u]
  BY DEF init
<1>5. ASSUME NEW u \in Live(next.ptt), u # t
      PROVE  /\ u \in Live(db.ptt) /\ granted2[u] = granted[u] /\ next.ptt[u] = db.ptt[u]
             /\ next.prepaid[db.ptt[u].prepaid] = db.prepaid[db.ptt[u].prepaid]
  <2>1. u \in PttIds
    BY RowTypes
  <2>2. u \in Live(db.ptt) /\ next.ptt[u] = db.ptt[u] /\ granted2[u] = granted[u]
    BY <2>1, <1>2, <1>4, <1>5, RowTypes DEF Live
  <2>3. db.ptt[u].prepaid \in Live(db.prepaid) /\ db.ptt[u].prepaid \in PrepaidIds
    BY <2>2, RowTypes DEF RowsRefer
  <2> QED BY <2>2, <2>3, <1>2
<1>6. Total(DrawnOn(db, t), NSales) = 0
  BY NothingDrawnYet
<1>8. \A u \in Live(next.ptt) : IsRestated(db, granted, next, granted2, u)
  BY <1>1, <1>2, <1>4, <1>5, <1>6 DEF IsRestated
<1> QED BY <1>2, <1>8, Restated

LEMMA TopUpMoney ==
    ASSUME NEW db \in Database, RowsRefer(db), NEW p \in PrepaidIds, p \in Live(db.prepaid),
           NEW t \in PttIds, NEW v \in Nat, NEW date \in Nat, NEW expiry \in Nat,
           t \notin Live(db.ptt),
           NEW next \in Database, next = TopUpDb(db, p, t, v, date, expiry),
           NEW granted \in [PttIds -> Int], NEW granted2,
           granted2 = [granted EXCEPT ![t] = v]
    PROVE  MoneyKept(db, granted, next, granted2)
<1>2. /\ next.sale = db.sale
      /\ next.prepaid = [db.prepaid EXCEPT ![p] = Booked(@, v, v)]
      /\ next.ptt[t].remain = v
  BY DEF TopUpDb, NewPtt
<1>3. ASSUME NEW u \in PttIds, u # t
      PROVE  \/ next.ptt[u] = db.ptt[u]
             \/ /\ u \in Live(db.ptt) /\ next.ptt[u].prepaid = db.ptt[u].prepaid
                /\ next.ptt[u].remain = db.ptt[u].remain
  <2>1. \/ next.ptt[u] = db.ptt[u]
        \/ u \in PttsOf(db, p) /\ next.ptt[u] = [db.ptt[u] EXCEPT !.expiry = expiry]
    BY <1>3 DEF TopUpDb
  <2>2. u \in PttsOf(db, p) => u \in Live(db.ptt) /\ db.ptt[u] \in PttRow
    BY RowTypes DEF PttsOf
  <2> QED BY <2>1, <2>2 DEF PttRow
<1>4. \A q \in PrepaidIds : next.prepaid[q].type = db.prepaid[q].type
  BY <1>2, RowTypes DEF Booked
<1>5. granted2[t] = v /\ \A u \in PttIds : u # t => granted2[u] = granted[u]
  OBVIOUS
<1>6. ASSUME NEW u \in Live(next.ptt), u # t
      PROVE  /\ u \in Live(db.ptt) /\ granted2[u] = granted[u]
             /\ next.ptt[u].remain = db.ptt[u].remain
             /\ next.prepaid[next.ptt[u].prepaid].type = db.prepaid[db.ptt[u].prepaid].type
  <2>1. u \in PttIds /\ granted2[u] = granted[u]
    BY <1>5, <1>6, RowTypes
  <2>2. /\ u \in Live(db.ptt) /\ next.ptt[u].prepaid = db.ptt[u].prepaid
        /\ next.ptt[u].remain = db.ptt[u].remain
    BY <2>1, <1>3, <1>6, RowTypes DEF Live
  <2>3. db.ptt[u].prepaid \in PrepaidIds
    BY <2>2, RowTypes DEF PttRow
  <2> QED BY <2>1, <2>2, <2>3, <1>4
<1>7. Total(DrawnOn(db, t), NSales) = 0
  BY NothingDrawnYet
<1>8. \A u \in Live(next.ptt) : IsRestated(db, granted, next, granted2, u)
  BY <1>2, <1>5, <1>6, <1>7 DEF IsRestated
<1> QED BY <1>2, <1>8, Restated

\* Editing transaction t, and with it the prepaid p it belongs to.
IsEdit(db, granted, next, granted2, p, t, r, prow, trow) ==
    /\ prow.type = db.prepaid[p].type
    /\ trow.remain = r /\ trow.prepaid = db.ptt[t].prepaid
    /\ next.prepaid = [db.prepaid EXCEPT ![p] = prow]
    /\ next.ptt = [db.ptt EXCEPT ![t] = trow] /\ next.sale = db.sale
    /\ granted2 = [granted EXCEPT ![t] = r + Total(DrawnOn(db, t), NSales)]

LEMMA EditMoney ==
    ASSUME NEW db \in Database, NEW next \in Database, NEW p \in PrepaidIds,
           NEW t \in PttIds, NEW r \in Nat, NEW prow, NEW trow,
           NEW granted \in [PttIds -> Int], NEW granted2,
           IsEdit(db, granted, next, granted2, p, t, r, prow, trow)
    PROVE  MoneyKept(db, granted, next, granted2)
<1> USE DEF IsEdit
<1>1. \A q \in PrepaidIds : next.prepaid[q].type = db.prepaid[q].type
  BY RowTypes
<1>2. /\ next.ptt[t].remain = r /\ granted2[t] = r + Total(DrawnOn(db, t), NSales)
      /\ \A u \in PttIds : u # t => next.ptt[u] = db.ptt[u] /\ granted2[u] = granted[u]
  BY RowTypes
<1>3. ASSUME NEW u \in Live(next.ptt), u # t
      PROVE  /\ u \in Live(db.ptt) /\ granted2[u] = granted[u] /\ next.ptt[u] = db.ptt[u]
             /\ next.prepaid[db.ptt[u].prepaid].type = db.prepaid[db.ptt[u].prepaid].type
  <2>1. u \in PttIds
    BY RowTypes
  <2>2. u \in Live(db.ptt) /\ next.ptt[u] = db.ptt[u] /\ granted2[u] = granted[u]
    BY <2>1, <1>2, <1>3, RowTypes DEF Live
  <2>3. db.ptt[u].prepaid \in PrepaidIds
    BY <2>2, RowTypes DEF PttRow
  <2> QED BY <2>2, <2>3, <1>1
<1>4. \A u \in Live(next.ptt) : IsRestated(db, granted, next, granted2, u)
  BY <1>2, <1>3 DEF IsRestated
<1> QED BY <1>2, <1>4, Restated

LEMMA EditPrepaidMoney ==
    ASSUME NEW db \in Database, NEW p \in PrepaidIds, NEW t \in PttIds,
           NEW v \in Nat, NEW r \in Nat, NEW active \in BOOLEAN,
           NEW date \in Nat, NEW expiry \in Nat,
           NEW next \in Database, next = EditPrepaidDb(db, p, t, v, r, active, date, expiry),
           NEW granted \in [PttIds -> Int], NEW granted2,
           granted2 = [granted EXCEPT ![t] = r + Total(DrawnOn(db, t), NSales)]
    PROVE  MoneyKept(db, granted, next, granted2)
<1> DEFINE init == InitValue(db.prepaid[p].type, v)
           prow == [type |-> db.prepaid[p].type, active |-> active, init |-> init, remain |-> r]
           trow == EditedPtt(db.ptt[t], init, r, active, date, expiry)
<1>1. /\ next.prepaid = [db.prepaid EXCEPT ![p] = prow]
      /\ next.ptt = [db.ptt EXCEPT ![t] = trow] /\ next.sale = db.sale
  BY RowTypes DEF EditPrepaidDb
<1>2. /\ prow.type = db.prepaid[p].type
      /\ trow.remain = r /\ trow.prepaid = db.ptt[t].prepaid
  BY DEF EditedPtt
<1>3. IsEdit(db, granted, next, granted2, p, t, r, prow, trow)
  BY <1>1, <1>2 DEF IsEdit
<1> HIDE DEF prow, trow
<1> QED BY <1>3, EditMoney

LEMMA EditTopUpMoney ==
    ASSUME NEW db \in Database, NEW t \in PttIds, t \in Live(db.ptt), NEW v \in Nat,
           NEW r \in Nat, NEW active \in BOOLEAN, NEW date \in Nat, NEW expiry \in Nat,
           NEW next \in Database, next = EditTopUpDb(db, t, v, r, active, date, expiry),
           NEW granted \in [PttIds -> Int], NEW granted2,
           granted2 = [granted EXCEPT ![t] = r + Total(DrawnOn(db, t), NSales)]
    PROVE  MoneyKept(db, granted, next, granted2)
<1> DEFINE old == db.ptt[t]
           p == old.prepaid
           prow == Booked(db.prepaid[p], v - old.init, r - old.remain)
           trow == EditedPtt(old, v, r, active, date, expiry)
<1>1. /\ next.prepaid = [db.prepaid EXCEPT ![p] = prow]
      /\ next.ptt = [db.ptt EXCEPT ![t] = trow] /\ next.sale = db.sale
  BY DEF EditTopUpDb
<1>2. /\ prow.type = db.prepaid[p].type
      /\ trow.remain = r /\ trow.prepaid = db.ptt[t].prepaid
  BY DEF EditedPtt, Booked
<1>3. p \in PrepaidIds
  BY RowTypes DEF PttRow
<1>4. IsEdit(db, granted, next, granted2, p, t, r, prow, trow)
  BY <1>1, <1>2 DEF IsEdit
<1> HIDE DEF p, prow, trow
<1> QED BY <1>3, <1>4, EditMoney

\* Deletions: of a top-up, and of a prepaid with all its transactions.
LEMMA DeletionMoney ==
    ASSUME NEW db \in Database, NEW next \in Database, next.sale = db.sale,
           NEW granted, NEW granted2,
           \A t \in Live(next.ptt) :
              /\ t \in Live(db.ptt) /\ next.ptt[t] = db.ptt[t] /\ granted2[t] = granted[t]
              /\ next.prepaid[db.ptt[t].prepaid].type = db.prepaid[db.ptt[t].prepaid].type
    PROVE  MoneyKept(db, granted, next, granted2)
<1>1. \A t \in Live(next.ptt) : IsRestated(db, granted, next, granted2, t)
  BY DEF IsRestated
<1> QED BY <1>1, Restated

LEMMA DeleteTopUpMoney ==
    ASSUME NEW db \in Database, NEW t \in PttIds, t \in Live(db.ptt),
           NEW next \in Database, next = DeleteTopUpDb(db, t),
           NEW granted \in [PttIds -> Int], NEW granted2,
           \A u \in PttIds : u # t => granted2[u] = granted[u]
    PROVE  MoneyKept(db, granted, next, granted2)
<1> DEFINE old == db.ptt[t]
           p == old.prepaid
           prow == Booked(db.prepaid[p], -old.init, -old.remain)
<1>1. /\ next.prepaid = [db.prepaid EXCEPT ![p] = prow]
      /\ next.ptt = [db.ptt EXCEPT ![t] = NoRow] /\ next.sale = db.sale
  BY DEF DeleteTopUpDb
<1>2. prow.type = db.prepaid[p].type
  BY DEF Booked
<1> HIDE DEF p, prow
<1>3. \A q \in PrepaidIds : next.prepaid[q].type = db.prepaid[q].type
  BY <1>1, <1>2, RowTypes
<1>4. ASSUME NEW u \in Live(next.ptt)
      PROVE  /\ u \in Live(db.ptt) /\ next.ptt[u] = db.ptt[u] /\ granted2[u] = granted[u]
             /\ next.prepaid[db.ptt[u].prepaid].type = db.prepaid[db.ptt[u].prepaid].type
  <2>1. u \in PttIds /\ next.ptt[u] # NoRow
    BY RowTypes DEF Live
  <2>2. u # t /\ next.ptt[u] = db.ptt[u]
    BY <2>1, <1>1, RowTypes
  <2>3. u \in Live(db.ptt)
    BY <2>1, <2>2, RowTypes DEF Live
  <2>4. db.ptt[u].prepaid \in PrepaidIds
    BY <2>3, RowTypes DEF PttRow
  <2> QED BY <2>1, <2>2, <2>3, <2>4, <1>3
<1> QED BY <1>1, <1>4, DeletionMoney

LEMMA DeletePrepaidMoney ==
    ASSUME NEW db \in Database, NEW p \in PrepaidIds,
           NEW next \in Database, next = DeletePrepaidDb(db, p),
           NEW granted \in [PttIds -> Int], NEW granted2,
           \A u \in PttIds \ PttsOf(db, p) : granted2[u] = granted[u]
    PROVE  MoneyKept(db, granted, next, granted2)
<1>1. /\ next.prepaid = [db.prepaid EXCEPT ![p] = NoRow] /\ next.sale = db.sale
      /\ next.ptt = [t \in PttIds |-> IF t \in PttsOf(db, p) THEN NoRow ELSE db.ptt[t]]
  BY DEF DeletePrepaidDb
<1>2. ASSUME NEW u \in Live(next.ptt)
      PROVE  /\ u \in Live(db.ptt) /\ next.ptt[u] = db.ptt[u] /\ granted2[u] = granted[u]
             /\ next.prepaid[db.ptt[u].prepaid].type = db.prepaid[db.ptt[u].prepaid].type
  <2>1. u \in PttIds /\ next.ptt[u] # NoRow
    BY RowTypes DEF Live
  <2>2. u \notin PttsOf(db, p) /\ next.ptt[u] = db.ptt[u] /\ granted2[u] = granted[u]
    BY <2>1, <1>1
  <2>3. u \in Live(db.ptt)
    BY <2>1, <2>2, RowTypes DEF Live
  <2>4. db.ptt[u].prepaid \in PrepaidIds /\ db.ptt[u].prepaid # p
    BY <2>2, <2>3, RowTypes DEF PttRow, PttsOf
  <2> QED BY <2>2, <2>3, <2>4, <1>1, RowTypes
<1> QED BY <1>1, <1>2, DeletionMoney

\* The expiry job changes no amount and no type.
LEMMA ExpireMoney ==
    ASSUME NEW db \in Database, RowsRefer(db), NEW t \in PttIds, t \in Live(db.ptt),
           NEW next \in Database, next = ExpireDb(db, t), NEW granted
    PROVE  MoneyKept(db, granted, next, granted)
<1>0. PICK p : p = db.ptt[t].prepaid
  OBVIOUS
<1> DEFINE open == db.prepaid[p].active /\ db.prepaid[p].type \notin VoucherTypes
           prow == [db.prepaid[p] EXCEPT !.active = open]
           trow == [db.ptt[t] EXCEPT !.active = FALSE]
<1>1. /\ db.ptt[t] \in PttRow
      /\ p \in Live(db.prepaid) /\ p \in PrepaidIds /\ db.prepaid[p] \in PrepaidRow
  BY <1>0, RowTypes DEF RowsRefer
<1>2. /\ next.prepaid = [db.prepaid EXCEPT ![p] = prow]
      /\ next.ptt = [db.ptt EXCEPT ![t] = trow] /\ next.sale = db.sale
  BY <1>0, <1>1, RowTypes DEF ExpireDb
<1> HIDE DEF open
<1>3. /\ prow.type = db.prepaid[p].type
      /\ trow.prepaid = db.ptt[t].prepaid /\ trow.remain = db.ptt[t].remain
  BY <1>1 DEF PrepaidRow, PttRow
<1> HIDE DEF prow, trow
<1>4. \A q \in PrepaidIds : next.prepaid[q].type = db.prepaid[q].type
  BY <1>2, <1>3, RowTypes
<1>5. ASSUME NEW u \in Live(next.ptt)
      PROVE  /\ u \in Live(db.ptt) /\ next.ptt[u].remain = db.ptt[u].remain
             /\ next.prepaid[next.ptt[u].prepaid].type = db.prepaid[db.ptt[u].prepaid].type
  <2>1. u \in PttIds /\ next.ptt[u] # NoRow
    BY RowTypes DEF Live
  <2>2. u \in Live(db.ptt)
    BY <2>1, <1>1, <1>2, RowTypes DEF Live
  <2>3. next.ptt[u].remain = db.ptt[u].remain /\ next.ptt[u].prepaid = db.ptt[u].prepaid
    BY <2>1, <1>2, <1>3, RowTypes
  <2>4. db.ptt[u].prepaid \in PrepaidIds
    BY <2>2, RowTypes DEF PttRow
  <2> QED BY <2>2, <2>3, <2>4, <1>4
<1>6. \A u \in Live(next.ptt) : IsRestated(db, granted, next, granted, u)
  BY <1>5 DEF IsRestated
<1> QED BY <1>2, <1>6, Restated

\* A checkout moves what it takes from a transaction to its own payments.
LEMMA CheckOutMoney ==
    ASSUME NEW db \in Database, RowsRefer(db), NEW p \in PrepaidIds, p \in Live(db.prepaid),
           NEW s \in SaleIds, s \notin Live(db.sale), NEW today \in Nat, NEW qty \in Nat,
           NEW next \in Database, next = CheckOutDb(db, p, s, today, qty), NEW granted
    PROVE  MoneyKept(db, granted, next, granted)
<1>0. PICK d : d = Draws(db, p, today, qty)
  OBVIOUS
<1>1. /\ d \in [PttIds -> Nat] /\ Total(d, NPtts) \in Nat
      /\ next.sale = [db.sale EXCEPT ![s] =
            [prepaid |-> p, created |-> today, qty |-> qty, drawn |-> d, due |-> qty - Total(d, NPtts)]]
      /\ \A q \in Live(db.prepaid) : next.prepaid[q].type = db.prepaid[q].type
      /\ \A t \in Live(db.ptt) :
            /\ next.ptt[t].prepaid = db.ptt[t].prepaid
            /\ next.ptt[t].remain = db.ptt[t].remain - d[t]
      /\ Live(next.ptt) = Live(db.ptt)
  BY <1>0, CheckOutEffect
<1>2. /\ Total(d, NPtts) <= qty
      /\ \A t \in PttIds : d[t] <= qty /\ (d[t] > 0 => d[t] <= db.ptt[t].remain)
  BY <1>0, DrawsBound
<1>3. /\ next.sale[s].due = qty - Total(d, NPtts) /\ next.sale[s].qty = qty
      /\ next.sale[s].drawn = d
      /\ \A x \in SaleIds : x # s => next.sale[x] = db.sale[x]
  BY <1>1, RowTypes
<1>4. ASSUME Holds(db), NEW x \in Live(next.sale)
      PROVE  /\ next.sale[x].due >= 0
             /\ \A t \in PttIds : next.sale[x].drawn[t] <= next.sale[x].qty
  <2>1. CASE x = s
    BY <2>1, <1>1, <1>2, <1>3
  <2>2. CASE x # s
    <3>1. x \in Live(db.sale) /\ next.sale[x] = db.sale[x]
      BY <2>2, <1>3, RowTypes DEF Live
    <3> QED BY <3>1, <1>4 DEF Holds, PaymentsWithinItems
  <2> QED BY <2>1, <2>2
<1>5. s \in Live(next.sale) /\ \A x \in SaleIds : x # s => (x \in Live(next.sale) <=> x \in Live(db.sale))
  <2>1. next.sale[s] # NoRow
    <3>1. [prepaid |-> p, created |-> today, qty |-> qty, drawn |-> d, due |-> qty - Total(d, NPtts)] \in SaleRow
      BY <1>1 DEF SaleRow
    <3> QED BY <3>1, <1>1, RowTypes, TablesAssumption
  <2> QED BY <2>1, <1>3, RowTypes DEF Live
<1>6. ASSUME NEW t \in Live(db.ptt)
      PROVE  /\ db.ptt[t].remain >= 0 => next.ptt[t].remain >= 0
             /\ next.ptt[t].remain + Total(DrawnOn(next, t), NSales)
                  = db.ptt[t].remain + Total(DrawnOn(db, t), NSales)
  <2>1. t \in PttIds /\ db.ptt[t].remain \in Int /\ d[t] \in Nat
    BY <1>1, RowTypes DEF PttRow
  <2>2. next.ptt[t].remain = db.ptt[t].remain - d[t]
    BY <1>1
  <2>3. db.ptt[t].remain >= 0 => next.ptt[t].remain >= 0
    BY <2>1, <2>2, <1>2
  <2> DEFINE a == DrawnOn(db, t)
             b == DrawnOn(next, t)
             n == d[t]
  <2>4. a \in [SaleIds -> Int] /\ a[s] = 0 /\ Total(a, NSales) \in Int
    <3>1. a \in [SaleIds -> Nat] /\ Total(a, NSales) \in Nat
      BY <2>1, DrawnType
    <3>2. a[s] = 0
      BY DEF DrawnOn
    <3> QED BY <3>1, <3>2
  <2>5. b[s] = n /\ \A x \in SaleIds : x # s => b[x] = a[x]
    BY <1>3, <1>5 DEF DrawnOn
  <2>6. b \in [SaleIds -> Int]
    <3>1. b = [x \in SaleIds |-> b[x]]
      BY DEF DrawnOn
    <3>2. \A x \in SaleIds : b[x] \in Int
      BY <2>1, <2>4, <2>5
    <3> HIDE DEF b
    <3> QED BY <3>1, <3>2
  <2>7. n \in Int /\ NSales \in Nat /\ SaleIds = 1..NSales
    BY <2>1, TablesAssumption DEF SaleIds
  <2> HIDE DEF a, b, n
  <2>9. Total(b, NSales) = Total(a, NSales) + n
    <3>1. b[s] = a[s] + n
      BY <2>4, <2>5, <2>7
    <3>2. \A x \in 1..NSales : x # s => b[x] = a[x]
      BY <2>5, <2>7
    <3>3. a \in [1..NSales -> Int] /\ b \in [1..NSales -> Int]
      BY <2>4, <2>6, <2>7
    <3>4. n \in Int /\ NSales \in Nat /\ s \in 1..NSales
      BY <2>7
    <3> QED BY <3>1, <3>2, <3>3, <3>4, TotalChangeOne
  <2>10. Total(b, NSales) = Total(a, NSales) + d[t] /\ Total(a, NSales) \in Int
    BY <2>4, <2>9 DEF n
  <2>11. next.ptt[t].remain + Total(b, NSales) = db.ptt[t].remain + Total(a, NSales)
    BY <2>1, <2>2, <2>10
  <2> QED BY <2>3, <2>11 DEF a, b
<1>7. \A t \in Live(db.ptt) :
         next.prepaid[next.ptt[t].prepaid].type = db.prepaid[db.ptt[t].prepaid].type
  BY <1>1 DEF RowsRefer
<1>8. Holds(db) => Holds(next)
  BY <1>1, <1>4, <1>6 DEF Holds, PaymentsWithinItems
<1>9. GrantsKept(db, granted) => GrantsKept(next, granted)
  BY <1>1, <1>6 DEF GrantsKept
<1>10. CashAdds(db, granted) => CashAdds(next, granted)
  BY <1>1, <1>6, <1>7 DEF CashAdds
<1> QED BY <1>8, <1>9, <1>10 DEF MoneyKept

\* What deleting an order puts back is at least what its payment took; for
\* cash it is just that.  The first needs that no payment exceeds its item.
LEMMA PutBackEnough ==
    ASSUME NEW db \in Database, PaymentsWithinItems(db), NEW s \in Live(db.sale),
           NEW t \in PttIds
    PROVE  /\ PutBack(db, s)[t] \in Nat /\ db.sale[s].drawn[t] \in Nat
           /\ PutBack(db, s)[t] >= db.sale[s].drawn[t]
           /\ db.prepaid[db.sale[s].prepaid].type \in CashTypes =>
                 PutBack(db, s)[t] = db.sale[s].drawn[t]
<1>1. db.sale[s].drawn[t] \in Nat /\ db.sale[s].qty \in Nat
  BY RowTypes DEF SaleRow
<1>2. db.sale[s].drawn[t] <= db.sale[s].qty
  BY DEF PaymentsWithinItems
<1>3. PutBack(db, s)[t] = IF db.sale[s].drawn[t] = 0 THEN 0
                          ELSE IF db.prepaid[db.sale[s].prepaid].type \in CashTypes
                               THEN db.sale[s].drawn[t] ELSE db.sale[s].qty
  BY DEF PutBack
<1> QED BY <1>1, <1>2, <1>3

\* What deleting an order writes, in terms of what it puts back.
LEMMA RemoveSaleEffect ==
    ASSUME NEW db \in Database, RowsRefer(db), NEW s \in SaleIds, s \in Live(db.sale),
           NEW next, next = RemoveSaleDb(db, s), NEW back, back = PutBack(db, s)
    PROVE  /\ next.sale = [db.sale EXCEPT ![s] = NoRow]
           /\ \A q \in PrepaidIds : next.prepaid[q].type = db.prepaid[q].type
           /\ \A q \in PrepaidIds : q # db.sale[s].prepaid => next.prepaid[q] = db.prepaid[q]
           /\ IF \E t \in PttIds : back[t] > 0
              THEN /\ next.prepaid[db.sale[s].prepaid].remain
                        = db.prepaid[db.sale[s].prepaid].remain + Total(back, NPtts)
                   /\ next.prepaid[db.sale[s].prepaid] # NoRow
              ELSE next.prepaid = db.prepaid
           /\ \A t \in PttIds : back[t] > 0 => t \in PttsOf(db, db.sale[s].prepaid)
           /\ \A t \in Live(db.ptt) :
                 /\ next.ptt[t].prepaid = db.ptt[t].prepaid
                 /\ next.ptt[t].remain = db.ptt[t].remain + back[t]
           /\ Live(next.ptt) = Live(db.ptt)
<1>0. PICK p : p = db.sale[s].prepaid
  OBVIOUS
<1> DEFINE left == db.prepaid[p].remain + Total(back, NPtts)
           prow == [db.prepaid[p] EXCEPT !.remain = left, !.active = TRUE]
           trow(t) == [db.ptt[t] EXCEPT !.remain = @ + back[t], !.active = TRUE]
           any  == \E t \in PttIds : back[t] > 0
<1>1. s \in Live(db.sale) /\ p \in PrepaidIds
  BY <1>0, RowTypes DEF SaleRow
<1>2. /\ next.prepaid = IF any THEN [db.prepaid EXCEPT ![p] = prow] ELSE db.prepaid
      /\ next.ptt = [t \in PttIds |-> IF back[t] = 0 THEN db.ptt[t] ELSE trow(t)]
      /\ next.sale = [db.sale EXCEPT ![s] = NoRow]
  BY <1>0, <1>1, RowTypes DEF RemoveSaleDb
<1>3. /\ back \in [PttIds -> Nat]
      /\ \A t \in PttIds : back[t] > 0 => t \in PttsOf(db, p)
  BY <1>0, <1>1, PutBackType DEF RowsRefer
<1>4. /\ \A q \in PrepaidIds : next.prepaid[q].type = db.prepaid[q].type
      /\ \A q \in PrepaidIds : q # p => next.prepaid[q] = db.prepaid[q]
      /\ IF any THEN next.prepaid[p].remain = left /\ next.prepaid[p] # NoRow
         ELSE next.prepaid = db.prepaid
  <2>1. CASE any
    <3>1. p \in Live(db.prepaid) /\ db.prepaid[p] \in PrepaidRow
      BY <2>1, <1>3, RowTypes DEF RowsRefer, PttsOf
    <3>2. left \in Int
      <4>1. back \in [PttIds -> Int]
        BY <1>3
      <4>2. Total(back, NPtts) \in Int
        BY <4>1, TotalType, TablesAssumption DEF PttIds
      <4> QED BY <3>1, <4>2 DEF PrepaidRow
    <3>3. prow.type = db.prepaid[p].type /\ prow.remain = left /\ prow \in PrepaidRow
      <4> HIDE DEF left
      <4> QED BY <3>1, <3>2 DEF PrepaidRow
    <3>4. next.prepaid = [db.prepaid EXCEPT ![p] = prow]
      BY <2>1, <1>2
    <3> HIDE DEF prow, any, left
    <3> QED BY <2>1, <3>3, <3>4, <1>1, RowTypes, TablesAssumption
  <2>2. CASE ~any
    <3>1. next.prepaid = db.prepaid
      BY <2>2, <1>2
    <3> HIDE DEF any
    <3> QED BY <2>2, <3>1
  <2> QED BY <2>1, <2>2
<1>5. ASSUME NEW t \in PttIds, back[t] # 0
      PROVE  /\ t \in Live(db.ptt) /\ trow(t) \in PttRow
             /\ trow(t).prepaid = db.ptt[t].prepaid
             /\ trow(t).remain = db.ptt[t].remain + back[t]
  <2>1. t \in PttsOf(db, p) /\ db.ptt[t] \in PttRow /\ back[t] \in Nat
    BY <1>3, <1>5, RowTypes DEF PttsOf
  <2> DEFINE left1 == db.ptt[t].remain + back[t]
  <2>2. left1 \in Int
    BY <2>1 DEF PttRow
  <2>3. trow(t) = [db.ptt[t] EXCEPT !.remain = left1, !.active = TRUE]
    OBVIOUS
  <2> HIDE DEF trow, left1
  <2>4. trow(t) \in PttRow /\ trow(t).prepaid = db.ptt[t].prepaid /\ trow(t).remain = left1
    BY <2>1, <2>2, <2>3 DEF PttRow
  <2> QED BY <2>1, <2>4 DEF left1, PttsOf
<1> HIDE DEF trow, prow, any, left
<1>6. ASSUME NEW t \in Live(db.ptt)
      PROVE  /\ next.ptt[t].prepaid = db.ptt[t].prepaid
             /\ next.ptt[t].remain = db.ptt[t].remain + back[t]
  <2>1. t \in PttIds /\ db.ptt[t].remain \in Int
    BY RowTypes DEF PttRow
  <2>2. CASE back[t] = 0
    BY <2>1, <2>2, <1>2
  <2>3. CASE back[t] # 0
    BY <2>1, <2>3, <1>2, <1>5
  <2> QED BY <2>2, <2>3
<1>7. Live(next.ptt) = Live(db.ptt)
  <2>1. \A t \in PttIds : \/ next.ptt[t] = db.ptt[t]
                          \/ next.ptt[t] \in PttRow /\ t \in Live(db.ptt)
    BY <1>2, <1>5
  <2>2. DOMAIN next.ptt = PttIds /\ DOMAIN db.ptt = PttIds
    BY <1>2, RowTypes
  <2> QED BY <2>1, <2>2, TablesAssumption DEF Live
<1>8. IF \E t \in PttIds : back[t] > 0
      THEN /\ next.prepaid[p].remain = db.prepaid[p].remain + Total(back, NPtts)
           /\ next.prepaid[p] # NoRow
      ELSE next.prepaid = db.prepaid
  BY <1>4 DEF any, left
<1> QED BY <1>0, <1>1, <1>2, <1>3, <1>4, <1>6, <1>7, <1>8

\* Deleting an order gives each transaction at least what the order took.
LEMMA RemoveSaleMoney ==
    ASSUME NEW db \in Database, RowsRefer(db), PaymentsWithinItems(db),
           NEW s \in SaleIds, s \in Live(db.sale),
           NEW next \in Database, next = RemoveSaleDb(db, s), NEW granted \in [PttIds -> Int]
    PROVE  MoneyKept(db, granted, next, granted)
<1>0. PICK back : back = PutBack(db, s)
  OBVIOUS
<1>1. /\ next.sale = [db.sale EXCEPT ![s] = NoRow]
      /\ \A q \in PrepaidIds : next.prepaid[q].type = db.prepaid[q].type
      /\ \A t \in PttIds : back[t] > 0 => t \in PttsOf(db, db.sale[s].prepaid)
      /\ \A t \in Live(db.ptt) :
            /\ next.ptt[t].prepaid = db.ptt[t].prepaid
            /\ next.ptt[t].remain = db.ptt[t].remain + back[t]
      /\ Live(next.ptt) = Live(db.ptt)
  BY <1>0, RemoveSaleEffect, SMTT(60)
<1>2. /\ next.sale[s] = NoRow
      /\ \A x \in SaleIds : x # s => next.sale[x] = db.sale[x]
      /\ Live(next.sale) = Live(db.sale) \ {s}
  BY <1>1, RowTypes DEF Live
<1>3. ASSUME NEW x \in Live(next.sale) PROVE x \in Live(db.sale) /\ next.sale[x] = db.sale[x]
  BY <1>2, RowTypes
<1>4. ASSUME NEW t \in Live(db.ptt)
      PROVE  /\ db.ptt[t].remain >= 0 => next.ptt[t].remain >= 0
             /\ db.ptt[t].remain + Total(DrawnOn(db, t), NSales) >= granted[t]
                  => next.ptt[t].remain + Total(DrawnOn(next, t), NSales) >= granted[t]
             /\ /\ db.prepaid[db.ptt[t].prepaid].type \in CashTypes
                /\ db.ptt[t].remain + Total(DrawnOn(db, t), NSales) = granted[t]
                => next.ptt[t].remain + Total(DrawnOn(next, t), NSales) = granted[t]
  <2> DEFINE a == DrawnOn(db, t)
             b == DrawnOn(next, t)
             n == db.sale[s].drawn[t]
             m == -n
  <2>1. /\ t \in PttIds /\ db.ptt[t].remain \in Int
        /\ back[t] \in Nat /\ n \in Nat /\ back[t] >= n
    BY <1>0, <1>1, RowTypes, PutBackEnough DEF PttRow
  <2>2. next.ptt[t].remain = db.ptt[t].remain + back[t]
    BY <1>1
  <2>3. a \in [SaleIds -> Int] /\ a[s] = n /\ Total(a, NSales) \in Nat
    <3>1. a \in [SaleIds -> Nat] /\ Total(a, NSales) \in Nat
      BY <2>1, DrawnType
    <3>2. a[s] = n
      BY DEF DrawnOn
    <3> QED BY <3>1, <3>2
  <2>4. b[s] = 0 /\ \A x \in SaleIds : x # s => b[x] = a[x]
    BY <1>2 DEF DrawnOn
  <2>5. b \in [SaleIds -> Int]
    <3>1. b = [x \in SaleIds |-> b[x]]
      BY DEF DrawnOn
    <3>2. \A x \in SaleIds : b[x] \in Int
      BY <2>3, <2>4
    <3> HIDE DEF b
    <3> QED BY <3>1, <3>2
  <2>6. NSales \in Nat /\ SaleIds = 1..NSales
    BY TablesAssumption DEF SaleIds
  <2>7. m \in Int /\ n + m = 0
    BY <2>1
  <2> HIDE DEF a, b, n
  <2>8. Total(b, NSales) = Total(a, NSales) + m
    <3>1. b[s] = a[s] + m
      BY <2>3, <2>4, <2>7
    <3> HIDE DEF m
    <3> QED BY <3>1, <2>3, <2>4, <2>5, <2>6, <2>7, TotalChangeOne
  <2>10. db.prepaid[db.ptt[t].prepaid].type \in CashTypes => back[t] = n
    <3>1. CASE back[t] > 0
      <4>1. db.ptt[t].prepaid = db.sale[s].prepaid
        BY <2>1, <3>1, <1>1 DEF PttsOf
      <4> QED BY <4>1, <2>1, <1>0, PutBackEnough DEF n
    <3>2. CASE ~(back[t] > 0)
      BY <2>1, <3>2
    <3> QED BY <3>1, <3>2
  <2>12. granted[t] \in Int
    BY <2>1
  <2> DEFINE r == db.ptt[t].remain
             r1 == next.ptt[t].remain
             c == back[t]
             g == granted[t]
             A == Total(a, NSales)
             B == Total(b, NSales)
             cash == db.prepaid[db.ptt[t].prepaid].type \in CashTypes
  <2>13. /\ r \in Int /\ c \in Nat /\ n \in Nat /\ c >= n /\ r1 = r + c /\ g \in Int
         /\ A \in Nat /\ B = A - n /\ (cash => c = n)
    BY <2>1, <2>2, <2>3, <2>7, <2>8, <2>10, <2>12
  <2> HIDE DEF r, r1, c, g, A, B, cash, m
  <2>14. (r >= 0 => r1 >= 0) /\ (r + A >= g => r1 + B >= g)
    BY <2>13
  <2>15. ASSUME cash, r + A = g PROVE r1 + B = g
    <3>1. c = n
      BY <2>13, <2>15
    <3> QED BY <3>1, <2>13, <2>15
  <2> QED BY <2>14, <2>15 DEF r, r1, A, B, g, cash, a, b
<1>5. \A t \in Live(db.ptt) :
         next.prepaid[next.ptt[t].prepaid].type = db.prepaid[db.ptt[t].prepaid].type
  BY <1>1, RowTypes DEF PttRow
<1>6. Holds(db) => Holds(next)
  BY <1>1, <1>3, <1>4 DEF Holds, PaymentsWithinItems
<1>7. GrantsKept(db, granted) => GrantsKept(next, granted)
  BY <1>1, <1>4 DEF GrantsKept
<1>8. CashAdds(db, granted) => CashAdds(next, granted)
  BY <1>1, <1>4, <1>5 DEF CashAdds
<1> QED BY <1>6, <1>7, <1>8 DEF MoneyKept

\* With balances that are sums, no transaction overdrawn means no prepaid.
LEMMA MoneyIsThere ==
    ASSUME NEW db \in Database, SumsAgree(db), Holds(db)
    PROVE  NothingNegative(db)
<1>1. ASSUME NEW p \in Live(db.prepaid) PROVE db.prepaid[p].remain >= 0
  <2>1. RemainOf(db, p) \in [PttIds -> Int]
    BY ColumnTypes
  <2>2. \A t \in PttIds : RemainOf(db, p)[t] \in Nat
    <3>1. \A t \in PttsOf(db, p) : db.ptt[t].remain >= 0
      BY DEF Holds, PttsOf
    <3> QED BY <2>1, <3>1 DEF RemainOf
  <2>3. RemainOf(db, p) \in [PttIds -> Nat]
    BY <2>1, <2>2
  <2>4. Total(RemainOf(db, p), NPtts) \in Nat
    BY <2>3, TotalNonNegative, TablesAssumption DEF PttIds
  <2> QED BY <2>4 DEF SumsAgree
<1> QED BY <1>1 DEF Holds, NothingNegative

-----------------------------------------------------------------------------
\* Vouchers: each has one transaction, and the two are open or closed together.
Vouchers(db) == VouchersSingle(db) /\ VouchersInStep(db)

\* What Vouchers says of transaction t.
VoucherOf(db, t) ==
    LET p == db.ptt[t].prepaid
    IN  db.prepaid[p].type \in VoucherTypes =>
            /\ db.ptt[t].root
            /\ PttsOf(db, p) = {t}
            /\ db.ptt[t].remain > 0 => db.prepaid[p].active = db.ptt[t].active

LEMMA VouchersEach ==
    ASSUME NEW db
    PROVE  Vouchers(db) <=> \A t \in Live(db.ptt) : VoucherOf(db, t)
BY DEF Vouchers, VouchersSingle, VouchersInStep, VoucherOf

\* A transaction none of whose facts changed, nor those of its prepaid.
IsSameVoucher(db, next, t) ==
    LET p == db.ptt[t].prepaid
    IN  /\ t \in Live(db.ptt)
        /\ next.ptt[t].prepaid = p
        /\ next.ptt[t].root = db.ptt[t].root
        /\ next.ptt[t].active = db.ptt[t].active
        /\ next.ptt[t].remain = db.ptt[t].remain
        /\ next.prepaid[p].type = db.prepaid[p].type
        /\ next.prepaid[p].active = db.prepaid[p].active
        /\ PttsOf(next, p) = PttsOf(db, p)

LEMMA SameVoucher ==
    ASSUME NEW db, NEW next, Vouchers(db), NEW t, IsSameVoucher(db, next, t)
    PROVE  VoucherOf(next, t)
<1>1. VoucherOf(db, t)
  BY VouchersEach DEF IsSameVoucher
<1> QED BY <1>1 DEF VoucherOf, IsSameVoucher

\* Selling a voucher writes it and its transaction, both open.
LEMMA AddPrepaidVouchers ==
    ASSUME NEW db \in Database, RowsRefer(db), Vouchers(db), NEW p \in PrepaidIds,
           NEW t \in PttIds, NEW type \in PrepaidTypes, NEW v \in Nat, NEW date \in Nat,
           NEW expiry \in Nat, p \notin Live(db.prepaid), t \notin Live(db.ptt),
           NEW next, next = AddPrepaidDb(db, p, t, type, v, date, expiry)
    PROVE  Vouchers(next)
<1> DEFINE init == InitValue(type, v)
<1>1. /\ next.ptt[t] = NewPtt(p, TRUE, init, date, expiry)
      /\ next.prepaid[p] = [type |-> type, active |-> TRUE, init |-> init, remain |-> init]
      /\ \A u \in PttIds : u # t => next.ptt[u] = db.ptt[u]
      /\ \A q \in PrepaidIds : q # p => next.prepaid[q] = db.prepaid[q]
      /\ DOMAIN next.ptt = PttIds /\ DOMAIN db.ptt = PttIds
  BY RowTypes DEF AddPrepaidDb
<1>2. next.ptt[t].prepaid = p /\ next.ptt[t].root /\ next.ptt[t].active /\ next.prepaid[p].active
  BY <1>1 DEF NewPtt
<1> HIDE DEF init
<1>3. \A u \in Live(next.ptt) : u # t => u \in Live(db.ptt) /\ next.ptt[u] = db.ptt[u]
  BY <1>1 DEF Live
<1>4. \A u \in Live(db.ptt) : /\ u \in PttIds /\ u # t
                              /\ db.ptt[u].prepaid \in PrepaidIds /\ db.ptt[u].prepaid # p
  BY RowTypes DEF RowsRefer
<1>5. PttsOf(next, p) = {t}
  <2>1. t \in Live(next.ptt)
    <3>1. init \in Nat
      BY InitValueType DEF init
    <3>2. NewPtt(p, TRUE, init, date, expiry) \in PttRow
      BY <3>1 DEF PttRow, NewPtt
    <3> QED BY <3>2, <1>1, TablesAssumption DEF Live
  <2> QED BY <2>1, <1>2, <1>3, <1>4 DEF PttsOf
<1>6. VoucherOf(next, t)
  BY <1>2, <1>5 DEF VoucherOf
<1>7. ASSUME NEW u \in Live(next.ptt), u # t PROVE VoucherOf(next, u)
  <2>1. PttsOf(next, db.ptt[u].prepaid) = PttsOf(db, db.ptt[u].prepaid)
    <3>1. db.ptt[u].prepaid # p
      BY <1>3, <1>4, <1>7
    <3>2. \A w \in PttIds : w # t => (w \in Live(next.ptt) <=> w \in Live(db.ptt))
      BY <1>1 DEF Live
    <3>3. \A w \in PttIds : w \in PttsOf(next, db.ptt[u].prepaid)
                              <=> w \in PttsOf(db, db.ptt[u].prepaid)
      BY <1>1, <1>2, <3>1, <3>2 DEF PttsOf
    <3> QED BY <1>1, <3>3 DEF PttsOf, Live
  <2>2. IsSameVoucher(db, next, u)
    BY <2>1, <1>1, <1>3, <1>4, <1>7 DEF IsSameVoucher
  <2> QED BY <2>2, SameVoucher
<1> QED BY <1>6, <1>7, VouchersEach

\* Only packages are topped up.
LEMMA TopUpVouchers ==
    ASSUME NEW db \in Database, RowsRefer(db), Vouchers(db), NEW p \in PrepaidIds,
           db.prepaid[p].type \notin VoucherTypes, p \in Live(db.prepaid),
           NEW t \in PttIds, t \notin Live(db.ptt), NEW v \in Nat, NEW date \in Nat,
           NEW expiry \in Nat, NEW next, next = TopUpDb(db, p, t, v, date, expiry)
    PROVE  Vouchers(next)
<1>1. /\ next.ptt[t].prepaid = p
      /\ next.prepaid[p].type = db.prepaid[p].type
      /\ \A u \in PttIds : u # t =>
            /\ next.ptt[u] = NoRow <=> db.ptt[u] = NoRow
            /\ u \in Live(db.ptt) => next.ptt[u].prepaid = db.ptt[u].prepaid
            /\ u \notin PttsOf(db, p) => next.ptt[u] = db.ptt[u]
      /\ \A q \in PrepaidIds : q # p => next.prepaid[q] = db.prepaid[q]
      /\ DOMAIN next.ptt = PttIds /\ DOMAIN db.ptt = PttIds
  <2>1. next.ptt[t] = NewPtt(p, FALSE, v, date, expiry)
    BY DEF TopUpDb
  <2>2. next.prepaid[p].type = db.prepaid[p].type
    BY RowTypes DEF TopUpDb, Booked
  <2>3. ASSUME NEW u \in PttIds, u # t
        PROVE  /\ next.ptt[u] = NoRow <=> db.ptt[u] = NoRow
               /\ u \in Live(db.ptt) => next.ptt[u].prepaid = db.ptt[u].prepaid
               /\ u \notin PttsOf(db, p) => next.ptt[u] = db.ptt[u]
    <3>1. CASE u \in PttsOf(db, p) /\ db.ptt[u].active /\ db.ptt[u].remain > 0
      <4>1. next.ptt[u] = [db.ptt[u] EXCEPT !.expiry = expiry]
        BY <2>3, <3>1 DEF TopUpDb
      <4>2. db.ptt[u] \in PttRow /\ db.ptt[u] # NoRow
        BY <3>1, RowTypes DEF PttsOf, Live
      <4>3. next.ptt[u] \in PttRow /\ next.ptt[u].prepaid = db.ptt[u].prepaid
        BY <4>1, <4>2 DEF PttRow
      <4> QED BY <4>2, <4>3, <3>1, TablesAssumption
    <3>2. CASE ~(u \in PttsOf(db, p) /\ db.ptt[u].active /\ db.ptt[u].remain > 0)
      BY <2>3, <3>2 DEF TopUpDb
    <3> QED BY <3>1, <3>2
  <2>4. \A q \in PrepaidIds : q # p => next.prepaid[q] = db.prepaid[q]
    BY RowTypes DEF TopUpDb
  <2>5. DOMAIN next.ptt = PttIds /\ DOMAIN db.ptt = PttIds
    BY RowTypes DEF TopUpDb
  <2> QED BY <2>1, <2>2, <2>3, <2>4, <2>5 DEF NewPtt
<1>2. ASSUME NEW u \in Live(next.ptt) PROVE VoucherOf(next, u)
  <2>1. CASE next.ptt[u].prepaid = p
    BY <2>1, <1>1 DEF VoucherOf
  <2>2. CASE next.ptt[u].prepaid # p
    <3>1. u \in PttIds /\ u # t /\ u \in Live(db.ptt) /\ db.ptt[u].prepaid # p
      BY <1>1, <1>2, <2>2 DEF Live
    <3>2. next.ptt[u] = db.ptt[u] /\ db.ptt[u].prepaid \in PrepaidIds
      BY <3>1, <1>1, RowTypes DEF PttsOf, PttRow
    <3>3. PttsOf(next, db.ptt[u].prepaid) = PttsOf(db, db.ptt[u].prepaid)
      BY <3>1, <1>1 DEF PttsOf, Live
    <3>4. IsSameVoucher(db, next, u)
      BY <3>1, <3>2, <3>3, <1>1 DEF IsSameVoucher
    <3> QED BY <3>4, SameVoucher
  <2> QED BY <2>1, <2>2
<1> QED BY <1>2, VouchersEach

\* Methods under which rows keep what ties them together, and change no
\* transaction of a voucher but those that are in step afterwards.
IsVoucherStep(db, next, t) ==
    /\ t \in Live(db.ptt)
    /\ next.ptt[t].prepaid = db.ptt[t].prepaid
    /\ next.ptt[t].root = db.ptt[t].root
    /\ next.prepaid[db.ptt[t].prepaid].type = db.prepaid[db.ptt[t].prepaid].type

StaysInStep(db, next, t) ==
    LET p == db.ptt[t].prepaid
    IN  /\ db.prepaid[p].type \in VoucherTypes
        /\ PttsOf(db, p) = {t}
        /\ db.ptt[t].remain > 0 => db.prepaid[p].active = db.ptt[t].active
        /\ next.ptt[t].remain > 0
        => next.prepaid[p].active = next.ptt[t].active

LEMMA VouchersStep ==
    ASSUME NEW db \in Database, NEW next, Vouchers(db),
           \A t \in Live(next.ptt) : IsVoucherStep(db, next, t),
           \A t \in Live(next.ptt) : StaysInStep(db, next, t)
    PROVE  Vouchers(next)
<1>1. ASSUME NEW t \in Live(next.ptt) PROVE VoucherOf(next, t)
  <2> DEFINE p == db.ptt[t].prepaid
  <2>1. /\ t \in Live(db.ptt) /\ next.ptt[t].prepaid = p
        /\ next.ptt[t].root = db.ptt[t].root /\ next.prepaid[p].type = db.prepaid[p].type
    BY DEF IsVoucherStep
  <2>2. VoucherOf(db, t)
    BY <2>1, VouchersEach
  <2> SUFFICES ASSUME db.prepaid[p].type \in VoucherTypes
               PROVE  /\ next.ptt[t].root
                      /\ PttsOf(next, p) = {t}
                      /\ next.ptt[t].remain > 0 => next.prepaid[p].active = next.ptt[t].active
    BY <2>1 DEF VoucherOf
  <2>3. /\ db.ptt[t].root /\ PttsOf(db, p) = {t}
        /\ db.ptt[t].remain > 0 => db.prepaid[p].active = db.ptt[t].active
    BY <2>2 DEF VoucherOf
  <2>4. PttsOf(next, p) = {t}
    <3>1. \A u \in PttsOf(next, p) : u \in PttsOf(db, p)
      BY DEF PttsOf, IsVoucherStep
    <3>2. t \in PttsOf(next, p)
      BY <2>1 DEF PttsOf
    <3> QED BY <2>3, <3>1, <3>2
  <2>5. StaysInStep(db, next, t)
    OBVIOUS
  <2> QED BY <2>1, <2>3, <2>4, <2>5 DEF StaysInStep
<1> QED BY <1>1, VouchersEach

\* Edits: a prepaid's edit form sets both flags to the same.
LEMMA EditPrepaidVouchers ==
    ASSUME NEW db \in Database, RowsRefer(db), Vouchers(db), NEW p \in PrepaidIds,
           p \in Live(db.prepaid), NEW t \in PttIds, PttsOf(db, p) = {t}, NEW v \in Nat,
           NEW r \in Nat, NEW active \in BOOLEAN, NEW date \in Nat, NEW expiry \in Nat,
           NEW next, next = EditPrepaidDb(db, p, t, v, r, active, date, expiry)
    PROVE  Vouchers(next)
<1> DEFINE init == InitValue(db.prepaid[p].type, v)
<1>1. /\ next.ptt[t] = EditedPtt(db.ptt[t], init, r, active, date, expiry)
      /\ next.prepaid[p] = [type |-> db.prepaid[p].type, active |-> active,
                            init |-> init, remain |-> r]
      /\ \A u \in PttIds : u # t => next.ptt[u] = db.ptt[u]
      /\ \A q \in PrepaidIds : q # p => next.prepaid[q] = db.prepaid[q]
      /\ DOMAIN next.ptt = PttIds /\ DOMAIN db.ptt = PttIds
  BY RowTypes DEF EditPrepaidDb
<1>2. /\ next.ptt[t].prepaid = db.ptt[t].prepaid /\ next.ptt[t].root = db.ptt[t].root
      /\ next.ptt[t].active = active /\ next.prepaid[p].active = active
      /\ next.prepaid[p].type = db.prepaid[p].type
  BY <1>1 DEF EditedPtt
<1>3. t \in Live(db.ptt) /\ db.ptt[t].prepaid = p
  BY DEF PttsOf
<1>4. ASSUME NEW u \in Live(next.ptt) PROVE IsVoucherStep(db, next, u)
  <2>1. u \in PttIds /\ u \in Live(db.ptt)
    BY <1>1, <1>3, <1>4 DEF Live
  <2>2. db.ptt[u].prepaid \in PrepaidIds
    BY <2>1 DEF RowsRefer, Live, Database
  <2> QED BY <2>1, <2>2, <1>1, <1>2, <1>3 DEF IsVoucherStep
<1>5. ASSUME NEW u \in Live(next.ptt), u # t
      PROVE  /\ next.ptt[u] = db.ptt[u]
             /\ next.prepaid[db.ptt[u].prepaid] = db.prepaid[db.ptt[u].prepaid]
  <2>1. u \in PttIds /\ u \in Live(db.ptt)
    BY <1>1, <1>3, <1>4 DEF Live
  <2>2. db.ptt[u].prepaid \in PrepaidIds /\ db.ptt[u].prepaid # p
    BY <2>1, <1>5, RowTypes DEF PttsOf, PttRow
  <2> QED BY <2>1, <2>2, <1>1, <1>5
<1>9. \A u \in Live(next.ptt) : StaysInStep(db, next, u)
  BY <1>2, <1>3, <1>5, <1>4 DEF StaysInStep, IsVoucherStep
<1> QED BY <1>4, <1>9, VouchersStep

\* The edit form of a top-up touches no voucher: it is no root transaction.
LEMMA EditTopUpVouchers ==
    ASSUME NEW db \in Database, RowsRefer(db), Vouchers(db), NEW t \in PttIds,
           t \in Live(db.ptt), ~db.ptt[t].root, NEW v \in Nat,
           NEW r \in Nat, NEW active \in BOOLEAN, NEW date \in Nat, NEW expiry \in Nat,
           NEW next, next = EditTopUpDb(db, t, v, r, active, date, expiry)
    PROVE  Vouchers(next)
<1> DEFINE p == db.ptt[t].prepaid
<1>1. p \in PrepaidIds /\ db.prepaid[p].type \notin VoucherTypes
  <2>1. VoucherOf(db, t)
    BY VouchersEach
  <2> QED BY <2>1, RowTypes DEF VoucherOf, PttRow
<1>2. /\ next.ptt[t] = EditedPtt(db.ptt[t], v, r, active, date, expiry)
      /\ \A u \in PttIds : u # t => next.ptt[u] = db.ptt[u]
      /\ \A q \in PrepaidIds : q # p => next.prepaid[q] = db.prepaid[q]
      /\ DOMAIN next.ptt = PttIds /\ DOMAIN db.ptt = PttIds
  BY <1>1, RowTypes DEF EditTopUpDb
<1>3. next.prepaid[p].type = db.prepaid[p].type
  BY <1>1, RowTypes DEF EditTopUpDb, Booked
<1>4. next.ptt[t].prepaid = p /\ next.ptt[t].root = db.ptt[t].root
  BY <1>2 DEF EditedPtt
<1>5. ASSUME NEW u \in Live(next.ptt)
      PROVE  u \in PttIds /\ u \in Live(db.ptt) /\ db.ptt[u].prepaid \in PrepaidIds
  <2>1. u \in PttIds /\ u \in Live(db.ptt)
    BY <1>2, <1>5 DEF Live
  <2> QED BY <2>1 DEF RowsRefer, Live, Database
<1>6. ASSUME NEW u \in Live(next.ptt) PROVE IsVoucherStep(db, next, u)
  BY <1>2, <1>3, <1>4, <1>5 DEF IsVoucherStep
<1>7. ASSUME NEW u \in Live(next.ptt), db.prepaid[db.ptt[u].prepaid].type \in VoucherTypes
      PROVE  /\ next.ptt[u] = db.ptt[u]
             /\ next.prepaid[db.ptt[u].prepaid] = db.prepaid[db.ptt[u].prepaid]
  BY <1>1, <1>2, <1>5, <1>7
<1>9. \A u \in Live(next.ptt) : StaysInStep(db, next, u)
  BY <1>7, <1>6 DEF StaysInStep, IsVoucherStep
<1> QED BY <1>6, <1>9, VouchersStep

\* Deletions leave no transaction of a voucher half deleted.
LEMMA DeleteTopUpVouchers ==
    ASSUME NEW db \in Database, RowsRefer(db), Vouchers(db), NEW t \in PttIds,
           t \in Live(db.ptt), NEW next, next = DeleteTopUpDb(db, t)
    PROVE  Vouchers(next)
<1> DEFINE p == db.ptt[t].prepaid
<1>1. p \in PrepaidIds
  BY RowTypes DEF PttRow
<1>2. /\ next.ptt[t] = NoRow
      /\ \A u \in PttIds : u # t => next.ptt[u] = db.ptt[u]
      /\ \A q \in PrepaidIds : q # p => next.prepaid[q] = db.prepaid[q]
      /\ DOMAIN next.ptt = PttIds /\ DOMAIN db.ptt = PttIds
  BY <1>1, RowTypes DEF DeleteTopUpDb
<1>3. next.prepaid[p].type = db.prepaid[p].type
  BY <1>1, RowTypes DEF DeleteTopUpDb, Booked
<1>4. ASSUME NEW u \in Live(next.ptt)
      PROVE  /\ u # t /\ u \in PttIds /\ u \in Live(db.ptt)
             /\ db.ptt[u].prepaid \in PrepaidIds /\ next.ptt[u] = db.ptt[u]
  <2>1. u # t /\ u \in PttIds /\ u \in Live(db.ptt) /\ next.ptt[u] = db.ptt[u]
    BY <1>2, <1>4 DEF Live
  <2> QED BY <2>1 DEF RowsRefer, Live, Database
<1>5. ASSUME NEW u \in Live(next.ptt) PROVE IsVoucherStep(db, next, u)
  BY <1>2, <1>3, <1>4 DEF IsVoucherStep
<1>6. ASSUME NEW u \in Live(next.ptt), PttsOf(db, db.ptt[u].prepaid) = {u}
      PROVE  next.prepaid[db.ptt[u].prepaid] = db.prepaid[db.ptt[u].prepaid]
  <2>1. db.ptt[u].prepaid # p
    BY <1>4, <1>6 DEF PttsOf
  <2> QED BY <2>1, <1>2, <1>4
<1>9. \A u \in Live(next.ptt) : StaysInStep(db, next, u)
  BY <1>4, <1>6, <1>5 DEF StaysInStep, IsVoucherStep
<1> QED BY <1>5, <1>9, VouchersStep

LEMMA DeletePrepaidVouchers ==
    ASSUME NEW db \in Database, RowsRefer(db), Vouchers(db), NEW p \in PrepaidIds,
           NEW next, next = DeletePrepaidDb(db, p)
    PROVE  Vouchers(next)
<1>1. ASSUME NEW u \in Live(next.ptt)
      PROVE  /\ u \in PttIds /\ u \in Live(db.ptt) /\ next.ptt[u] = db.ptt[u]
             /\ next.prepaid[db.ptt[u].prepaid] = db.prepaid[db.ptt[u].prepaid]
  <2>1. /\ u \in PttIds /\ u \in Live(db.ptt) /\ next.ptt[u] = db.ptt[u]
        /\ db.ptt[u].prepaid # p
    BY <1>1, RowTypes DEF DeletePrepaidDb, Live, PttsOf
  <2>2. db.ptt[u].prepaid \in PrepaidIds
    BY <2>1, RowTypes DEF PttRow
  <2> QED BY <2>1, <2>2, RowTypes DEF DeletePrepaidDb
<1>2. ASSUME NEW u \in Live(next.ptt) PROVE IsVoucherStep(db, next, u)
  BY <1>1 DEF IsVoucherStep
<1>9. \A u \in Live(next.ptt) : StaysInStep(db, next, u)
  BY <1>1, <1>2 DEF StaysInStep, IsVoucherStep
<1> QED BY <1>2, <1>9, VouchersStep

\* The expiry job closes a voucher with its transaction; marking only the
\* transaction leaves it out of step but still the only one.
LEMMA ExpireVouchers ==
    ASSUME NEW db \in Database, RowsRefer(db), Vouchers(db), NEW t \in PttIds,
           t \in Live(db.ptt), NEW next, next = ExpireDb(db, t)
    PROVE  Vouchers(next)
<1> DEFINE p == db.ptt[t].prepaid
<1>1. p \in PrepaidIds /\ p \in Live(db.prepaid)
  BY RowTypes DEF RowsRefer
<1>2. /\ next.ptt = [db.ptt EXCEPT ![t].active = FALSE]
      /\ next.prepaid = [db.prepaid EXCEPT
                           ![p].active = @ /\ db.prepaid[p].type \notin VoucherTypes]
  BY DEF ExpireDb
<1>3. /\ next.ptt[t].active = FALSE /\ next.ptt[t].prepaid = p
      /\ next.ptt[t].root = db.ptt[t].root /\ next.ptt[t] # NoRow
      /\ \A u \in PttIds : u # t => next.ptt[u] = db.ptt[u]
      /\ DOMAIN next.ptt = PttIds /\ DOMAIN db.ptt = PttIds
  <2>1. db.ptt[t] \in PttRow
    BY RowTypes
  <2>2. next.ptt[t] = [db.ptt[t] EXCEPT !.active = FALSE]
    BY <1>2, RowTypes
  <2>3. next.ptt[t] \in PttRow
    BY <2>1, <2>2 DEF PttRow
  <2>4. next.ptt[t].active = FALSE /\ next.ptt[t].prepaid = p /\ next.ptt[t].root = db.ptt[t].root
    BY <2>1, <2>2 DEF PttRow
  <2>5. next.ptt[t] # NoRow
    BY <2>3, TablesAssumption
  <2>6. /\ \A u \in PttIds : u # t => next.ptt[u] = db.ptt[u]
        /\ DOMAIN next.ptt = PttIds /\ DOMAIN db.ptt = PttIds
    BY <1>2, RowTypes
  <2> QED BY <2>4, <2>5, <2>6
<1>4. /\ next.prepaid[p].type = db.prepaid[p].type
      /\ db.prepaid[p].type \in VoucherTypes => next.prepaid[p].active = FALSE
      /\ \A q \in PrepaidIds : q # p => next.prepaid[q] = db.prepaid[q]
  <2>1. db.prepaid[p] \in PrepaidRow
    BY <1>1, RowTypes
  <2>2. next.prepaid[p] = [db.prepaid[p] EXCEPT
                             !.active = @ /\ db.prepaid[p].type \notin VoucherTypes]
    BY <1>1, <1>2, RowTypes
  <2>3. \A q \in PrepaidIds : q # p => next.prepaid[q] = db.prepaid[q]
    BY <1>1, <1>2, RowTypes
  <2>4. next.prepaid[p].type = db.prepaid[p].type
    BY <2>1, <2>2 DEF PrepaidRow
  <2>5. db.prepaid[p].type \in VoucherTypes => next.prepaid[p].active = FALSE
    BY <2>1, <2>2 DEF PrepaidRow
  <2> QED BY <2>3, <2>4, <2>5
<1>5. ASSUME NEW u \in Live(next.ptt)
      PROVE  u \in PttIds /\ u \in Live(db.ptt) /\ db.ptt[u].prepaid \in PrepaidIds
  <2>1. u \in PttIds /\ u \in Live(db.ptt)
    BY <1>3, <1>5 DEF Live
  <2> QED BY <2>1 DEF RowsRefer, Live, Database
<1>6. ASSUME NEW u \in Live(next.ptt) PROVE IsVoucherStep(db, next, u)
  BY <1>3, <1>4, <1>5 DEF IsVoucherStep
<1>7. ASSUME NEW u \in Live(next.ptt), u # t, PttsOf(db, db.ptt[u].prepaid) = {u}
      PROVE  /\ next.ptt[u] = db.ptt[u]
             /\ next.prepaid[db.ptt[u].prepaid] = db.prepaid[db.ptt[u].prepaid]
  <2>1. db.ptt[u].prepaid # p
    BY <1>7 DEF PttsOf
  <2> QED BY <2>1, <1>3, <1>4, <1>5, <1>7
<1>9. \A u \in Live(next.ptt) : StaysInStep(db, next, u)
  BY <1>3, <1>4, <1>7, <1>6 DEF StaysInStep, IsVoucherStep
<1> QED BY <1>6, <1>9, VouchersStep

\* Deleting an order opens what it puts back on, both of a voucher's rows.
LEMMA RemoveSaleVouchers ==
    ASSUME NEW db \in Database, RowsRefer(db), Vouchers(db), NEW s \in SaleIds,
           s \in Live(db.sale), NEW next \in Database, next = RemoveSaleDb(db, s)
    PROVE  Vouchers(next)
<1>0. PICK back : back = PutBack(db, s)
  OBVIOUS
<1> DEFINE p == db.sale[s].prepaid
<1>1. /\ back \in [PttIds -> Nat]
      /\ \A t \in PttIds : back[t] > 0 => t \in PttsOf(db, p)
  BY <1>0, PutBackType DEF RowsRefer
<1>2. /\ next.sale = [db.sale EXCEPT ![s] = NoRow]
      /\ \A q \in PrepaidIds : next.prepaid[q].type = db.prepaid[q].type
      /\ \A q \in PrepaidIds : q # p => next.prepaid[q] = db.prepaid[q]
      /\ \A t \in Live(db.ptt) : /\ next.ptt[t].prepaid = db.ptt[t].prepaid
                                  /\ next.ptt[t].remain = db.ptt[t].remain + back[t]
      /\ Live(next.ptt) = Live(db.ptt)
  BY <1>0, RemoveSaleEffect, SMTT(30)
<1>3. ASSUME NEW t \in Live(db.ptt)
      PROVE  /\ t \in PttIds /\ db.ptt[t].prepaid \in PrepaidIds
             /\ next.ptt[t].root = db.ptt[t].root
             /\ back[t] > 0 => next.ptt[t].active = TRUE
             /\ back[t] = 0 => next.ptt[t] = db.ptt[t]
  <2>1. t \in PttIds /\ db.ptt[t] \in PttRow
    BY RowTypes
  <2>2. next.ptt[t] = IF back[t] = 0 THEN db.ptt[t]
                      ELSE [db.ptt[t] EXCEPT !.remain = @ + back[t], !.active = TRUE]
    BY <2>1, <1>0 DEF RemoveSaleDb
  <2> QED BY <2>1, <2>2, <1>1 DEF PttRow
<1>4. ASSUME NEW t \in PttIds, back[t] > 0
      PROVE  next.prepaid[p].active = TRUE
  <2>1. p \in PrepaidIds /\ db.prepaid[p] \in PrepaidRow
    BY <1>1, <1>4, RowTypes DEF PttsOf, RowsRefer
  <2>2. next.prepaid = [db.prepaid EXCEPT ![p].remain = @ + Total(back, NPtts),
                                          ![p].active = TRUE]
    BY <1>0, <1>4 DEF RemoveSaleDb
  <2>3. next.prepaid[p] = [db.prepaid[p] EXCEPT !.remain = @ + Total(back, NPtts),
                                                !.active = TRUE]
    BY <2>1, <2>2, RowTypes
  <2> QED BY <2>1, <2>3 DEF PrepaidRow
<1>5. (\A t \in PttIds : back[t] = 0) => next.prepaid = db.prepaid
  <2>1. (~ \E t \in PttIds : back[t] > 0) => next.prepaid = db.prepaid
    BY <1>0 DEF RemoveSaleDb
  <2> QED BY <2>1
<1>6. ASSUME NEW t \in Live(next.ptt) PROVE IsVoucherStep(db, next, t)
  BY <1>2, <1>3 DEF IsVoucherStep
<1>7. ASSUME NEW t \in Live(next.ptt), PttsOf(db, db.ptt[t].prepaid) = {t}, back[t] = 0
      PROVE  /\ next.ptt[t] = db.ptt[t]
             /\ next.prepaid[db.ptt[t].prepaid] = db.prepaid[db.ptt[t].prepaid]
  <2>1. CASE db.ptt[t].prepaid # p
    BY <2>1, <1>2, <1>3, <1>7
  <2>2. CASE db.ptt[t].prepaid = p
    <3>1. \A u \in PttIds : back[u] = 0
      BY <2>2, <1>1, <1>7
    <3> QED BY <3>1, <1>2, <1>3, <1>5, <1>7
  <2> QED BY <2>1, <2>2
<1>8. ASSUME NEW t \in Live(next.ptt), back[t] # 0
      PROVE  next.prepaid[db.ptt[t].prepaid].active = next.ptt[t].active
  <2>1. t \in PttIds /\ back[t] > 0 /\ db.ptt[t].prepaid = p
    <3>1. t \in Live(db.ptt) /\ t \in PttIds
      BY <1>2, <1>3, <1>8
    <3>2. back[t] \in Nat
      BY <3>1, <1>1
    <3>3. back[t] > 0
      BY <3>2, <1>8
    <3> QED BY <3>1, <3>3, <1>1 DEF PttsOf
  <2>2. next.ptt[t].active = TRUE
    BY <2>1, <1>2, <1>3
  <2> QED BY <2>1, <2>2, <1>4
<1>9. \A u \in Live(next.ptt) : StaysInStep(db, next, u)
  BY <1>7, <1>8, <1>6 DEF StaysInStep, IsVoucherStep
<1> QED BY <1>6, <1>9, VouchersStep

\* A checkout closes a transaction it empties, and a voucher whose balance it
\* brings to zero: with balances that are sums these are one event.
LEMMA CheckOutVouchers ==
    ASSUME NEW db \in Database, RowsRefer(db), Vouchers(db), SumsAgree(db),
           NEW p \in PrepaidIds, p \in Live(db.prepaid),
           NEW s \in SaleIds, s \notin Live(db.sale), NEW today \in Nat, NEW qty \in Nat,
           NEW next \in Database, next = CheckOutDb(db, p, s, today, qty)
    PROVE  Vouchers(next)
<1>0. PICK d : d = Draws(db, p, today, qty)
  OBVIOUS
<1>1. /\ d \in [PttIds -> Nat] /\ Total(d, NPtts) \in Nat
      /\ \A t \in PttIds : d[t] > 0 => t \in PttsOf(db, p)
      /\ next.sale = [db.sale EXCEPT ![s] =
            [prepaid |-> p, created |-> today, qty |-> qty, drawn |-> d, due |-> qty - Total(d, NPtts)]]
      /\ \A q \in PrepaidIds : q # p => next.prepaid[q] = db.prepaid[q]
      /\ \A q \in Live(db.prepaid) : next.prepaid[q].type = db.prepaid[q].type
      /\ \A t \in Live(db.ptt) :
            /\ next.ptt[t].prepaid = db.ptt[t].prepaid
            /\ next.ptt[t].remain = db.ptt[t].remain - d[t]
      /\ Live(next.ptt) = Live(db.ptt)
  BY <1>0, CheckOutEffect, SMTT(30)
<1>2. ASSUME NEW t \in Live(db.ptt)
      PROVE  /\ t \in PttIds /\ db.ptt[t].prepaid \in PrepaidIds
             /\ db.ptt[t].prepaid \in Live(db.prepaid)
             /\ next.ptt[t].root = db.ptt[t].root
             /\ next.ptt[t].remain > 0 => next.ptt[t].active = db.ptt[t].active
  <2>1. t \in PttIds /\ db.ptt[t] \in PttRow /\ db.ptt[t].prepaid \in Live(db.prepaid)
    BY RowTypes DEF RowsRefer
  <2>2. next.ptt[t] = IF d[t] = 0 THEN db.ptt[t]
                      ELSE [db.ptt[t] EXCEPT !.remain = @ - d[t],
                                             !.active = @ /\ db.ptt[t].remain > d[t]]
    BY <2>1, <1>0 DEF CheckOutDb
  <2>3. next.ptt[t].root = db.ptt[t].root
    BY <2>1, <2>2 DEF PttRow
  <2>4. next.ptt[t].remain > 0 => db.ptt[t].remain > d[t]
    <3>1. d[t] \in Nat /\ db.ptt[t].remain \in Int
      BY <2>1, <1>1 DEF PttRow
    <3> QED BY <3>1, <1>1
  <2>5. next.ptt[t].remain > 0 => next.ptt[t].active = db.ptt[t].active
    BY <2>1, <2>2, <2>4 DEF PttRow
  <2> QED BY <2>1, <2>3, <2>5 DEF PttRow
<1>3. ASSUME NEW t \in Live(db.ptt), db.ptt[t].prepaid = p, PttsOf(db, p) = {t},
             next.ptt[t].remain > 0
      PROVE  next.prepaid[p].active = db.prepaid[p].active
  <2>1. t \in PttIds /\ db.ptt[t].remain \in Int /\ d[t] \in Nat
    BY <1>1, RowTypes DEF PttRow
  <2>2. Total(d, NPtts) = d[t]
    <3>1. \A u \in 1..NPtts : u # t => d[u] = 0
      BY <1>1, <1>3 DEF PttIds
    <3>2. NPtts \in Nat /\ d \in [1..NPtts -> Int] /\ t \in 1..NPtts
      BY <1>1, <2>1, TablesAssumption DEF PttIds
    <3> QED BY <3>1, <3>2, TotalOne
  <2>3. db.prepaid[p].remain = db.ptt[t].remain
    BY <2>1, <1>3, SingleIsBalanced DEF SumsAgree
  <2>4. db.prepaid[p].remain - Total(d, NPtts) > 0
    BY <2>1, <2>2, <2>3, <1>1, <1>3
  <2>5. db.prepaid[p] \in PrepaidRow
    BY RowTypes
  <2> DEFINE left == db.prepaid[p].remain - Total(d, NPtts)
  <2>6. next.prepaid[p] = [db.prepaid[p] EXCEPT
              !.remain = left,
              !.active = @ /\ ~(left <= 0 /\ db.prepaid[p].type \in VoucherTypes)]
    BY <1>0, RowTypes DEF CheckOutDb
  <2>7. ~(left <= 0)
    BY <2>1, <2>2, <2>3, <2>4
  <2> HIDE DEF left
  <2> QED BY <2>5, <2>6, <2>7 DEF PrepaidRow
<1>4. ASSUME NEW t \in Live(next.ptt) PROVE IsVoucherStep(db, next, t)
  BY <1>1, <1>2 DEF IsVoucherStep
<1>5. ASSUME NEW t \in Live(next.ptt), PttsOf(db, db.ptt[t].prepaid) = {t},
             next.ptt[t].remain > 0
      PROVE  /\ db.ptt[t].remain > 0
             /\ next.ptt[t].active = db.ptt[t].active
             /\ next.prepaid[db.ptt[t].prepaid].active = db.prepaid[db.ptt[t].prepaid].active
  <2>1. db.ptt[t].remain > 0
    <3>1. t \in Live(db.ptt) /\ t \in PttIds /\ db.ptt[t].remain \in Int /\ d[t] \in Nat
      BY <1>1, RowTypes DEF PttRow
    <3> QED BY <3>1, <1>1, <1>5
  <2>2. next.prepaid[db.ptt[t].prepaid].active = db.prepaid[db.ptt[t].prepaid].active
    <3>1. CASE db.ptt[t].prepaid = p
      BY <3>1, <1>1, <1>3, <1>5
    <3>2. CASE db.ptt[t].prepaid # p
      BY <3>2, <1>1, <1>2
    <3> QED BY <3>1, <3>2
  <2> QED BY <2>1, <2>2, <1>1, <1>2, <1>5
<1>9. \A u \in Live(next.ptt) : StaysInStep(db, next, u)
  BY <1>5, <1>4 DEF StaysInStep, IsVoucherStep
<1> QED BY <1>4, <1>9, VouchersStep

-----------------------------------------------------------------------------
\* All that holds of the rows when methods run one at a time.
Right(db, granted) ==
    /\ RowsRefer(db) /\ SumsAgree(db) /\ Holds(db)
    /\ GrantsKept(db, granted) /\ CashAdds(db, granted)
    /\ Vouchers(db)

LEMMA StaysRight ==
    ASSUME NEW db, NEW next, NEW granted, NEW granted2, Right(db, granted),
           Kept(db, next), RowsRefer(next), MoneyKept(db, granted, next, granted2),
           Vouchers(next)
    PROVE  next \in Database /\ Right(next, granted2)
BY DEF Right, Kept, MoneyKept

\* Nothing is wrong with no rows.
LEMMA EmptyIsRight ==
    ASSUME NEW granted
    PROVE  EmptyDatabase \in Database /\ Right(EmptyDatabase, granted)
<1>1. EmptyDatabase \in Database
  BY DEF EmptyDatabase, Database
<1>2. /\ Live(EmptyDatabase.prepaid) = {} /\ Live(EmptyDatabase.ptt) = {}
      /\ Live(EmptyDatabase.sale) = {}
  BY DEF EmptyDatabase, Live
<1>3. RowsRefer(EmptyDatabase) /\ SumsAgree(EmptyDatabase) /\ Holds(EmptyDatabase)
  BY <1>2 DEF RowsRefer, SumsAgree, Holds, PaymentsWithinItems
<1>4. GrantsKept(EmptyDatabase, granted) /\ CashAdds(EmptyDatabase, granted)
  BY <1>2 DEF GrantsKept, CashAdds
<1>5. Vouchers(EmptyDatabase)
  BY <1>2, VouchersEach
<1> QED BY <1>1, <1>3, <1>4, <1>5 DEF Right
=============================================================================
