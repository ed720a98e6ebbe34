----------------------- MODULE PrepaidRedemptionProofs -----------------------
(***************************************************************************)
(* What TLAPS proves of PrepaidRedemption, for any tables, any number of   *)
(* transactions and any amount: the loop that pays an item leaves what the *)
(* one operator CheckOutDb says, what it took and what is open add up to   *)
(* the amount in every round, and the item carries the payments and the    *)
(* value of what was taken.  The loop walks a sorted sequence and          *)
(* CheckOutDb speaks of sums over the transactions ahead of one, so the    *)
(* invariant IInv says that what was drained is what is ahead of the head  *)
(* of the queue.                                                           *)
(***************************************************************************)
EXTENDS PrepaidRedemption, PrepaidTablesTheorems, FiniteSetTheorems, SequenceTheorems

\* The sequence q puts members of U in a row, each before those it is ahead of.
IsRow(q, U, L) ==
    /\ q \in [1..Cardinality(U) -> U]
    /\ \A i, j \in 1..Cardinality(U) : i < j => <<q[i], q[j]>> \in L

\* The members of a queue can be put in a row: each at the place one after the
\* number of those ahead of it.
LEMMA CanBeSorted ==
    ASSUME NEW n \in Nat, NEW U, NEW L, IsQueue(n, U, L)
    PROVE  /\ IsFiniteSet(U) /\ Cardinality(U) \in Nat
           /\ \E q : IsRow(q, U, L)
<1>1. IsFiniteSet(1..n)
  BY FS_Interval
<1>2. IsFiniteSet(U) /\ Cardinality(U) \in Nat
  BY <1>1, FS_Subset, FS_CardinalityType DEF IsQueue
<1> DEFINE k == Cardinality(U)
           Ahead(t) == {u \in U : <<u, t>> \in L}
           rank == [t \in U |-> Cardinality(Ahead(t)) + 1]
<1>3. ASSUME NEW t \in U
      PROVE  /\ Ahead(t) \in SUBSET U /\ IsFiniteSet(Ahead(t))
             /\ Cardinality(Ahead(t)) \in Nat /\ Cardinality(Ahead(t)) < k
  <2>1. t \notin Ahead(t)
    BY DEF IsQueue
  <2>2. Ahead(t) \in SUBSET U /\ IsFiniteSet(Ahead(t)) /\ Cardinality(Ahead(t)) <= k
        /\ (k = Cardinality(Ahead(t)) => U = Ahead(t))
    BY <1>2, FS_Subset
  <2>3. Cardinality(Ahead(t)) \in Nat
    BY <2>2, FS_CardinalityType
  <2> QED BY <1>2, <2>1, <2>2, <2>3
<1>4. ASSUME NEW t \in U, NEW u \in U, <<u, t>> \in L
      PROVE  rank[u] < rank[t]
  <2>1. Ahead(u) \in SUBSET Ahead(t)
    BY <1>4 DEF IsQueue
  <2>2. u \in Ahead(t) /\ u \notin Ahead(u)
    BY <1>4 DEF IsQueue
  <2>3. /\ IsFiniteSet(Ahead(t)) /\ Cardinality(Ahead(t)) \in Nat
        /\ Cardinality(Ahead(u)) \in Nat
    BY <1>3
  <2>4. /\ Cardinality(Ahead(u)) <= Cardinality(Ahead(t))
        /\ (Cardinality(Ahead(t)) = Cardinality(Ahead(u)) => Ahead(t) = Ahead(u))
    BY <2>1, <2>3, FS_Subset
  <2>5. Cardinality(Ahead(u)) < Cardinality(Ahead(t))
    BY <2>2, <2>3, <2>4
  <2> QED BY <2>3, <2>5
<1>5. rank \in [U -> 1..k]
  <2> SUFFICES ASSUME NEW t \in U PROVE Cardinality(Ahead(t)) + 1 \in 1..k
    OBVIOUS
  <2>1. Cardinality(Ahead(t)) \in Nat /\ Cardinality(Ahead(t)) < k
    BY <1>3
  <2> HIDE DEF Ahead
  <2> QED BY <1>2, <2>1
<1>6. \A t \in U : rank[t] \in Nat
  BY <1>5, <1>2
<1> HIDE DEF rank, k
<1>7. rank \in Injection(U, 1..k)
  <2>1. ASSUME NEW t \in U, NEW u \in U, rank[t] = rank[u] PROVE t = u
    <3>1. t = u \/ <<t, u>> \in L \/ <<u, t>> \in L
      BY DEF IsQueue
    <3> QED BY <2>1, <3>1, <1>4, <1>6
  <2>2. \A t, u \in U : rank[t] = rank[u] => t = u
    BY <2>1
  <2> QED BY <2>2, <1>5 DEF Injection, IsInjective
<1>8. rank \in Surjection(U, 1..k)
  <2>1. IsFiniteSet(1..k) /\ Cardinality(1..k) = k
    BY <1>2, FS_Interval DEF k
  <2> QED BY <1>7, <2>1, FS_Injection DEF k
<1> DEFINE q == [i \in 1..k |-> CHOOSE t \in U : rank[t] = i]
<1>9. ASSUME NEW i \in 1..k PROVE q[i] \in U /\ rank[q[i]] = i
  BY <1>8 DEF Surjection
<1>10. q \in [1..k -> U]
  BY <1>9
<1> HIDE DEF q
<1>11. ASSUME NEW i \in 1..k, NEW j \in 1..k, i < j PROVE <<q[i], q[j]>> \in L
  <2>1. q[i] \in U /\ q[j] \in U /\ rank[q[i]] = i /\ rank[q[j]] = j
    BY <1>9
  <2>2. <<q[j], q[i]>> \notin L
    <3>1. SUFFICES ASSUME <<q[j], q[i]>> \in L PROVE FALSE
      OBVIOUS
    <3>2. rank[q[j]] < rank[q[i]]
      BY <2>1, <3>1, <1>4
    <3> QED BY <2>1, <3>2, <1>11
  <2>3. q[i] # q[j]
    BY <2>1, <1>11
  <2> QED BY <2>1, <2>2, <2>3 DEF IsQueue
<1>12. IsRow(q, U, L)
  BY <1>10, <1>11 DEF k, IsRow
<1> QED BY <1>2, <1>12 DEF k

\* Such a row holds them all.
LEMMA SortedIsWhole ==
    ASSUME NEW n \in Nat, NEW U, NEW L, IsQueue(n, U, L),
           NEW q, IsRow(q, U, L), NEW t \in U
    PROVE  \E i \in 1..Cardinality(U) : q[i] = t
<1> DEFINE k == Cardinality(U)
<1>1. IsFiniteSet(U) /\ k \in Nat
  BY CanBeSorted
<1>2. IsFiniteSet(1..k) /\ Cardinality(1..k) = k
  BY <1>1, FS_Interval
<1>3. q \in Injection(1..k, U)
  <2>1. ASSUME NEW i \in 1..k, NEW j \in 1..k, i < j PROVE q[i] # q[j]
    <3>1. q[i] \in U /\ <<q[i], q[j]>> \in L
      BY <2>1 DEF IsRow
    <3> QED BY <3>1 DEF IsQueue
  <2>2. \A i, j \in 1..k : i = j \/ i < j \/ j < i
    BY <1>1
  <2>3. \A i, j \in 1..k : q[i] = q[j] => i = j
    BY <2>1, <2>2
  <2>4. q \in [1..k -> U]
    BY DEF IsRow
  <2> QED BY <2>3, <2>4 DEF Injection, IsInjective
<1>4. q \in Surjection(1..k, U)
  BY <1>1, <1>2, <1>3, FS_Injection
<1> QED BY <1>4 DEF Surjection

-----------------------------------------------------------------------------
\* The transactions to redeem: usable ones, in order, and all of them.
LEMMA ActivePttsSorted ==
    ASSUME NEW d \in Database, NEW x, NEW day, NEW q, q = ActivePtts(d, x, day)
    PROVE  /\ q \in Seq(Usable(d, x, day))
           /\ \A i, j \in 1..Len(q) : i < j => <<q[i], q[j]>> \in AheadIn(d)
           /\ \A t \in Usable(d, x, day) : \E i \in 1..Len(q) : q[i] = t
<1> DEFINE U == Usable(d, x, day)
           k == Cardinality(U)
<1>1. NPtts \in Nat /\ IsQueue(NPtts, U, AheadIn(d)) /\ U \subseteq PttIds
  BY UsableIsQueue DEF Usable
<1>2. {t \in PttsOf(d, x) : IsUsable(d, x, day, t)} = U
  <2>1. PttsOf(d, x) \subseteq PttIds
    BY DEF PttsOf, Live, Database
  <2> QED BY <2>1 DEF Usable, IsUsable
<1>3. q = CHOOSE f \in [1..k -> U] :
            \A i, j \in DOMAIN f : i < j => IsAhead(d, f[i], f[j])
  BY <1>2 DEF ActivePtts
<1>4. \A t, u \in U : <<t, u>> \in AheadIn(d) <=> IsAhead(d, t, u)
  BY <1>1 DEF AheadIn
<1> HIDE DEF U
<1>5. k \in Nat /\ \E f : IsRow(f, U, AheadIn(d))
  BY <1>1, CanBeSorted
<1>6. \E f \in [1..k -> U] : \A i, j \in DOMAIN f : i < j => IsAhead(d, f[i], f[j])
  <2>1. PICK f : IsRow(f, U, AheadIn(d))
    BY <1>5
  <2>2. f \in [1..k -> U] /\ \A i, j \in 1..k : i < j => IsAhead(d, f[i], f[j])
    BY <1>4, <2>1 DEF IsRow
  <2> QED BY <2>2
<1>7. /\ q \in [1..k -> U]
      /\ \A i, j \in 1..k : i < j => IsAhead(d, q[i], q[j])
  BY <1>3, <1>6
<1>8. \A i, j \in 1..k : i < j => <<q[i], q[j]>> \in AheadIn(d)
  BY <1>4, <1>7
<1>9. ASSUME NEW t \in U PROVE \E i \in 1..k : q[i] = t
  <2>1. IsRow(q, U, AheadIn(d))
    BY <1>7, <1>8 DEF IsRow
  <2> QED BY <1>1, <2>1, SortedIsWhole
<1>10. q \in Seq(U) /\ Len(q) = k
  BY <1>5, <1>7
<1> QED BY <1>8, <1>9, <1>10 DEF U

-----------------------------------------------------------------------------
\* What was taken from each transaction between two states of the tables, and
\* the transactions after so much was taken from each.
TakenIn(d, e) == [t \in PttIds |-> IF t \in Live(e.ptt)
                                   THEN d.ptt[t].remain - e.ptt[t].remain ELSE 0]

RowLess(row, x) ==
    IF x = 0 THEN row ELSE [row EXCEPT !.remain = @ - x, !.active = @ /\ row.remain > x]

PttsLess(d, k) == [t \in PttIds |-> RowLess(d.ptt[t], k[t])]

TablesLess(d, k) == [prepaid |-> d.prepaid, ptt |-> PttsLess(d, k), sale |-> d.sale]

OnSale == Usable(before, p, Today)
Order  == AheadIn(before)

InQueue(t) == \E i \in 1..Len(queue) : queue[i] = t

\* The types of what the loop keeps.
TypeOK ==
    /\ before \in Database /\ p \in Live(before.prepaid)
    /\ qty \in Nat /\ qty > 0 /\ open \in Nat /\ left \in Int
    /\ usedAmount \in Nat /\ payments \in [PttIds -> Nat]
    /\ finished \in BOOLEAN

\* Only the balances and flags of the transactions have changed so far.
TablesSoFar ==
    /\ Taken \in [PttIds -> Nat]
    /\ db.ptt = PttsLess(before, Taken)
    /\ IF finished THEN db.prepaid[p].type = before.prepaid[p].type
       ELSE db = TablesLess(before, Taken)

\* What is still in the queue was not touched, is in order, and comes after
\* what was drained.
QueueLeft ==
    /\ queue \in Seq(OnSale)
    /\ finished => queue = <<>>
    /\ queue # <<>> => open > 0
    /\ \A i, j \in 1..Len(queue) : i < j => <<queue[i], queue[j]>> \in Order
    /\ \A t \in PttIds : InQueue(t) \/ t \notin OnSale => Taken[t] = 0

Drained ==
    queue # <<>> =>
        \A t \in OnSale : InQueue(t) \/ /\ Taken[t] = before.ptt[t].remain
                                        /\ <<t, queue[1]>> \in Order

\* What is not in the queue gave what the prefix sums say.
TakenAsDrawn ==
    \A t \in PttIds : InQueue(t) \/ Taken[t] = Draws(before, p, Today, qty)[t]

\* A payment is recorded for each transaction something was taken from.
PaidAsTaken ==
    /\ \A t \in PttIds : payments[t] = 0 <=> Taken[t] = 0
    /\ before.prepaid[p].type \in CashTypes => payments = Taken
    /\ before.prepaid[p].type \notin CashTypes => usedAmount = Total(UnitsTakenValue, NPtts)

\* The inductive invariant: the tables, the queue and the payments go together.
IInv == /\ TypeOK /\ TablesSoFar /\ QueueLeft /\ Drained /\ TakenAsDrawn
        /\ TakenAddsUp /\ PaidAsTaken /\ RedeemsAsOne

-----------------------------------------------------------------------------
\* The ids of transactions are the numbers up to NPtts.
LEMMA IdsKnown == NPtts \in Nat /\ PttIds = 1..NPtts
BY TablesAssumption DEF PttIds

\* A usable transaction has a row with something left.
LEMMA UsableRow ==
    ASSUME NEW d \in Database, NEW x, NEW day, NEW t \in Usable(d, x, day)
    PROVE  /\ t \in PttIds /\ t \in Live(d.ptt) /\ d.ptt[t] \in PttRow
           /\ d.ptt[t].remain \in Nat /\ d.ptt[t].remain > 0
<1>1. t \in PttsOf(d, x) /\ d.ptt[t] \in PttRow /\ d.ptt[t].remain \in Nat /\ d.ptt[t].remain > 0
  BY UsableIsQueue
<1>2. t \in PttIds
  BY DEF Usable
<1> QED BY <1>1, <1>2 DEF PttsOf

\* A total to which one entry is added.
LEMMA TotalOneMore ==
    ASSUME NEW n \in Nat, NEW a \in [1..n -> Int], NEW i \in 1..n, a[i] = 0,
           NEW x \in Int, NEW b \in [1..n -> Int], b[i] = x,
           \A j \in 1..n : j # i => b[j] = a[j]
    PROVE  Total(a, n) \in Int /\ Total(b, n) = Total(a, n) + x
<1>1. b[i] = a[i] + x
  OBVIOUS
<1>2. Total(b, n) = Total(a, n) + x
  BY <1>1, TotalChangeOne, SMTT(40)
<1> QED BY <1>2, TotalType

\* The total taken when x is taken from one more transaction.
LEMMA TakingOneMore ==
    ASSUME NEW k \in [PttIds -> Nat], NEW t \in PttIds, k[t] = 0, NEW x \in Nat
    PROVE  Total([k EXCEPT ![t] = x], NPtts) = Total(k, NPtts) + x /\ Total(k, NPtts) \in Int
<1>1. NPtts \in Nat /\ PttIds = 1..NPtts
  BY IdsKnown
<1>2. PICK b : b = [k EXCEPT ![t] = x]
  OBVIOUS
<1>3. k \in [1..NPtts -> Int] /\ b \in [1..NPtts -> Int] /\ b[t] = x /\ t \in 1..NPtts
  BY <1>1, <1>2
<1>4. \A u \in 1..NPtts : u # t => b[u] = k[u]
  BY <1>1, <1>2
<1>5. Total(k, NPtts) \in Int /\ Total(b, NPtts) = Total(k, NPtts) + x
  BY <1>1, <1>3, <1>4, TotalOneMore
<1> QED BY <1>2, <1>5

\* A row from which something was taken is still a row.
LEMMA RowLessType ==
    ASSUME NEW row \in PttRow, NEW x \in Nat, x > 0
    PROVE  RowLess(row, x) \in PttRow /\ RowLess(row, x).remain = row.remain - x
<1>1. row.remain \in Int /\ row.remain - x \in Int /\ row.active \in BOOLEAN
  BY DEF PttRow
<1>2. RowLess(row, x) = [row EXCEPT !.remain = row.remain - x,
                                    !.active = row.active /\ row.remain > x]
  BY DEF RowLess, PttRow
<1>3. RowLess(row, x).remain = row.remain - x
  BY <1>2 DEF PttRow
<1> DEFINE a == (row.active /\ row.remain > x)
<1>4. a \in BOOLEAN
  BY <1>1
<1> HIDE DEF a
<1>5. [row EXCEPT !.remain = row.remain - x, !.active = a] \in PttRow
  BY <1>1, <1>4 DEF PttRow
<1> QED BY <1>2, <1>3, <1>5 DEF a

\* The tables after one more x was taken from t, as a round writes them.
CutPtt(e, t, x) == [e EXCEPT !.ptt[t].remain = e.ptt[t].remain - x,
                             !.ptt[t].active = @ /\ e.ptt[t].remain - x > 0]

\* Taking something from one more transaction.
LEMMA OneMore ==
    ASSUME NEW d \in Database, NEW e, NEW k \in [PttIds -> Nat],
           e = TablesLess(d, k), TakenIn(d, e) = k,
           NEW t \in Live(d.ptt), k[t] = 0, NEW x \in Nat, x > 0,
           NEW next, next = CutPtt(e, t, x),
           NEW k2 \in [PttIds -> Nat], k2[t] = x, \A u \in PttIds : u # t => k2[u] = k[u]
    PROVE  next = TablesLess(d, k2) /\ TakenIn(d, next) = k2
<1>1. /\ d.ptt \in [PttIds -> PttRow \union {NoRow}] /\ t \in PttIds
      /\ d.ptt[t] \in PttRow
  BY RowTypes DEF Database, Live
<1> USE DEF TablesLess
<1>3. e.ptt = PttsLess(d, k) /\ e.ptt[t] = d.ptt[t]
  BY <1>1 DEF PttsLess, RowLess
<1>4. d.ptt[t].remain \in Int /\ d.ptt[t].active \in BOOLEAN
  BY <1>1 DEF PttRow
<1>5. (d.ptt[t].remain - x > 0) <=> (d.ptt[t].remain > x)
  BY <1>4
<1> DEFINE row == RowLess(d.ptt[t], x)
           cut == [e.ptt EXCEPT ![t].remain = e.ptt[t].remain - x,
                                ![t].active = @ /\ e.ptt[t].remain - x > 0]
<1>6. row = [d.ptt[t] EXCEPT !.remain = d.ptt[t].remain - x,
                             !.active = @ /\ d.ptt[t].remain - x > 0]
  <2>1. row = [d.ptt[t] EXCEPT !.remain = @ - x, !.active = @ /\ d.ptt[t].remain > x]
    BY DEF RowLess
  <2> QED BY <1>1, <1>5, <2>1 DEF PttRow
<1>7. cut = [e.ptt EXCEPT ![t] = row]
  BY <1>1, <1>3, <1>6 DEF PttsLess
<1>8. next = [prepaid |-> d.prepaid, ptt |-> cut, sale |-> d.sale]
  BY DEF CutPtt
<1> HIDE DEF cut
<1>9. row \in PttRow /\ row.remain = d.ptt[t].remain - x
  BY <1>1, RowLessType
<1>10. [e.ptt EXCEPT ![t] = row] = PttsLess(d, k2)
  BY <1>1, <1>3 DEF PttsLess
<1> HIDE DEF row
<1>11. cut = PttsLess(d, k2)
  BY <1>7, <1>10
<1>12. next.ptt = cut
  <2>1. [prepaid |-> d.prepaid, ptt |-> cut, sale |-> d.sale].ptt = cut
    OBVIOUS
  <2> QED BY <1>8, <2>1
<1>13. next.ptt = PttsLess(d, k2) /\ next.ptt = [e.ptt EXCEPT ![t] = row]
  BY <1>7, <1>11, <1>12
<1>14. next = [prepaid |-> d.prepaid, ptt |-> PttsLess(d, k2), sale |-> d.sale]
  BY <1>8, <1>11
<1>15. ASSUME NEW u \in PttIds PROVE TakenIn(d, next)[u] = k2[u]
  <2>1. CASE u = t
    <3>1. next.ptt[t] = row /\ t \in Live(next.ptt)
      BY <1>1, <1>3, <1>9, <1>13, TablesAssumption DEF Live, PttsLess
    <3>2. TakenIn(d, next)[t] = d.ptt[t].remain - row.remain
      BY <3>1, <1>1 DEF TakenIn
    <3>3. d.ptt[t].remain - row.remain = x
      BY <1>4, <1>9
    <3>4. k2[t] = x
      BY <1>1
    <3> QED BY <2>1, <3>2, <3>3, <3>4
  <2>2. CASE u # t
    <3>1. next.ptt[u] = e.ptt[u] /\ (u \in Live(next.ptt) <=> u \in Live(e.ptt))
      BY <1>3, <1>13, <2>2 DEF Live, PttsLess
    <3>2. TakenIn(d, next)[u] = TakenIn(d, e)[u]
      BY <3>1 DEF TakenIn
    <3> QED BY <3>2, <2>2, <1>1
  <2> QED BY <2>1, <2>2
<1>16. TakenIn(d, next) = k2
  <2> DEFINE f == TakenIn(d, next)
  <2>1. f = [u \in PttIds |-> f[u]]
    BY DEF TakenIn
  <2>2. k2 = [u \in PttIds |-> k2[u]]
    OBVIOUS
  <2>3. \A u \in PttIds : f[u] = k2[u]
    BY <1>15
  <2> HIDE DEF f
  <2>4. f = k2
    BY <2>1, <2>2, <2>3
  <2> QED BY <2>4 DEF f
<1> QED BY <1>16, <1>14

-----------------------------------------------------------------------------
\* The loop starts with nothing taken and every usable transaction queued.
LEMMA InitEstablishes == Init => IInv
<1> SUFFICES ASSUME Init PROVE IInv
  OBVIOUS
<1>1. /\ before \in Database /\ db = before /\ p \in Live(before.prepaid)
      /\ qty \in Nat /\ qty > 0 /\ open = qty /\ usedAmount = 0 /\ ~finished
      /\ queue = ActivePtts(before, p, Today) /\ left = before.prepaid[p].remain
      /\ payments = [t \in PttIds |-> 0] /\ finished = FALSE
  BY RedemptionAssumption DEF Init
<1>2. p \in PrepaidIds /\ before.prepaid[p] \in PrepaidRow
  BY <1>1, RowTypes DEF Live, Database
<1>3. before.prepaid[p].remain \in Int
  BY <1>2 DEF PrepaidRow
<1>4. NPtts \in Nat /\ PttIds = 1..NPtts
  BY IdsKnown
<1>5. ASSUME NEW t \in PttIds PROVE Taken[t] = 0
  <2>1. CASE t \in Live(before.ptt)
    <3>1. before.ptt[t] \in PttRow
      BY <1>1, <2>1, RowTypes
    <3>2. before.ptt[t].remain \in Int
      BY <3>1 DEF PttRow
    <3> QED BY <1>1, <2>1, <3>2 DEF Taken
  <2>2. CASE t \notin Live(before.ptt)
    BY <1>1, <2>2 DEF Taken
  <2> QED BY <2>1, <2>2
<1>6. Taken \in [PttIds -> Nat] /\ Taken = [t \in PttIds |-> 0]
  <2>1. Taken = [t \in PttIds |-> Taken[t]]
    BY DEF Taken
  <2> QED BY <1>5, <2>1
<1>7. Total(Taken, NPtts) = 0
  BY <1>4, <1>5, <1>6, TotalZero
<1>8. TypeOK
  BY <1>1, <1>3 DEF TypeOK
<1>9. TablesSoFar
  <2>1. before.ptt \in [PttIds -> PttRow \union {NoRow}]
    BY <1>1 DEF Database
  <2>2. PttsLess(before, Taken) = before.ptt
    BY <1>5, <2>1 DEF PttsLess, RowLess
  <2>3. before = [prepaid |-> before.prepaid, ptt |-> before.ptt, sale |-> before.sale]
    BY <1>1 DEF Database
  <2> QED BY <1>1, <1>6, <2>2, <2>3 DEF TablesSoFar, TablesLess
<1>10. /\ queue \in Seq(OnSale)
       /\ \A i, j \in 1..Len(queue) : i < j => <<queue[i], queue[j]>> \in Order
       /\ \A t \in OnSale : InQueue(t)
  BY <1>1, ActivePttsSorted DEF OnSale, Order, InQueue
<1>11. QueueLeft
  BY <1>1, <1>5, <1>10 DEF QueueLeft
<1>12. Drained
  BY <1>10 DEF Drained
<1>13. TakenAsDrawn
  <2>1. ASSUME NEW t \in PttIds, ~InQueue(t)
        PROVE  Taken[t] = Draws(before, p, Today, qty)[t]
    <3>1. ~IsUsable(before, p, Today, t)
      BY <2>1, <1>10 DEF OnSale, Usable
    <3> QED BY <3>1, <1>5 DEF Draws
  <2> QED BY <2>1 DEF TakenAsDrawn
<1>14. TakenAddsUp
  BY <1>1, <1>3, <1>7 DEF TakenAddsUp
<1>15. PaidAsTaken
  <2>1. UnitsTakenValue \in [PttIds -> Int] /\ \A t \in PttIds : UnitsTakenValue[t] = 0
    BY <1>5, RedemptionAssumption DEF UnitsTakenValue
  <2>2. Total(UnitsTakenValue, NPtts) = 0
    BY <1>4, <2>1, TotalZero
  <2> QED BY <1>1, <1>5, <1>6, <2>2 DEF PaidAsTaken
<1>16. RedeemsAsOne
  BY <1>1 DEF RedeemsAsOne
<1> QED BY <1>8, <1>9, <1>11, <1>12, <1>13, <1>14, <1>15, <1>16 DEF IInv

-----------------------------------------------------------------------------
IsHead(t) == queue # <<>> /\ t = Head(queue)

\* What the head of the queue finds open is what the prefix sums say.
LEMMA HeadIsOwed ==
    ASSUME IInv, NEW t, IsHead(t)
    PROVE  /\ t \in OnSale /\ InQueue(t) /\ Taken[t] = 0 /\ open > 0
           /\ open = OpenAt(before, p, Today, qty)[t]
<1>1. /\ before \in Database /\ qty \in Nat /\ open \in Nat
      /\ Taken \in [PttIds -> Nat] /\ queue \in Seq(OnSale) /\ open > 0
  BY DEF IInv, TypeOK, TablesSoFar, QueueLeft, IsHead
<1>2. 1 \in 1..Len(queue) /\ t = queue[1] /\ t \in OnSale
  BY <1>1 DEF IsHead
<1>3. InQueue(t) /\ t \in PttIds
  BY <1>2 DEF InQueue, OnSale, Usable
<1>4. Taken[t] = 0
  BY <1>3 DEF IInv, QueueLeft
<1> DEFINE k == Taken
           a == AheadOf(before, p, Today)[t]
           stock == Stock(before, p, Today)
<1>5. /\ IsQueue(NPtts, OnSale, Order) /\ NPtts \in Nat /\ PttIds = 1..NPtts
      /\ IsDrained(NPtts, OnSale, Order, stock, AheadOf(before, p, Today),
                   OpenAt(before, p, Today, qty), Draws(before, p, Today, qty), qty)
  BY <1>1, UsableIsQueue, DrawsDrain DEF OnSale, Order
<1>6. /\ a \in [1..NPtts -> Nat]
      /\ OpenAt(before, p, Today, qty)[t] = qty - Total(a, NPtts)
  <2>1. t \in OnSale /\ qty \in Nat
    BY <1>1, <1>2
  <2>2. a \in [1..NPtts -> Nat]
    BY <1>5, <2>1, MemberFacts
  <2>3. OpenAt(before, p, Today, qty)[t] = qty - Total(a, NPtts)
    BY <1>5, <2>1, MemberFacts
  <2> QED BY <2>2, <2>3
<1>7. ASSUME NEW u \in PttIds PROVE a[u] = k[u]
  <2>1. a[u] = IF u \in OnSale /\ <<u, t>> \in Order THEN stock[u] ELSE 0
    BY <1>1, <1>2, <1>5, AheadFacts
  <2>2. CASE u \notin OnSale
    BY <2>1, <2>2 DEF IInv, QueueLeft
  <2>3. CASE u \in OnSale /\ InQueue(u)
    <3>1. k[u] = 0
      BY <2>3 DEF IInv, QueueLeft
    <3>2. <<u, t>> \notin Order
      <4>1. PICK i \in 1..Len(queue) : queue[i] = u
        BY <2>3 DEF InQueue
      <4>2. u = t \/ <<t, u>> \in Order
        <5>1. i = 1 \/ 1 < i
          BY <1>1, <4>1
        <5> QED BY <1>2, <4>1, <5>1 DEF IInv, QueueLeft
      <4> QED BY <1>2, <1>5, <2>3, <4>2 DEF IsQueue
    <3> QED BY <2>1, <3>1, <3>2
  <2>4. CASE u \in OnSale /\ ~InQueue(u)
    <3>1. k[u] = before.ptt[u].remain /\ <<u, t>> \in Order
      BY <2>4, <1>2 DEF IInv, Drained, IsHead
    <3>2. stock[u] = before.ptt[u].remain
      BY <2>4 DEF Stock, OnSale
    <3> QED BY <2>1, <2>4, <3>1, <3>2
  <2> QED BY <2>2, <2>3, <2>4
<1>8. a = k
  <2> HIDE DEF a, k
  <2>1. k \in [PttIds -> Nat]
    BY <1>1 DEF k
  <2> QED BY <1>5, <1>6, <1>7, <2>1
<1>9. Total(Taken, NPtts) + open = qty /\ Total(Taken, NPtts) \in Int
  <2>1. Taken \in [1..NPtts -> Int]
    BY <1>1, <1>5
  <2> QED BY <1>5, <2>1, TotalType DEF IInv, TakenAddsUp
<1>10. open = qty - Total(Taken, NPtts)
  BY <1>1, <1>9
<1>11. OpenAt(before, p, Today, qty)[t] = qty - Total(Taken, NPtts)
  BY <1>6, <1>8
<1> QED BY <1>1, <1>2, <1>3, <1>4, <1>10, <1>11

\* What a round that takes x from t records as the amount of the payment.
AmountOf(t, x) == IF IsCash THEN x ELSE usedAmount + UnitValue[t] * x

\* One round takes x from the head of the queue and records what it should.
LEMMA RoundTakes ==
    ASSUME IInv, NEW t, IsHead(t),
           NEW x \in Nat, x > 0, x <= open, x <= before.ptt[t].remain,
           NEW amount, amount = AmountOf(t, x),
           Redeem(t, x, amount)
    PROVE  /\ Taken' = [Taken EXCEPT ![t] = x]
           /\ TypeOK' /\ TablesSoFar' /\ TakenAddsUp' /\ PaidAsTaken' /\ RedeemsAsOne'
           /\ open' = open - x
<1>1. /\ before \in Database /\ p \in Live(before.prepaid) /\ qty \in Nat /\ qty > 0
      /\ open \in Nat /\ left \in Int /\ usedAmount \in Nat /\ payments \in [PttIds -> Nat]
      /\ finished \in BOOLEAN /\ Taken \in [PttIds -> Nat]
  BY DEF IInv, TypeOK, TablesSoFar
<1>2. /\ t \in OnSale /\ InQueue(t) /\ Taken[t] = 0
  BY HeadIsOwed
<1>3. t \in PttIds /\ t \in Live(before.ptt) /\ before.ptt[t].remain \in Nat
  BY <1>1, <1>2, UsableRow DEF OnSale
<1>4. ~finished /\ finished' = finished
  BY DEF IInv, QueueLeft, Redeem, IsHead
<1>5. /\ before' = before /\ p' = p /\ qty' = qty /\ open' = open - x /\ left' = left - x
      /\ usedAmount' = amount /\ payments' = [payments EXCEPT ![t] = amount]
      /\ db' = CutPtt(db, t, x)
  BY DEF Redeem, CutPtt
<1>6. db = TablesLess(before, Taken)
  BY <1>4 DEF IInv, TablesSoFar
<1>7. TakenIn(before, db) = Taken
  BY DEF Taken, TakenIn
<1> DEFINE k2 == [Taken EXCEPT ![t] = x]
<1>8. /\ k2 \in [PttIds -> Nat]
      /\ db' = TablesLess(before, k2)
      /\ TakenIn(before, db') = k2
  <2> DEFINE k == Taken
  <2>1. k \in [PttIds -> Nat] /\ k[t] = 0 /\ TakenIn(before, db) = k
        /\ db = TablesLess(before, k)
    BY <1>1, <1>2, <1>6, <1>7
  <2> HIDE DEF k
  <2>2. PICK k3 : k3 = [k EXCEPT ![t] = x]
    OBVIOUS
  <2>3. PICK e : e = db
    OBVIOUS
  <2>4. PICK next : next = db'
    OBVIOUS
  <2>6. k3 \in [PttIds -> Nat] /\ k3[t] = x /\ \A u \in PttIds : u # t => k3[u] = k[u]
    BY <1>3, <2>1, <2>2
  <2>5. /\ next = TablesLess(before, k3)
        /\ TakenIn(before, next) = k3
    <3>1. next = CutPtt(e, t, x)
      BY <1>5, <2>3, <2>4
    <3>2. e = TablesLess(before, k)
          /\ TakenIn(before, e) = k
      BY <2>1, <2>3
    <3>3. before \in Database /\ k \in [PttIds -> Nat] /\ t \in Live(before.ptt) /\ k[t] = 0
      BY <1>1, <1>3, <2>1
    <3> QED BY <2>6, <3>1, <3>2, <3>3, OneMore
  <2> QED BY <2>2, <2>4, <2>5, <2>6 DEF k
<1>9. Taken' = k2
  <2>1. Taken' = TakenIn(before', db')
    BY DEF Taken, TakenIn
  <2> QED BY <1>5, <1>8, <2>1
<1>10. p \in PrepaidIds /\ before.prepaid[p] \in PrepaidRow
  BY <1>1, RowTypes DEF Live, Database
<1>11. IsCash <=> before.prepaid[p].type \in CashTypes
  BY <1>6 DEF IsCash, TablesLess
<1>12. UnitValue[t] \in Nat /\ UnitValue[t] > 0 /\ UnitValue \in [PttIds -> Nat]
  BY <1>3, RedemptionAssumption
<1>13. UnitValue[t] * x \in Nat /\ UnitValue[t] * x > 0
  <2>1. PICK v \in Nat : v = UnitValue[t] /\ v > 0
    BY <1>12
  <2>2. v * x \in Nat /\ v * x > 0
    BY <2>1
  <2> QED BY <2>1, <2>2
<1>14. amount \in Nat /\ amount > 0
  BY <1>1, <1>13 DEF AmountOf
<1>15. TypeOK'
  <2>1. open - x \in Nat /\ left - x \in Int
    BY <1>1
  <2>2. [payments EXCEPT ![t] = amount] \in [PttIds -> Nat]
    BY <1>1, <1>14
  <2>3. open' \in Nat /\ left' \in Int /\ payments' \in [PttIds -> Nat] /\ usedAmount' \in Nat
    BY <1>5, <1>14, <2>1, <2>2
  <2>4. before' \in Database /\ p' \in Live(before'.prepaid) /\ qty' \in Nat /\ qty' > 0
    BY <1>1, <1>5
  <2> QED BY <1>1, <1>4, <2>3, <2>4 DEF TypeOK
<1>16. TablesSoFar'
  <2> HIDE DEF k2
  <2>1. TablesSoFar' <=>
          /\ k2 \in [PttIds -> Nat]
          /\ db'.ptt = PttsLess(before, k2)
          /\ db' = TablesLess(before, k2)
    BY <1>4, <1>5, <1>9 DEF TablesSoFar
  <2>2. TablesLess(before, k2).ptt = PttsLess(before, k2)
    BY DEF TablesLess
  <2> QED BY <1>8, <2>1, <2>2
<1>17. NPtts \in Nat /\ PttIds = 1..NPtts
  BY IdsKnown
<1>18. Total(k2, NPtts) = Total(Taken, NPtts) + x /\ Total(Taken, NPtts) \in Int
  <2>1. Taken[t] = 0 /\ t \in PttIds /\ Taken \in [PttIds -> Nat] /\ x \in Nat
    BY <1>1, <1>2, <1>3
  <2> QED BY <2>1, TakingOneMore
<1>19. TakenAddsUp'
  <2>1. before.prepaid[p].remain \in Int
    BY <1>10 DEF PrepaidRow
  <2>2. Total(Taken, NPtts) + open = qty /\ left = before.prepaid[p].remain - Total(Taken, NPtts)
    BY DEF IInv, TakenAddsUp
  <2>3. TakenAddsUp' <=> /\ Total(k2, NPtts) + (open - x) = qty
                         /\ left - x = before.prepaid[p].remain - Total(k2, NPtts)
    BY <1>5, <1>9 DEF TakenAddsUp
  <2> HIDE DEF k2
  <2>4. Total(k2, NPtts) + (open - x) = qty
    BY <1>1, <1>18, <2>2
  <2>5. left - x = before.prepaid[p].remain - Total(k2, NPtts)
    BY <1>1, <1>18, <2>1, <2>2
  <2> QED BY <2>3, <2>4, <2>5
<1>20. PaidAsTaken'
  <2>1. ASSUME NEW u \in PttIds PROVE payments'[u] = 0 <=> k2[u] = 0
    <3>1. CASE u = t
      BY <1>1, <1>3, <1>5, <1>14, <3>1
    <3>2. CASE u # t
      <4>1. payments[u] = 0 <=> Taken[u] = 0
        BY DEF IInv, PaidAsTaken
      <4> QED BY <1>1, <1>5, <3>2, <4>1
    <3> QED BY <3>1, <3>2
  <2>2. ASSUME before.prepaid[p].type \in CashTypes PROVE payments' = k2
    <3>1. payments = Taken /\ amount = x
      BY <1>11, <2>2 DEF IInv, PaidAsTaken, AmountOf
    <3> QED BY <1>5, <3>1
  <2>3. ASSUME before.prepaid[p].type \notin CashTypes
        PROVE  usedAmount' = Total([u \in PttIds |-> k2[u] * UnitValue[u]], NPtts)
    <3>1. /\ usedAmount = Total(UnitsTakenValue, NPtts)
          /\ amount = usedAmount + UnitValue[t] * x
      BY <1>11, <2>3 DEF IInv, PaidAsTaken, AmountOf
    <3> DEFINE val == UnitsTakenValue
               more == UnitValue[t] * x
    <3>2. val \in [1..NPtts -> Int]
      <4>1. \A u \in PttIds : Taken[u] * UnitValue[u] \in Int
        <5> SUFFICES ASSUME NEW u \in PttIds PROVE Taken[u] * UnitValue[u] \in Int
          OBVIOUS
        <5>1. PICK y \in Nat, z \in Nat : y = Taken[u] /\ z = UnitValue[u]
          BY <1>1, <1>12
        <5>2. y * z \in Int
          OBVIOUS
        <5> QED BY <5>1, <5>2
      <4> QED BY <1>17, <4>1 DEF UnitsTakenValue
    <3>3. val[t] = 0
      BY <1>2, <1>3, <1>12 DEF UnitsTakenValue
    <3>4. [u \in PttIds |-> k2[u] * UnitValue[u]] = [val EXCEPT ![t] = more]
      <4>1. ASSUME NEW u \in PttIds
            PROVE  k2[u] * UnitValue[u] = [val EXCEPT ![t] = more][u]
        <5>1. CASE u = t
          <6>1. k2[t] = x /\ [val EXCEPT ![t] = more][t] = more
            BY <1>1, <1>3, <1>17, <3>2
          <6>2. PICK z \in Nat : z = UnitValue[t]
            BY <1>12
          <6>3. x * z = z * x
            OBVIOUS
          <6> QED BY <5>1, <6>1, <6>2, <6>3
        <5>2. CASE u # t
          <6>1. k2[u] = Taken[u] /\ [val EXCEPT ![t] = more][u] = val[u]
            BY <1>1, <1>17, <3>2, <5>2
          <6>2. val[u] = Taken[u] * UnitValue[u]
            BY DEF UnitsTakenValue
          <6> QED BY <6>1, <6>2
        <5> QED BY <5>1, <5>2
      <4>2. [val EXCEPT ![t] = more] = [u \in PttIds |-> [val EXCEPT ![t] = more][u]]
        <5>1. PICK v : v = val
          OBVIOUS
        <5>2. PICK w : w = [v EXCEPT ![t] = more]
          OBVIOUS
        <5>3. v \in [PttIds -> Int]
          BY <1>17, <3>2, <5>1
        <5>4. w = [u \in PttIds |-> w[u]]
          BY <5>2, <5>3
        <5> QED BY <5>1, <5>2, <5>4
      <4> HIDE DEF val, more, k2
      <4> QED BY <4>1, <4>2
    <3>5. more \in Int /\ t \in 1..NPtts
      BY <1>3, <1>13, <1>17
    <3> HIDE DEF val, more
    <3>6. PICK b : b = [val EXCEPT ![t] = more]
      OBVIOUS
    <3>9. b \in [1..NPtts -> Int] /\ NPtts \in Nat
      BY <1>17, <3>2, <3>5, <3>6
    <3>10. b[t] = more
      BY <3>2, <3>5, <3>6
    <3>11. \A u \in 1..NPtts : u # t => b[u] = val[u]
      BY <3>2, <3>5, <3>6
    <3>7. Total(val, NPtts) \in Int /\ Total(b, NPtts) = Total(val, NPtts) + more
      BY <3>2, <3>3, <3>5, <3>9, <3>10, <3>11, TotalOneMore
    <3>8. Total([val EXCEPT ![t] = more], NPtts) = Total(val, NPtts) + more
      BY <3>6, <3>7
    <3>12. usedAmount' = Total(val, NPtts) + more
      BY <1>5, <3>1 DEF val, more
    <3> QED BY <3>4, <3>8, <3>12
  <2>4. UnitsTakenValue' = [u \in PttIds |-> k2[u] * UnitValue[u]]
    BY <1>9 DEF UnitsTakenValue
  <2> HIDE DEF k2
  <2>5. PaidAsTaken' <=>
          /\ \A u \in PttIds : payments'[u] = 0 <=> k2[u] = 0
          /\ before.prepaid[p].type \in CashTypes => payments' = k2
          /\ before.prepaid[p].type \notin CashTypes =>
                usedAmount' = Total([u \in PttIds |-> k2[u] * UnitValue[u]], NPtts)
    BY <1>5, <1>9, <2>4 DEF PaidAsTaken
  <2> QED BY <2>1, <2>2, <2>3, <2>5
<1>21. RedeemsAsOne'
  BY <1>4 DEF RedeemsAsOne
<1> QED BY <1>5, <1>9, <1>15, <1>16, <1>19, <1>20, <1>21

\* The transaction covers what is open: nothing is owed by those after it.
LEMMA PayRestKeeps == IInv /\ PayRest => IInv'
<1> SUFFICES ASSUME IInv, PayRest PROVE IInv'
  OBVIOUS
<1>1. PICK t : t = Head(queue)
  OBVIOUS
<1>2. /\ queue # <<>> /\ open <= db.ptt[t].remain /\ queue' = <<>>
      /\ Redeem(t, open, IF IsCash THEN open ELSE usedAmount + UnitValue[t] * open)
  BY <1>1 DEF PayRest
<1>3. /\ t \in OnSale /\ InQueue(t) /\ Taken[t] = 0 /\ open > 0
      /\ open = OpenAt(before, p, Today, qty)[t]
  BY <1>1, <1>2, HeadIsOwed DEF IsHead
<1>4. /\ before \in Database /\ qty \in Nat /\ open \in Nat
      /\ Taken \in [PttIds -> Nat] /\ queue \in Seq(OnSale)
  BY DEF IInv, TypeOK, TablesSoFar, QueueLeft
<1>5. t \in PttIds /\ before.ptt[t].remain \in Nat /\ before.ptt[t].remain > 0
  BY <1>3, <1>4, UsableRow DEF OnSale
<1>6. db.ptt[t] = before.ptt[t]
  BY <1>3, <1>5 DEF IInv, TablesSoFar, PttsLess, RowLess
<1>7. /\ Taken' = [Taken EXCEPT ![t] = open]
      /\ TypeOK' /\ TablesSoFar' /\ TakenAddsUp' /\ PaidAsTaken' /\ RedeemsAsOne'
      /\ open' = open - open /\ before' = before /\ p' = p /\ qty' = qty
      /\ finished' = finished
  <2>1. PICK x : x = open
    OBVIOUS
  <2>2. PICK amount : amount = AmountOf(t, x)
    OBVIOUS
  <2>3. Redeem(t, x, amount) /\ x \in Nat /\ x > 0 /\ x <= open /\ x <= before.ptt[t].remain
    BY <1>2, <1>3, <1>4, <1>6, <2>1, <2>2 DEF AmountOf
  <2>4. /\ Taken' = [Taken EXCEPT ![t] = x]
        /\ TypeOK' /\ TablesSoFar' /\ TakenAddsUp' /\ PaidAsTaken' /\ RedeemsAsOne'
        /\ open' = open - x
    BY <1>1, <1>2, <2>2, <2>3, RoundTakes DEF IsHead
  <2> QED BY <2>1, <2>3, <2>4 DEF Redeem
<1>8. OnSale' = OnSale /\ Order' = Order /\ ~finished
  BY <1>2, <1>7 DEF OnSale, Order, IInv, QueueLeft
<1>9. \A u \in PttIds : ~InQueue(u)'
  BY <1>2 DEF InQueue
<1>10. ASSUME NEW u \in PttIds, u \notin OnSale PROVE Taken'[u] = 0
  <2>1. Taken[u] = 0 /\ u # t
    BY <1>3, <1>10 DEF IInv, QueueLeft
  <2> QED BY <1>4, <1>7, <2>1
<1>11. QueueLeft'
  BY <1>2, <1>7, <1>8, <1>9, <1>10 DEF QueueLeft
<1>12. Drained'
  BY <1>2 DEF Drained
<1>13. TakenAsDrawn'
  <2> DEFINE d == Draws(before, p, Today, qty)
             owed == OpenAt(before, p, Today, qty)
             stock == Stock(before, p, Today)
  <2>1. /\ IsQueue(NPtts, OnSale, Order) /\ NPtts \in Nat /\ PttIds = 1..NPtts
        /\ IsDrained(NPtts, OnSale, Order, stock, AheadOf(before, p, Today), owed, d, qty)
    BY <1>4, UsableIsQueue, DrawsDrain DEF OnSale, Order
  <2>2. ASSUME NEW u \in OnSale
        PROVE  /\ stock[u] \in Nat /\ stock[u] > 0 /\ owed[u] \in Int
               /\ d[u] = IF owed[u] <= 0 THEN 0
                         ELSE IF owed[u] <= stock[u] THEN owed[u] ELSE stock[u]
    <3>1. stock[u] \in Nat /\ stock[u] > 0 /\ owed[u] \in Int
      BY <1>4, <2>1, MemberFacts
    <3>2. d[u] = IF owed[u] <= 0 THEN 0
                 ELSE IF owed[u] <= stock[u] THEN owed[u] ELSE stock[u]
      BY <1>4, <2>1, MemberFacts
    <3> QED BY <3>1, <3>2
  <2>3. stock[t] = before.ptt[t].remain
    BY <1>3, <1>5 DEF Stock, OnSale
  <2> HIDE DEF d, owed, stock
  <2>4. ASSUME NEW u \in PttIds PROVE Taken'[u] = d[u]
    <3>1. CASE u = t
      <4>1. d[t] = open
        BY <1>2, <1>3, <1>6, <2>2, <2>3 DEF owed
      <4> QED BY <1>4, <1>7, <3>1, <4>1
    <3>2. CASE u # t /\ InQueue(u)
      <4>1. Taken[u] = 0
        BY <3>2 DEF IInv, QueueLeft
      <4>2. u \in OnSale /\ <<t, u>> \in Order
        <5>1. PICK i \in 1..Len(queue) : queue[i] = u
          BY <3>2 DEF InQueue
        <5>2. t = queue[1] /\ 1 \in 1..Len(queue) /\ 1 < i
          BY <1>1, <1>2, <1>4, <3>2, <5>1
        <5>3. <<queue[1], queue[i]>> \in Order
          BY <5>2 DEF IInv, QueueLeft
        <5> QED BY <1>4, <5>1, <5>2, <5>3
      <4>3. owed[t] >= owed[u] + stock[t]
        BY <1>3, <1>4, <2>1, <4>2, OpenFalls DEF owed, d, stock
      <4>4. owed[u] <= 0
        BY <1>2, <1>3, <1>6, <2>2, <2>3, <4>2, <4>3 DEF owed
      <4> QED BY <1>4, <1>7, <2>2, <3>2, <4>1, <4>2, <4>4
    <3>3. CASE u # t /\ ~InQueue(u)
      <4>1. Taken[u] = d[u]
        BY <3>3 DEF IInv, TakenAsDrawn, d
      <4> QED BY <1>4, <1>7, <3>3, <4>1
    <3> QED BY <3>1, <3>2, <3>3
  <2> QED BY <1>7, <2>4 DEF TakenAsDrawn, d
<1> QED BY <1>7, <1>11, <1>12, <1>13 DEF IInv

\* The transaction gives all it has, and the next is the head.
LEMMA PayPartKeeps == IInv /\ PayPart => IInv'
<1> SUFFICES ASSUME IInv, PayPart PROVE IInv'
  OBVIOUS
<1>1. PICK t : t = Head(queue)
  OBVIOUS
<1>2. /\ queue # <<>> /\ open > db.ptt[t].remain /\ queue' = Tail(queue)
      /\ Redeem(t, db.ptt[t].remain,
                IF IsCash THEN db.ptt[t].remain
                ELSE usedAmount + UnitValue[t] * db.ptt[t].remain)
  BY <1>1 DEF PayPart
<1>3. /\ t \in OnSale /\ InQueue(t) /\ Taken[t] = 0 /\ open > 0
      /\ open = OpenAt(before, p, Today, qty)[t]
  BY <1>1, <1>2, HeadIsOwed DEF IsHead
<1>4. /\ before \in Database /\ qty \in Nat /\ open \in Nat
      /\ Taken \in [PttIds -> Nat] /\ queue \in Seq(OnSale)
  BY DEF IInv, TypeOK, TablesSoFar, QueueLeft
<1>5. t \in PttIds /\ before.ptt[t].remain \in Nat /\ before.ptt[t].remain > 0
  BY <1>3, <1>4, UsableRow DEF OnSale
<1>6. db.ptt[t] = before.ptt[t]
  BY <1>3, <1>5 DEF IInv, TablesSoFar, PttsLess, RowLess
<1>7. PICK x \in Nat : x = before.ptt[t].remain /\ x > 0 /\ x < open
  BY <1>2, <1>5, <1>6
<1>8. /\ Taken' = [Taken EXCEPT ![t] = x]
      /\ TypeOK' /\ TablesSoFar' /\ TakenAddsUp' /\ PaidAsTaken' /\ RedeemsAsOne'
      /\ open' = open - x /\ before' = before /\ p' = p /\ qty' = qty
      /\ finished' = finished
  <2>1. PICK amount : amount = AmountOf(t, x)
    OBVIOUS
  <2>2. Redeem(t, x, amount) /\ x <= open /\ x <= before.ptt[t].remain
    BY <1>2, <1>4, <1>6, <1>7, <2>1 DEF AmountOf
  <2>3. /\ Taken' = [Taken EXCEPT ![t] = x]
        /\ TypeOK' /\ TablesSoFar' /\ TakenAddsUp' /\ PaidAsTaken' /\ RedeemsAsOne'
        /\ open' = open - x
    BY <1>1, <1>2, <1>7, <2>1, <2>2, RoundTakes DEF IsHead
  <2> QED BY <2>2, <2>3 DEF Redeem
<1>9. OnSale' = OnSale /\ Order' = Order /\ ~finished
  BY <1>2, <1>8 DEF OnSale, Order, IInv, QueueLeft
<1>10. PICK n \in Nat : n = Len(queue) /\ n > 0
  BY <1>2, <1>4
<1>11. /\ queue' \in Seq(OnSale) /\ Len(queue') = n - 1
       /\ \A i \in 1..(n - 1) : queue'[i] = queue[i + 1]
  BY <1>2, <1>4, <1>10
<1>12. t = queue[1] /\ queue[1] \in OnSale
  BY <1>1, <1>2, <1>3, <1>4
<1>13. ASSUME NEW i \in 1..n, NEW j \in 1..n, i < j PROVE <<queue[i], queue[j]>> \in Order
  BY <1>10, <1>13 DEF IInv, QueueLeft
<1>14. /\ IsQueue(NPtts, OnSale, Order) /\ NPtts \in Nat /\ PttIds = 1..NPtts
       /\ IsDrained(NPtts, OnSale, Order, Stock(before, p, Today), AheadOf(before, p, Today),
                    OpenAt(before, p, Today, qty), Draws(before, p, Today, qty), qty)
  BY <1>4, UsableIsQueue, DrawsDrain DEF OnSale, Order
<1>15. ASSUME NEW u PROVE InQueue(u)' <=> InQueue(u) /\ u # t
  <2>1. InQueue(u)' <=> \E i \in 1..(n - 1) : queue[i + 1] = u
    BY <1>11 DEF InQueue
  <2>2. ASSUME NEW i \in 1..(n - 1), queue[i + 1] = u PROVE InQueue(u) /\ u # t
    <3>1. i + 1 \in 1..n /\ 1 \in 1..n /\ 1 < i + 1
      BY <1>10
    <3>2. <<t, u>> \in Order
      BY <1>12, <1>13, <2>2, <3>1
    <3>3. <<t, t>> \notin Order
      BY <1>3, <1>14 DEF IsQueue
    <3> QED BY <1>10, <2>2, <3>1, <3>2, <3>3 DEF InQueue
  <2>3. ASSUME InQueue(u), u # t PROVE \E i \in 1..(n - 1) : queue[i + 1] = u
    <3>1. PICK j \in 1..n : queue[j] = u
      BY <1>10, <2>3 DEF InQueue
    <3>2. j # 1
      BY <1>12, <2>3, <3>1
    <3>3. j - 1 \in 1..(n - 1) /\ (j - 1) + 1 = j
      BY <1>10, <3>1, <3>2
    <3> QED BY <3>1, <3>3
  <2> QED BY <2>1, <2>2, <2>3
<1>16. QueueLeft'
  <2>1. queue' \in Seq(OnSale) /\ ~finished'
    BY <1>8, <1>9, <1>11
  <2>2. open' > 0
    BY <1>4, <1>7, <1>8
  <2>3. ASSUME NEW i \in 1..Len(queue'), NEW j \in 1..Len(queue'), i < j
        PROVE  <<queue'[i], queue'[j]>> \in Order
    <3>1. i \in 1..(n - 1) /\ j \in 1..(n - 1)
      BY <1>11
    <3>2. i + 1 \in 1..n /\ j + 1 \in 1..n /\ i + 1 < j + 1
      BY <1>10, <2>3, <3>1
    <3> QED BY <1>11, <1>13, <3>1, <3>2
  <2>4. ASSUME NEW u \in PttIds, InQueue(u)' \/ u \notin OnSale PROVE Taken'[u] = 0
    <3>1. Taken[u] = 0 /\ u # t
      BY <1>3, <1>15, <2>4 DEF IInv, QueueLeft
    <3> QED BY <1>4, <1>8, <3>1
  <2> QED BY <1>9, <2>1, <2>2, <2>3, <2>4 DEF QueueLeft
<1>17. Drained'
  <2> SUFFICES ASSUME queue' # <<>>, NEW u \in OnSale, ~InQueue(u)'
               PROVE  Taken'[u] = before.ptt[u].remain /\ <<u, queue'[1]>> \in Order
    BY <1>8, <1>9 DEF Drained
  <2>1. 1 \in 1..(n - 1) /\ queue'[1] = queue[1 + 1]
    BY <1>10, <1>11
  <2>2. queue'[1] \in OnSale /\ <<t, queue'[1]>> \in Order
    <3>1. 1 \in 1..n /\ 1 + 1 \in 1..n /\ 1 < 1 + 1
      BY <1>10, <2>1
    <3>2. queue[1 + 1] \in OnSale
      BY <1>4, <1>10, <3>1
    <3> QED BY <1>12, <1>13, <2>1, <3>1, <3>2
  <2>3. u \in PttIds
    BY DEF OnSale, Usable
  <2>4. CASE u = t
    BY <1>4, <1>5, <1>7, <1>8, <2>2, <2>4
  <2>5. CASE u # t
    <3>1. ~InQueue(u)
      BY <1>15, <2>5
    <3>2. Taken[u] = before.ptt[u].remain /\ <<u, t>> \in Order
      BY <1>2, <1>12, <3>1 DEF IInv, Drained
    <3>3. <<u, queue'[1]>> \in Order
      BY <1>3, <1>14, <2>2, <3>2 DEF IsQueue
    <3> QED BY <1>4, <1>8, <2>3, <2>5, <3>2, <3>3
  <2> QED BY <2>4, <2>5
<1>18. TakenAsDrawn'
  <2>1. Draws(before, p, Today, qty)[t] = x
    <3>1. IsUsable(before, p, Today, t)
      BY <1>3 DEF OnSale, Usable
    <3>2. OpenAt(before, p, Today, qty)[t] = qty - Total(UsableAhead(before, p, Today, t), NPtts)
      BY <1>5 DEF OpenAt, AheadOf
    <3>3. Draws(before, p, Today, qty)[t] =
             LET o == open
             IN  IF ~IsUsable(before, p, Today, t) \/ o <= 0 THEN 0
                 ELSE IF o <= before.ptt[t].remain THEN o ELSE before.ptt[t].remain
      BY <1>3, <1>5, <3>2 DEF Draws
    <3> QED BY <1>3, <1>4, <1>7, <3>1, <3>3
  <2> DEFINE d == Draws(before, p, Today, qty)
  <2> HIDE DEF d
  <2>2. ASSUME NEW u \in PttIds, ~InQueue(u)' PROVE Taken'[u] = d[u]
    <3>1. CASE u = t
      BY <1>4, <1>8, <2>1, <3>1 DEF d
    <3>2. CASE u # t
      <4>1. Taken[u] = d[u]
        BY <1>15, <2>2, <3>2 DEF IInv, TakenAsDrawn, d
      <4> QED BY <1>4, <1>8, <3>2, <4>1
    <3> QED BY <3>1, <3>2
  <2> QED BY <1>8, <2>2 DEF TakenAsDrawn, d
<1> QED BY <1>8, <1>16, <1>17, <1>18 DEF IInv

\* What the loop wrote, with the balance and the item, is what the operator
\* says: what it took are the draws.
LEMMA FinishKeeps == IInv /\ Finish => IInv'
<1> SUFFICES ASSUME IInv, Finish PROVE IInv'
  OBVIOUS
<1> DEFINE drawn == [t \in PttIds |-> IF payments[t] = 0 THEN 0
                                      ELSE before.ptt[t].remain - db.ptt[t].remain]
           d == Draws(before, p, Today, qty)
           item == [prepaid |-> p, created |-> Today, qty |-> qty, due |-> open, drawn |-> drawn]
           shut == (left <= 0 /\ db.prepaid[p].type \in VoucherTypes)
<1>1. /\ queue = <<>> /\ ~finished /\ finished' = TRUE
      /\ before' = before /\ p' = p /\ qty' = qty /\ queue' = queue /\ open' = open
      /\ left' = left /\ usedAmount' = usedAmount /\ payments' = payments
  BY DEF Finish
<1>2. PICK s \in SaleIds :
         /\ IsNextId(db.sale, s)
         /\ db' = [db EXCEPT !.prepaid[p].remain = left, !.prepaid[p].active = @ /\ ~shut,
                             !.sale[s] = item]
  BY DEF Finish
<1>3. /\ before \in Database /\ p \in Live(before.prepaid) /\ qty \in Nat
      /\ Taken \in [PttIds -> Nat] /\ db = TablesLess(before, Taken)
      /\ open \in Nat /\ left \in Int /\ usedAmount \in Nat /\ payments \in [PttIds -> Nat]
  BY <1>1 DEF IInv, TypeOK, TablesSoFar
<1>4. /\ p \in PrepaidIds /\ before.prepaid[p] \in PrepaidRow
      /\ before.prepaid \in [PrepaidIds -> PrepaidRow \union {NoRow}]
  BY <1>3, RowTypes DEF Live, Database
<1>5. ASSUME NEW t \in PttIds PROVE Taken[t] = d[t]
  BY <1>1 DEF IInv, TakenAsDrawn, InQueue
<1>6. Taken = d
  <2> DEFINE k == Taken
  <2>1. k = [t \in PttIds |-> k[t]]
    BY <1>3
  <2>2. d = [t \in PttIds |-> d[t]]
    BY DEF Draws
  <2> HIDE DEF k, d
  <2>3. \A t \in PttIds : k[t] = d[t]
    BY <1>5 DEF k
  <2>4. k = d
    BY <2>1, <2>2, <2>3
  <2> QED BY <2>4 DEF k
<1> DEFINE rows == [before.prepaid EXCEPT ![p].remain = left, ![p].active = @ /\ ~shut]
           sales == [before.sale EXCEPT ![s] = item]
<1>7. db' = [prepaid |-> rows, ptt |-> PttsLess(before, d), sale |-> sales]
  <2> HIDE DEF item, shut, d
  <2>1. db = [prepaid |-> before.prepaid, ptt |-> PttsLess(before, d), sale |-> before.sale]
    BY <1>3, <1>6 DEF TablesLess
  <2> QED BY <1>2, <2>1
<1>8. drawn = d
  <2>1. ASSUME NEW t \in PttIds PROVE drawn[t] = d[t]
    <3>1. payments[t] = 0 <=> Taken[t] = 0
      BY DEF IInv, PaidAsTaken
    <3>2. CASE Taken[t] = 0
      BY <1>5, <3>1, <3>2
    <3>3. CASE Taken[t] # 0
      <4>1. t \in Live(db.ptt) /\ Taken[t] = before.ptt[t].remain - db.ptt[t].remain
        BY <3>3 DEF Taken
      <4>2. drawn[t] = Taken[t]
        BY <3>1, <3>3, <4>1
      <4> QED BY <1>5, <4>2
    <3> QED BY <3>2, <3>3
  <2>2. d = [t \in PttIds |-> d[t]]
    BY DEF Draws
  <2>3. drawn = [t \in PttIds |-> drawn[t]]
    OBVIOUS
  <2> HIDE DEF d, drawn
  <2> QED BY <2>1, <2>2, <2>3
<1>9. /\ qty - Total(d, NPtts) = open /\ before.prepaid[p].remain - Total(d, NPtts) = left
  <2>1. Total(Taken, NPtts) + open = qty
        /\ left = before.prepaid[p].remain - Total(Taken, NPtts)
    BY DEF IInv, TakenAddsUp
  <2>2. Taken \in [1..NPtts -> Int] /\ NPtts \in Nat
    BY <1>3, IdsKnown
  <2>3. Total(Taken, NPtts) \in Int
    BY <2>2, TotalType
  <2>4. qty - Total(Taken, NPtts) = open
    BY <1>3, <2>1, <2>3
  <2> QED BY <1>6, <2>1, <2>4
<1>10. CheckOutDb(before, p, s, Today, qty) =
         [prepaid |-> rows, ptt |-> PttsLess(before, d), sale |-> sales]
  <2>1. db.prepaid[p].type = before.prepaid[p].type
    BY <1>3 DEF TablesLess
  <2>2. ASSUME NEW t \in PttIds
        PROVE  RowLess(before.ptt[t], d[t]) =
                 IF d[t] = 0 THEN before.ptt[t]
                 ELSE [before.ptt[t] EXCEPT !.remain = @ - d[t],
                                            !.active = @ /\ before.ptt[t].remain > d[t]]
    BY DEF RowLess
  <2>3. PttsLess(before, d) =
          [t \in PttIds |-> IF d[t] = 0 THEN before.ptt[t]
                            ELSE [before.ptt[t] EXCEPT
                                    !.remain = @ - d[t],
                                    !.active = @ /\ before.ptt[t].remain > d[t]]]
    BY <2>2 DEF PttsLess
  <2>4. shut = (left <= 0 /\ before.prepaid[p].type \in VoucherTypes)
    BY <2>1
  <2>5. item = [prepaid |-> p, created |-> Today, qty |-> qty, drawn |-> d, due |-> open]
    BY <1>8
  <2>6. CheckOutDb(before, p, s, Today, qty) =
          [prepaid |-> [before.prepaid EXCEPT
                          ![p].remain = before.prepaid[p].remain - Total(d, NPtts),
                          ![p].active = @ /\ ~(before.prepaid[p].remain - Total(d, NPtts) <= 0
                                               /\ before.prepaid[p].type \in VoucherTypes)],
           ptt |-> [t \in PttIds |-> IF d[t] = 0 THEN before.ptt[t]
                            ELSE [before.ptt[t] EXCEPT
                                    !.remain = @ - d[t],
                                    !.active = @ /\ before.ptt[t].remain > d[t]]],
           sale |-> [before.sale EXCEPT
                       ![s] = [prepaid |-> p, created |-> Today, qty |-> qty, drawn |-> d,
                               due |-> qty - Total(d, NPtts)]]]
    BY DEF CheckOutDb
  <2>7. sales = [before.sale EXCEPT
                   ![s] = [prepaid |-> p, created |-> Today, qty |-> qty, drawn |-> d,
                           due |-> qty - Total(d, NPtts)]]
    BY <1>9, <2>5
  <2>8. rows = [before.prepaid EXCEPT
                  ![p].remain = before.prepaid[p].remain - Total(d, NPtts),
                  ![p].active = @ /\ ~(before.prepaid[p].remain - Total(d, NPtts) <= 0
                                       /\ before.prepaid[p].type \in VoucherTypes)]
    BY <1>9, <2>4
  <2> HIDE DEF rows, sales, d
  <2> QED BY <2>3, <2>6, <2>7, <2>8
<1>11. IsNextId(before.sale, s)
  BY <1>2, <1>3 DEF TablesLess
<1>12. RedeemsAsOne'
  <2>1. db' = CheckOutDb(before, p, s, Today, qty)
    BY <1>7, <1>10
  <2> QED BY <1>1, <1>11, <2>1 DEF RedeemsAsOne
<1>13. db'.ptt = PttsLess(before, d) /\ db'.prepaid = rows
  <2> HIDE DEF rows, sales, d
  <2> QED BY <1>7
<1>14. db.ptt = db'.ptt
  BY <1>3, <1>6, <1>13 DEF TablesLess
<1>15. Taken' = Taken
  BY <1>1, <1>14 DEF Taken
<1>16. db'.prepaid[p].type = before.prepaid[p].type
  BY <1>4, <1>13 DEF PrepaidRow
<1> HIDE DEF d, rows, sales, item, shut, drawn
<1>17. TypeOK'
  BY <1>1 DEF IInv, TypeOK
<1>18. TablesSoFar'
  <2>1. Taken' \in [PttIds -> Nat] /\ db'.ptt = PttsLess(before', Taken')
    BY <1>1, <1>3, <1>6, <1>13, <1>15
  <2> QED BY <1>1, <1>16, <2>1 DEF TablesSoFar
<1>19. QueueLeft' /\ Drained'
  <2>1. \A t : ~InQueue(t)' /\ ~InQueue(t)
    BY <1>1 DEF InQueue
  <2>2. OnSale' = OnSale /\ Order' = Order
    BY <1>1 DEF OnSale, Order
  <2>3. QueueLeft'
    BY <1>1, <1>15, <2>1, <2>2 DEF IInv, QueueLeft
  <2>4. Drained'
    BY <1>1 DEF Drained
  <2> QED BY <2>3, <2>4
<1>20. TakenAsDrawn'
  <2>1. \A t : ~InQueue(t)' /\ ~InQueue(t)
    BY <1>1 DEF InQueue
  <2> QED BY <1>1, <1>5, <1>15, <2>1 DEF TakenAsDrawn, d
<1>21. TakenAddsUp'
  BY <1>1, <1>15 DEF IInv, TakenAddsUp
<1>22. PaidAsTaken'
  <2>1. UnitsTakenValue' = UnitsTakenValue
    BY <1>15 DEF UnitsTakenValue
  <2> QED BY <1>1, <1>15, <2>1 DEF IInv, PaidAsTaken
<1> QED BY <1>12, <1>17, <1>18, <1>19, <1>20, <1>21, <1>22 DEF IInv

\* Every step of the loop keeps the invariant.
LEMMA NextPreserves == IInv /\ [Next]_vars => IInv'
<1> SUFFICES ASSUME IInv, [Next]_vars PROVE IInv'
  OBVIOUS
<1>1. CASE PayRest
  BY <1>1, PayRestKeeps
<1>2. CASE PayPart
  BY <1>2, PayPartKeeps
<1>3. CASE Finish
  BY <1>3, FinishKeeps
<1>4. CASE UNCHANGED vars
  BY <1>4 DEF vars, IInv, TypeOK, TablesSoFar, QueueLeft, Drained, TakenAsDrawn, TakenAddsUp,
              PaidAsTaken, RedeemsAsOne, Taken, UnitsTakenValue, InQueue, OnSale, Order
<1> QED BY <1>1, <1>2, <1>3, <1>4 DEF Next, Done

-----------------------------------------------------------------------------
\* The inductive invariant of the loop of reviewPrepaidWhenPaidByPrepaid.
THEOREM Invariance == Spec => []IInv
<1>1. Init => IInv
  BY InitEstablishes
<1>2. IInv /\ [Next]_vars => IInv'
  BY NextPreserves
<1> QED BY <1>1, <1>2, PTL DEF Spec

\* However many rounds the loop takes, over transactions bought in whatever
\* order, the prepaid, its transactions and the item end as CheckOutDb says:
\* the specifications that charge an item in one step lose nothing by it.
THEOREM LoopIsOneCheckOut == Spec => []RedeemsAsOne
<1>1. IInv => RedeemsAsOne
  BY DEF IInv
<1> QED BY <1>1, Invariance, PTL

\* In every round, what was taken and what is still to be paid are the amount of
\* the item, and the balance to be written to the prepaid is the one found less
\* what was taken.
THEOREM TakenAlwaysAddsUp == Spec => []TakenAddsUp
<1>1. IInv => TakenAddsUp
  BY DEF IInv
<1> QED BY <1>1, Invariance, PTL

\* Cash is recorded payment by payment as it was taken; for treatments usedAmount,
\* carried from round to round, ends as the value of all that was taken.
THEOREM ItemGetsItsValue == Spec => []ItemIsValued
<1>1. IInv => ItemIsValued
  <2> SUFFICES ASSUME IInv, finished
               PROVE  IF IsCash THEN payments = Taken
                      ELSE usedAmount = Total(UnitsTakenValue, NPtts)
    BY DEF ItemIsValued
  <2>1. IsCash <=> before.prepaid[p].type \in CashTypes
    BY DEF IInv, TablesSoFar, IsCash
  <2> QED BY <2>1 DEF IInv, PaidAsTaken
<1> QED BY <1>1, Invariance, PTL
=============================================================================
