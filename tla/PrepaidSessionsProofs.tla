------------------------ MODULE PrepaidSessionsProofs ------------------------
(***************************************************************************)
(* What TLAPS proves of PrepaidSessions, for any number of requests and    *)
(* rows and whatever databases they find: the properties its run checks,   *)
(* each from an inductive invariant (SInv, VInv, GInv) that says what the  *)
(* requests under way have read and computed, and not only what is stored. *)
(* The last section shows that a request nobody interferes with takes a    *)
(* step of PrepaidLedger.                                                  *)
(***************************************************************************)
EXTENDS PrepaidSessions, PrepaidTablesTheorems, SequenceTheorems

\* A commit a request has yet to make, and the rows of a session that others
\* may write.
Writes == [db : Database, ps : SUBSET PrepaidIds, ts : SUBSET PttIds,
           granted : [PttIds -> Int]]

StoredRows == ({"prepaid"} \X PrepaidIds) \union ({"ptt"} \X PttIds)

TypeOK ==
    /\ db \in Database
    /\ granted \in [PttIds -> Int]
    /\ phase \in [Requests -> {"waiting", "running", "half", "over"}]
    /\ held \in [Requests -> Database]
    /\ todo \in [Requests -> Seq(Writes)]
    /\ stale \in [Requests -> SUBSET StoredRows]
    /\ overwrote \in BOOLEAN
    /\ torn \in BOOLEAN
    /\ refunds \in [SaleIds -> Nat]

\* The copies of the tables there are: what is stored, what each session holds
\* and what each request will write.
Planned(c)  == {todo[c][i] : i \in DOMAIN todo[c]}
CopiesOf(c) == {held[c]} \union {w.db : w \in Planned(c)}
Copies      == {db} \union UNION {CopiesOf(c) : c \in Requests}

\* Two copies never give a row that both have another prepaid, type or order,
\* nor a payment to a transaction of another prepaid.
Agree(x, y) ==
    /\ \A p \in Live(x.prepaid) :
          p \in Live(y.prepaid) => x.prepaid[p].type = y.prepaid[p].type
    /\ \A t \in Live(x.ptt) : t \in Live(y.ptt) => x.ptt[t].prepaid = y.ptt[t].prepaid
    /\ \A s \in Live(x.sale) : s \in Live(y.sale) => x.sale[s] = y.sale[s]
    /\ \A s \in Live(x.sale), t \in PttIds :
          x.sale[s].drawn[t] > 0 /\ t \in Live(y.ptt) => y.ptt[t].prepaid = x.sale[s].prepaid

\* A request that is not running has nothing in its session; the job's two
\* commits leave the orders alone.
Shape ==
    \A c \in Requests :
        /\ todo[c] = <<>> <=> phase[c] \in {"waiting", "over"}
        /\ todo[c] = <<>> => held[c] = EmptyDatabase /\ stale[c] = {}
        /\ Len(todo[c]) <= 2
        /\ phase[c] = "half" => Len(todo[c]) = 1

Chain ==
    \A c \in Requests : todo[c] # <<>> =>
        /\ Kept(held[c], todo[c][1].db)
        /\ Len(todo[c]) = 2 =>
              /\ Kept(todo[c][1].db, todo[c][2].db)
              /\ RowsRefer(todo[c][1].db)
              /\ todo[c][1].db.sale = held[c].sale /\ todo[c][2].db.sale = held[c].sale

EachCopy == \A x \in Copies : PttsRefer(x) /\ Holds(x)

Agreement == \A x \in Copies, y \in Copies : Agree(x, y)

References == RowsRefer(db) /\ \A c \in Requests : RowsRefer(held[c])

\* The order a request adds is in no copy but its own.
Owned ==
    \A c \in Requests : \A w \in Planned(c) : \A s \in Live(w.db.sale) :
        s \notin Live(held[c].sale) =>
            /\ s \notin Live(db.sale)
            /\ \A r \in Requests \ {c} : \A x \in CopiesOf(r) : s \notin Live(x.sale)

\* A row nobody has written since is as the session holds it.
FreshRows ==
    \A c \in Requests : todo[c] # <<>> =>
        /\ \A p \in PrepaidIds :
              <<"prepaid", p>> \notin stale[c] => db.prepaid[p] = held[c].prepaid[p]
        /\ \A t \in PttIds :
              <<"ptt", t>> \notin stale[c] => db.ptt[t] = held[c].ptt[t]

Refunded == \A s \in SaleIds : refunds[s] <= 1 /\ (s \in Live(db.sale) => refunds[s] = 0)

\* While no commit has overwritten anything:
FreshDraws ==
    \A c \in Requests : todo[c] # <<>> =>
        \A t \in PttIds :
            <<"ptt", t>> \notin stale[c] => DrawnOn(db, t) = DrawnOn(held[c], t)

BalancesRight ==
    /\ \A x \in Copies : SumsAgree(x)
    /\ CashAdds(db, granted)
    /\ \A c \in Requests : \A w \in Planned(c) : CashAdds(w.db, w.granted)
    /\ FreshDraws

SInv ==
    /\ TypeOK /\ Shape /\ Chain /\ EachCopy /\ Agreement /\ References /\ Owned
    /\ FreshRows /\ Refunded
    /\ ~overwrote => BalancesRight

-----------------------------------------------------------------------------
\* The session of a request that is not running is empty tables.
LEMMA EmptyIsSound ==
    /\ EmptyDatabase \in Database /\ RowsRefer(EmptyDatabase) /\ PttsRefer(EmptyDatabase)
    /\ Holds(EmptyDatabase) /\ SumsAgree(EmptyDatabase)
    /\ Live(EmptyDatabase.prepaid) = {} /\ Live(EmptyDatabase.ptt) = {}
    /\ Live(EmptyDatabase.sale) = {}
    /\ \A x : Agree(x, EmptyDatabase) /\ Agree(EmptyDatabase, x)
<1>1. /\ Live(EmptyDatabase.prepaid) = {} /\ Live(EmptyDatabase.ptt) = {}
      /\ Live(EmptyDatabase.sale) = {}
  BY DEF EmptyDatabase, Live
<1>2. EmptyDatabase \in Database
  BY DEF EmptyDatabase, Database
<1> HIDE DEF EmptyDatabase
<1>3. RowsRefer(EmptyDatabase) /\ PttsRefer(EmptyDatabase)
  BY <1>1 DEF RowsRefer, PttsRefer
<1>4. Holds(EmptyDatabase) /\ SumsAgree(EmptyDatabase)
  BY <1>1 DEF Holds, PaymentsWithinItems, SumsAgree
<1>5. \A x : Agree(x, EmptyDatabase) /\ Agree(EmptyDatabase, x)
  BY <1>1 DEF Agree
<1> QED BY <1>1, <1>2, <1>3, <1>4, <1>5

\* Tables whose transactions and payments refer to one another agree with
\* themselves.
LEMMA AgreesWithItself ==
    ASSUME NEW x, RowsRefer(x)
    PROVE  Agree(x, x)
BY DEF Agree, RowsRefer, PttsOf

\* Tables each row of which is one of a or of b.
Merged(a, b, m) ==
    /\ \A p \in PrepaidIds : m.prepaid[p] = a.prepaid[p] \/ m.prepaid[p] = b.prepaid[p]
    /\ \A t \in PttIds : m.ptt[t] = a.ptt[t] \/ m.ptt[t] = b.ptt[t]
    /\ \A s \in SaleIds : m.sale[s] = a.sale[s] \/ m.sale[s] = b.sale[s]

\* Which rows there are, in tables of rows.
LEMMA LiveIn ==
    ASSUME NEW x \in Database
    PROVE  /\ \A p : p \in Live(x.prepaid) <=> p \in PrepaidIds /\ x.prepaid[p] # NoRow
           /\ \A t : t \in Live(x.ptt) <=> t \in PttIds /\ x.ptt[t] # NoRow
           /\ \A s : s \in Live(x.sale) <=> s \in SaleIds /\ x.sale[s] # NoRow
BY DEF Database, Live

\* They agree with what both agree with, and hold what both hold.
LEMMA MergedAgree ==
    ASSUME NEW a \in Database, NEW b \in Database, NEW m \in Database, Merged(a, b, m),
           NEW y \in Database
    PROVE  /\ Agree(a, y) /\ Agree(b, y) => Agree(m, y)
           /\ Agree(y, a) /\ Agree(y, b) => Agree(y, m)
<1>1. ASSUME Agree(a, y), Agree(b, y)
      PROVE  Agree(m, y)
  <2>1. ASSUME NEW p \in Live(m.prepaid), p \in Live(y.prepaid)
        PROVE  m.prepaid[p].type = y.prepaid[p].type
    BY <1>1, <2>1, LiveIn DEF Agree, Merged
  <2>2. ASSUME NEW t \in Live(m.ptt), t \in Live(y.ptt)
        PROVE  m.ptt[t].prepaid = y.ptt[t].prepaid
    BY <1>1, <2>2, LiveIn DEF Agree, Merged
  <2>3. ASSUME NEW s \in Live(m.sale), s \in Live(y.sale)
        PROVE  m.sale[s] = y.sale[s]
    BY <1>1, <2>3, LiveIn DEF Agree, Merged
  <2>4. ASSUME NEW s \in Live(m.sale), NEW t \in PttIds, m.sale[s].drawn[t] > 0,
               t \in Live(y.ptt)
        PROVE  y.ptt[t].prepaid = m.sale[s].prepaid
    BY <1>1, <2>4, LiveIn DEF Agree, Merged
  <2> QED BY <2>1, <2>2, <2>3, <2>4 DEF Agree
<1>2. ASSUME Agree(y, a), Agree(y, b)
      PROVE  Agree(y, m)
  <2>1. ASSUME NEW p \in Live(y.prepaid), p \in Live(m.prepaid)
        PROVE  y.prepaid[p].type = m.prepaid[p].type
    BY <1>2, <2>1, LiveIn DEF Agree, Merged
  <2>2. ASSUME NEW t \in Live(y.ptt), t \in Live(m.ptt)
        PROVE  y.ptt[t].prepaid = m.ptt[t].prepaid
    BY <1>2, <2>2, LiveIn DEF Agree, Merged
  <2>3. ASSUME NEW s \in Live(y.sale), s \in Live(m.sale)
        PROVE  y.sale[s] = m.sale[s]
    BY <1>2, <2>3, LiveIn DEF Agree, Merged
  <2>4. ASSUME NEW s \in Live(y.sale), NEW t \in PttIds, y.sale[s].drawn[t] > 0,
               t \in Live(m.ptt)
        PROVE  m.ptt[t].prepaid = y.sale[s].prepaid
    BY <1>2, <2>4, LiveIn DEF Agree, Merged
  <2> QED BY <2>1, <2>2, <2>3, <2>4 DEF Agree
<1> QED BY <1>1, <1>2

\* They hold what both hold: a row is one of theirs.
LEMMA MergedHolds ==
    ASSUME NEW a \in Database, NEW b \in Database, NEW m \in Database, Merged(a, b, m),
           Holds(a), Holds(b)
    PROVE  Holds(m)
<1>1. ASSUME NEW t \in Live(m.ptt)
      PROVE  m.ptt[t].remain >= 0
  BY LiveIn DEF Holds, Merged
<1>2. ASSUME NEW s \in Live(m.sale)
      PROVE  m.sale[s].due >= 0
  BY LiveIn DEF Holds, Merged
<1>3. ASSUME NEW s \in Live(m.sale), NEW t \in PttIds
      PROVE  m.sale[s].drawn[t] <= m.sale[s].qty
  BY LiveIn DEF Holds, PaymentsWithinItems, Merged
<1> QED BY <1>1, <1>2, <1>3 DEF Holds, PaymentsWithinItems

-----------------------------------------------------------------------------
\* The balance of a prepaid and of one of its transactions, 0 where there is
\* no row.
Balance(x, p) == IF p \in Live(x.prepaid) THEN x.prepaid[p].remain ELSE 0
Initial(x, p) == IF p \in Live(x.prepaid) THEN x.prepaid[p].init ELSE 0

\* The balances of a prepaid are the sums over its transactions, of one that
\* is not there too.
LEMMA BalanceIsSum ==
    ASSUME NEW x \in Database, PttsRefer(x), SumsAgree(x), NEW p \in PrepaidIds
    PROVE  /\ Balance(x, p) = Total(RemainOf(x, p), NPtts)
           /\ Initial(x, p) = Total(InitOf(x, p), NPtts)
<1>1. CASE p \in Live(x.prepaid)
  BY <1>1 DEF Balance, Initial, SumsAgree
<1>2. CASE p \notin Live(x.prepaid)
  <2>1. \A t \in PttIds : t \notin PttsOf(x, p)
    BY <1>2 DEF PttsOf, PttsRefer
  <2>2. \A t \in 1..NPtts : RemainOf(x, p)[t] = 0 /\ InitOf(x, p)[t] = 0
    BY <2>1 DEF RemainOf, InitOf, PttIds
  <2>3. /\ RemainOf(x, p) \in [1..NPtts -> Int] /\ InitOf(x, p) \in [1..NPtts -> Int]
        /\ NPtts \in Nat
    BY ColumnTypes, TablesAssumption DEF PttIds
  <2>4. Total(RemainOf(x, p), NPtts) = 0 /\ Total(InitOf(x, p), NPtts) = 0
    BY <2>2, <2>3, TotalZero
  <2> QED BY <1>2, <2>4 DEF Balance, Initial
<1> QED BY <1>1, <1>2

\* What one request changes in a row no other has written is what is changed
\* in the tables: new is computed on seen, next is old with the rows written.
IsMerge(old, seen, new, next) ==
    /\ \A p \in PrepaidIds :
          \/ next.prepaid[p] = new.prepaid[p] /\ old.prepaid[p] = seen.prepaid[p]
          \/ next.prepaid[p] = old.prepaid[p] /\ new.prepaid[p] = seen.prepaid[p]
    /\ \A t \in PttIds :
          \/ next.ptt[t] = new.ptt[t] /\ old.ptt[t] = seen.ptt[t]
          \/ next.ptt[t] = old.ptt[t] /\ new.ptt[t] = seen.ptt[t]

\* So the sums that agree before agree after.
LEMMA MergeBalanced ==
    ASSUME NEW old \in Database, NEW seen \in Database, NEW new \in Database,
           NEW next \in Database, IsMerge(old, seen, new, next),
           PttsRefer(old), PttsRefer(seen), PttsRefer(new),
           SumsAgree(old), SumsAgree(seen), SumsAgree(new)
    PROVE  SumsAgree(next)
<1> SUFFICES ASSUME NEW p \in Live(next.prepaid)
             PROVE  /\ next.prepaid[p].init = Total(InitOf(next, p), NPtts)
                    /\ next.prepaid[p].remain = Total(RemainOf(next, p), NPtts)
  BY DEF SumsAgree
<1>0. p \in PrepaidIds /\ NPtts \in Nat /\ PttIds = 1..NPtts
  BY LiveIn, TablesAssumption DEF PttIds
<1>1. /\ Balance(next, p) = next.prepaid[p].remain
      /\ Initial(next, p) = next.prepaid[p].init
  BY DEF Balance, Initial
<1>2. \A x \in {old, seen, new, next} : Balance(x, p) \in Int /\ Initial(x, p) \in Int
  BY RowTypes DEF Balance, Initial, PrepaidRow
<1>3. /\ Balance(next, p) = Balance(old, p) + Balance(new, p) - Balance(seen, p)
      /\ Initial(next, p) = Initial(old, p) + Initial(new, p) - Initial(seen, p)
  <2>1. ASSUME NEW x \in {old, seen, new, next}, NEW y \in {old, seen, new, next},
               x.prepaid[p] = y.prepaid[p]
        PROVE  Balance(x, p) = Balance(y, p) /\ Initial(x, p) = Initial(y, p)
    BY <1>0, <2>1, LiveIn DEF Balance, Initial
  <2>2. CASE next.prepaid[p] = new.prepaid[p] /\ old.prepaid[p] = seen.prepaid[p]
    <3>1. /\ Balance(next, p) = Balance(new, p) /\ Balance(old, p) = Balance(seen, p)
          /\ Initial(next, p) = Initial(new, p) /\ Initial(old, p) = Initial(seen, p)
      BY <2>1, <2>2
    <3> QED BY <1>2, <3>1
  <2>3. CASE next.prepaid[p] = old.prepaid[p] /\ new.prepaid[p] = seen.prepaid[p]
    <3>1. /\ Balance(next, p) = Balance(old, p) /\ Balance(new, p) = Balance(seen, p)
          /\ Initial(next, p) = Initial(old, p) /\ Initial(new, p) = Initial(seen, p)
      BY <2>1, <2>3
    <3> QED BY <1>2, <3>1
  <2> QED BY <1>0, <2>2, <2>3 DEF IsMerge
<1>5. \A x \in {old, seen, new, next} :
         RemainOf(x, p) \in [1..NPtts -> Int] /\ InitOf(x, p) \in [1..NPtts -> Int]
  BY <1>0, ColumnTypes
<1>6. \A t \in 1..NPtts :
         /\ RemainOf(next, p)[t] = RemainOf(old, p)[t] - (RemainOf(seen, p)[t] - RemainOf(new, p)[t])
         /\ InitOf(next, p)[t] = InitOf(old, p)[t] - (InitOf(seen, p)[t] - InitOf(new, p)[t])
  <2> TAKE t \in 1..NPtts
  <2>1. ASSUME NEW x \in {old, seen, new, next}, NEW y \in {old, seen, new, next},
               x.ptt[t] = y.ptt[t]
        PROVE  RemainOf(x, p)[t] = RemainOf(y, p)[t] /\ InitOf(x, p)[t] = InitOf(y, p)[t]
    BY <1>0, <2>1, LiveIn DEF RemainOf, InitOf, PttsOf
  <2>2. \A x \in {old, seen, new, next} : RemainOf(x, p)[t] \in Int /\ InitOf(x, p)[t] \in Int
    BY <1>5
  <2>3. CASE next.ptt[t] = new.ptt[t] /\ old.ptt[t] = seen.ptt[t]
    <3>1. /\ RemainOf(next, p)[t] = RemainOf(new, p)[t] /\ InitOf(next, p)[t] = InitOf(new, p)[t]
          /\ RemainOf(old, p)[t] = RemainOf(seen, p)[t] /\ InitOf(old, p)[t] = InitOf(seen, p)[t]
      BY <2>1, <2>3
    <3> QED BY <2>2, <3>1
  <2>4. CASE next.ptt[t] = old.ptt[t] /\ new.ptt[t] = seen.ptt[t]
    <3>1. /\ RemainOf(next, p)[t] = RemainOf(old, p)[t] /\ InitOf(next, p)[t] = InitOf(old, p)[t]
          /\ RemainOf(new, p)[t] = RemainOf(seen, p)[t] /\ InitOf(new, p)[t] = InitOf(seen, p)[t]
      BY <2>1, <2>4
    <3> QED BY <2>2, <3>1
  <2> QED BY <1>0, <2>3, <2>4 DEF IsMerge
<1>8. Total(RemainOf(next, p), NPtts) = Total(RemainOf(old, p), NPtts)
        - (Total(RemainOf(seen, p), NPtts) - Total(RemainOf(new, p), NPtts))
  <2>1. PICK a : a = RemainOf(old, p)
    OBVIOUS
  <2>2. PICK b : b = RemainOf(seen, p)
    OBVIOUS
  <2>3. PICK c : c = RemainOf(new, p)
    OBVIOUS
  <2>4. PICK d : d = RemainOf(next, p)
    OBVIOUS
  <2>5. /\ a \in [1..NPtts -> Int] /\ b \in [1..NPtts -> Int]
        /\ c \in [1..NPtts -> Int] /\ d \in [1..NPtts -> Int]
    BY <1>5, <2>1, <2>2, <2>3, <2>4
  <2>6. PICK e : e = [t \in 1..NPtts |-> b[t] - c[t]]
    OBVIOUS
  <2>7. e \in [1..NPtts -> Int]
    <3>1. \A t \in 1..NPtts : b[t] \in Int /\ c[t] \in Int
      BY <2>5
    <3> QED BY <2>6, <3>1
  <2>8. \A t \in 1..NPtts : e[t] = b[t] - c[t]
    BY <2>6
  <2>9. \A t \in 1..NPtts : d[t] = a[t] - e[t]
    BY <1>6, <2>1, <2>2, <2>3, <2>4, <2>8
  <2>10. NPtts \in Nat
    BY TablesAssumption
  <2>11. Total(e, NPtts) = Total(b, NPtts) - Total(c, NPtts)
    BY <2>5, <2>7, <2>8, <2>10, TotalMinus
  <2>12. Total(d, NPtts) = Total(a, NPtts) - Total(e, NPtts)
    BY <2>5, <2>7, <2>9, <2>10, TotalMinus
  <2> QED BY <2>1, <2>2, <2>3, <2>4, <2>11, <2>12
<1>9. Total(InitOf(next, p), NPtts) = Total(InitOf(old, p), NPtts)
        - (Total(InitOf(seen, p), NPtts) - Total(InitOf(new, p), NPtts))
  <2>1. PICK a : a = InitOf(old, p)
    OBVIOUS
  <2>2. PICK b : b = InitOf(seen, p)
    OBVIOUS
  <2>3. PICK c : c = InitOf(new, p)
    OBVIOUS
  <2>4. PICK d : d = InitOf(next, p)
    OBVIOUS
  <2>5. /\ a \in [1..NPtts -> Int] /\ b \in [1..NPtts -> Int]
        /\ c \in [1..NPtts -> Int] /\ d \in [1..NPtts -> Int]
    BY <1>5, <2>1, <2>2, <2>3, <2>4
  <2>6. PICK e : e = [t \in 1..NPtts |-> b[t] - c[t]]
    OBVIOUS
  <2>7. e \in [1..NPtts -> Int]
    <3>1. \A t \in 1..NPtts : b[t] \in Int /\ c[t] \in Int
      BY <2>5
    <3> QED BY <2>6, <3>1
  <2>8. \A t \in 1..NPtts : e[t] = b[t] - c[t]
    BY <2>6
  <2>9. \A t \in 1..NPtts : d[t] = a[t] - e[t]
    BY <1>6, <2>1, <2>2, <2>3, <2>4, <2>8
  <2>10. NPtts \in Nat
    BY TablesAssumption
  <2>11. Total(e, NPtts) = Total(b, NPtts) - Total(c, NPtts)
    BY <2>5, <2>7, <2>8, <2>10, TotalMinus
  <2>12. Total(d, NPtts) = Total(a, NPtts) - Total(e, NPtts)
    BY <2>5, <2>7, <2>9, <2>10, TotalMinus
  <2> QED BY <2>1, <2>2, <2>3, <2>4, <2>11, <2>12
<1>11. \A x \in {old, seen, new} : /\ Balance(x, p) = Total(RemainOf(x, p), NPtts)
                                   /\ Initial(x, p) = Total(InitOf(x, p), NPtts)
  BY <1>0, BalanceIsSum
<1>12. Total(RemainOf(next, p), NPtts) = Balance(next, p)
  BY <1>2, <1>3, <1>8, <1>11
<1>13. Total(InitOf(next, p), NPtts) = Initial(next, p)
  BY <1>2, <1>3, <1>9, <1>11
<1> QED BY <1>1, <1>12, <1>13

-----------------------------------------------------------------------------
\* Where the copies of the tables are,
LEMMA CopiesAre ==
    /\ db \in Copies
    /\ \A c \in Requests : held[c] \in Copies /\ held[c] \in CopiesOf(c)
    /\ \A c \in Requests : \A w \in Planned(c) : w.db \in Copies /\ w.db \in CopiesOf(c)
    /\ \A x \in Copies : x = db \/ \E c \in Requests : x \in CopiesOf(c)
    /\ \A c \in Requests : \A x \in CopiesOf(c) :
          x \in Copies /\ (x = held[c] \/ \E w \in Planned(c) : x = w.db)
BY DEF Copies, CopiesOf

\* and that all of them are tables of rows.
LEMMA CopiesType ==
    ASSUME TypeOK
    PROVE  /\ \A c \in Requests : \A w \in Planned(c) :
                 /\ w \in Writes /\ w.db \in Database /\ w.granted \in [PttIds -> Int]
                 /\ w.ps \subseteq PrepaidIds /\ w.ts \subseteq PttIds
           /\ \A x \in Copies : x \in Database
<1>1. ASSUME NEW c \in Requests, NEW w \in Planned(c)
      PROVE  w \in Writes
  <2>1. todo[c] \in Seq(Writes)
    BY DEF TypeOK
  <2>2. PICK i \in DOMAIN todo[c] : w = todo[c][i]
    BY DEF Planned
  <2> QED BY <2>1, <2>2
<1>2. ASSUME NEW w \in Writes
      PROVE  /\ w.db \in Database /\ w.granted \in [PttIds -> Int]
             /\ w.ps \subseteq PrepaidIds /\ w.ts \subseteq PttIds
  BY DEF Writes
<1>3. ASSUME NEW x \in Copies
      PROVE  x \in Database
  <2>1. CASE x = db
    BY <2>1 DEF TypeOK
  <2>2. CASE \E c \in Requests : x \in CopiesOf(c)
    <3>1. PICK c \in Requests : x \in CopiesOf(c)
      BY <2>2
    <3>2. CASE x = held[c]
      BY <3>2 DEF TypeOK
    <3>3. CASE \E w \in Planned(c) : x = w.db
      BY <1>1, <1>2, <3>3
    <3> QED BY <3>1, <3>2, <3>3, CopiesAre
  <2> QED BY <2>1, <2>2, CopiesAre
<1> QED BY <1>1, <1>2, <1>3

\* The next id of a table is of no row in any copy.
LEMMA FreshIsNew ==
    ASSUME TypeOK, NEW x \in Copies
    PROVE  /\ \A p \in PrepaidIds : IsFresh("prepaid", p) => p \notin Live(x.prepaid)
           /\ \A t \in PttIds : IsFresh("ptt", t) => t \notin Live(x.ptt)
           /\ \A s \in SaleIds : IsFresh("sale", s) => s \notin Live(x.sale)
<1>1. ASSUME NEW table, NEW i \in DOMAIN db[table], i \in Int, IsFresh(table, i)
      PROVE  ~IsKnown(table, i)
  BY <1>1 DEF IsFresh
<1>2. ASSUME NEW table, NEW i \in Live(x[table])
      PROVE  IsKnown(table, i)
  BY DEF IsKnown, Copies, CopiesOf, Planned
<1>3. /\ db["prepaid"] = db.prepaid /\ db["ptt"] = db.ptt /\ db["sale"] = db.sale
      /\ x["prepaid"] = x.prepaid /\ x["ptt"] = x.ptt /\ x["sale"] = x.sale
  OBVIOUS
<1>4. /\ DOMAIN db.prepaid = PrepaidIds /\ DOMAIN db.ptt = PttIds /\ DOMAIN db.sale = SaleIds
  BY DEF TypeOK, Database
<1>5. PrepaidIds \subseteq Int /\ PttIds \subseteq Int /\ SaleIds \subseteq Int
  BY DEF PrepaidIds, PttIds, SaleIds
<1>6. ASSUME NEW p \in PrepaidIds, IsFresh("prepaid", p)
      PROVE  p \notin Live(x.prepaid)
  BY <1>1, <1>2, <1>3, <1>4, <1>5, <1>6
<1>7. ASSUME NEW t \in PttIds, IsFresh("ptt", t)
      PROVE  t \notin Live(x.ptt)
  BY <1>1, <1>2, <1>3, <1>4, <1>5, <1>7
<1>8. ASSUME NEW s \in SaleIds, IsFresh("sale", s)
      PROVE  s \notin Live(x.sale)
  BY <1>1, <1>2, <1>3, <1>4, <1>5, <1>8
<1> QED BY <1>6, <1>7, <1>8

\* What a payment in any copy redeems is a row of some copy.
LEMMA PaidIsKnown ==
    ASSUME TypeOK, Shape, Chain, References, NEW x \in Copies, NEW s \in Live(x.sale),
           NEW t \in PttIds, x.sale[s].drawn[t] > 0
    PROVE  \E y \in Copies : t \in Live(y.ptt)
<1>1. CASE x = db
  BY <1>1, CopiesAre DEF References, RowsRefer, PttsOf
<1>2. ASSUME NEW c \in Requests, x = held[c]
      PROVE  t \in Live(x.ptt)
  BY <1>2 DEF References, RowsRefer, PttsOf
<1>3. ASSUME NEW c \in Requests, NEW i \in DOMAIN todo[c], x = todo[c][i].db
      PROVE  \E y \in Copies : t \in Live(y.ptt)
  <2>1. todo[c] \in Seq(Writes) /\ todo[c] # <<>> /\ Len(todo[c]) <= 2
    BY <1>3 DEF TypeOK, Shape
  <2>2. i = 1 \/ (i = 2 /\ Len(todo[c]) = 2)
    <3>1. Len(todo[c]) \in Nat /\ DOMAIN todo[c] = 1..Len(todo[c])
      BY <2>1
    <3>2. i \in 1..Len(todo[c])
      BY <1>3, <3>1
    <3>3. Len(todo[c]) <= 2
      BY <2>1
    <3>4. PICK n \in Nat : n = Len(todo[c])
      BY <3>1
    <3>5. n <= 2 /\ i \in 1..n
      BY <3>2, <3>3, <3>4
    <3>6. i = 1 \/ (i = 2 /\ n = 2)
      BY <3>5
    <3> QED BY <3>4, <3>6
  <2>3. CASE i = 1
    <3>1. PaymentsFrom(held[c], x)
      BY <1>3, <2>1, <2>3 DEF Chain, Kept
    <3>2. t \in Live(held[c].ptt)
      BY <3>1 DEF PaymentsFrom, PttsOf
    <3> QED BY <3>2, CopiesAre
  <2>4. CASE i = 2 /\ Len(todo[c]) = 2
    <3>1. PaymentsFrom(todo[c][1].db, x)
      BY <1>3, <2>1, <2>4 DEF Chain, Kept
    <3>2. t \in Live(todo[c][1].db.ptt)
      BY <3>1 DEF PaymentsFrom, PttsOf
    <3>3. todo[c][1] \in Planned(c)
      BY <2>1 DEF Planned
    <3> QED BY <3>2, <3>3, CopiesAre
  <2> QED BY <2>2, <2>3, <2>4
<1> QED BY <1>1, <1>2, <1>3 DEF Copies, CopiesOf, Planned

-----------------------------------------------------------------------------
\* What a request plans to write: computed on what is stored, by one of the
\* service methods.
AddsNew(x) ==
    \A y \in Copies :
        /\ \A p \in Live(x.prepaid) : p \in Live(y.prepaid) => p \in Live(db.prepaid)
        /\ \A t \in Live(x.ptt) : t \in Live(y.ptt) => t \in Live(db.ptt)
        /\ \A s \in Live(x.sale) : s \in Live(y.sale) => s \in Live(db.sale)

IsPlan(w) ==
    /\ w \in Writes
    /\ Kept(db, w.db)
    /\ AddsNew(w.db)
    /\ Holds(w.db)
    /\ CashAdds(db, granted) => CashAdds(w.db, w.granted)

ArePlans(writes) ==
    /\ writes \in Seq(Writes) /\ writes # <<>> /\ Len(writes) <= 2
    /\ \A i \in DOMAIN writes : IsPlan(writes[i])
    /\ Len(writes) = 2 =>
          /\ Kept(writes[1].db, writes[2].db)
          /\ RowsRefer(writes[1].db)
          /\ writes[1].db.sale = db.sale /\ writes[2].db.sale = db.sale

\* What a request computes from the stored tables agrees with every copy, as
\* the stored tables do: the rows it adds are in no other copy,
LEMMA PlanAgrees ==
    ASSUME SInv, NEW w, IsPlan(w), NEW y \in Copies
    PROVE  Agree(w.db, y) /\ Agree(y, w.db)
<1> DEFINE x == w.db
<1>1. /\ SameRows(db, x) /\ PaymentsFrom(db, x) /\ x \in Database
      /\ \A p \in Live(x.prepaid) : p \in Live(y.prepaid) => p \in Live(db.prepaid)
      /\ \A t \in Live(x.ptt) : t \in Live(y.ptt) => t \in Live(db.ptt)
      /\ \A s \in Live(x.sale) : s \in Live(y.sale) => s \in Live(db.sale)
  BY DEF IsPlan, Kept, AddsNew
<1>2. Agree(db, y) /\ Agree(y, db)
  BY CopiesAre DEF SInv, Agreement
<1>3. ASSUME NEW p \in Live(x.prepaid), p \in Live(y.prepaid)
      PROVE  x.prepaid[p].type = y.prepaid[p].type
  BY <1>1, <1>2, <1>3 DEF SameRows, Agree
<1>4. ASSUME NEW t \in Live(x.ptt), t \in Live(y.ptt)
      PROVE  x.ptt[t].prepaid = y.ptt[t].prepaid
  BY <1>1, <1>2, <1>4 DEF SameRows, Agree
<1>5. ASSUME NEW s \in Live(x.sale), s \in Live(y.sale)
      PROVE  x.sale[s] = y.sale[s]
  BY <1>1, <1>2, <1>5 DEF SameRows, Agree
<1>6. ASSUME NEW s \in Live(x.sale), NEW t \in PttIds, x.sale[s].drawn[t] > 0,
             t \in Live(y.ptt)
      PROVE  y.ptt[t].prepaid = x.sale[s].prepaid
  <2>1. t \in Live(db.ptt) /\ db.ptt[t].prepaid = x.sale[s].prepaid
    BY <1>1, <1>6 DEF PaymentsFrom, PttsOf
  <2> QED BY <1>2, <1>6, <2>1 DEF Agree
<1>7. ASSUME NEW s \in Live(y.sale), NEW t \in PttIds, y.sale[s].drawn[t] > 0,
             t \in Live(x.ptt)
      PROVE  x.ptt[t].prepaid = y.sale[s].prepaid
  <2>1. PICK z \in Copies : t \in Live(z.ptt)
    BY <1>7, PaidIsKnown DEF SInv
  <2>2. t \in Live(db.ptt)
    BY <1>7, <2>1 DEF IsPlan, AddsNew
  <2>3. db.ptt[t].prepaid = y.sale[s].prepaid
    BY <1>2, <1>7, <2>2 DEF Agree
  <2> QED BY <1>1, <1>7, <2>2, <2>3 DEF SameRows
<1> HIDE DEF x
<1>8. Agree(x, y)
  BY <1>3, <1>4, <1>5, <1>6 DEF Agree
<1>9. Agree(y, x)
  BY <1>3, <1>4, <1>5, <1>7 DEF Agree
<1> QED BY <1>8, <1>9 DEF x

\* and with what it computed just before.
LEMMA PlansAgree ==
    ASSUME NEW v, IsPlan(v), NEW w, IsPlan(w),
           v = w \/ SameRows(v.db, w.db) \/ SameRows(w.db, v.db)
    PROVE  Agree(v.db, w.db)
<1>1. PICK x : x = v.db
  OBVIOUS
<1>2. PICK y : y = w.db
  OBVIOUS
<1>3. /\ SameRows(db, x) /\ PaymentsFrom(db, x) /\ SameRows(db, y)
      /\ x = y \/ SameRows(x, y) \/ SameRows(y, x)
  BY <1>1, <1>2 DEF IsPlan, Kept
<1>4. ASSUME NEW p \in Live(x.prepaid), p \in Live(y.prepaid)
      PROVE  x.prepaid[p].type = y.prepaid[p].type
  BY <1>3, <1>4 DEF SameRows
<1>5. ASSUME NEW t \in Live(x.ptt), t \in Live(y.ptt)
      PROVE  x.ptt[t].prepaid = y.ptt[t].prepaid
  BY <1>3, <1>5 DEF SameRows
<1>6. ASSUME NEW s \in Live(x.sale), s \in Live(y.sale)
      PROVE  x.sale[s] = y.sale[s]
  BY <1>3, <1>6 DEF SameRows
<1>7. ASSUME NEW s \in Live(x.sale), NEW t \in PttIds, x.sale[s].drawn[t] > 0,
             t \in Live(y.ptt)
      PROVE  y.ptt[t].prepaid = x.sale[s].prepaid
  <2>1. t \in Live(db.ptt) /\ db.ptt[t].prepaid = x.sale[s].prepaid
    BY <1>3, <1>7 DEF PaymentsFrom, PttsOf
  <2> QED BY <1>3, <1>7, <2>1 DEF SameRows
<1>8. Agree(x, y)
  BY <1>4, <1>5, <1>6, <1>7 DEF Agree
<1> QED BY <1>1, <1>2, <1>8

-----------------------------------------------------------------------------
\* A request that has read and computed leaves everything as it should be.
LEMMA BeginKeeps ==
    ASSUME SInv, NEW c \in Requests, NEW writes, ArePlans(writes), Begin(c, writes)
    PROVE  SInv'
<1>1. /\ phase[c] = "waiting" /\ phase' = [phase EXCEPT ![c] = "running"]
      /\ held' = [held EXCEPT ![c] = db] /\ todo' = [todo EXCEPT ![c] = writes]
      /\ db' = db /\ granted' = granted /\ stale' = stale /\ overwrote' = overwrote
      /\ torn' = torn /\ refunds' = refunds
  BY DEF Begin
<1>2. TypeOK /\ Shape /\ Chain /\ EachCopy /\ Agreement /\ References /\ Owned /\ FreshRows
      /\ Refunded /\ (~overwrote => BalancesRight)
  BY DEF SInv
<1>3. /\ writes \in Seq(Writes) /\ writes # <<>> /\ Len(writes) <= 2
      /\ \A i \in DOMAIN writes : IsPlan(writes[i])
  BY DEF ArePlans
<1>4. /\ held \in [Requests -> Database] /\ todo \in [Requests -> Seq(Writes)]
      /\ phase \in [Requests -> {"waiting", "running", "half", "over"}] /\ db \in Database
  BY <1>2 DEF TypeOK
<1>5. /\ held'[c] = db /\ todo'[c] = writes /\ phase'[c] = "running"
      /\ \A r \in Requests \ {c} :
            held'[r] = held[r] /\ todo'[r] = todo[r] /\ phase'[r] = phase[r]
  BY <1>1, <1>4
<1>6. /\ Planned(c)' = {writes[i] : i \in DOMAIN writes}
      /\ \A r \in Requests \ {c} : Planned(r)' = Planned(r)
  BY <1>5 DEF Planned
<1>7. /\ CopiesOf(c)' = {db} \union {w.db : w \in Planned(c)'}
      /\ \A r \in Requests \ {c} : CopiesOf(r)' = CopiesOf(r)
  BY <1>5, <1>6 DEF CopiesOf
<1>8. /\ \A w \in Planned(c)' : IsPlan(w)
      /\ \A x \in CopiesOf(c)' : x = db \/ \E w \in Planned(c)' : x = w.db
  BY <1>3, <1>6, <1>7
<1>9. \A x \in Copies' : x \in Copies \/ \E w \in Planned(c)' : x = w.db
  <2> TAKE x \in Copies'
  <2>1. x = db \/ \E r \in Requests : x \in CopiesOf(r)'
    BY <1>1 DEF Copies
  <2>2. ASSUME NEW r \in Requests, x \in CopiesOf(r)'
        PROVE  x \in Copies \/ \E w \in Planned(c)' : x = w.db
    <3>1. CASE r = c
      BY <1>8, <2>2, <3>1, CopiesAre
    <3>2. CASE r # c
      BY <1>7, <2>2, <3>2, CopiesAre
    <3> QED BY <3>1, <3>2
  <2> QED BY <2>1, <2>2, CopiesAre
<1>10. TypeOK'
  <2>1. /\ held' \in [Requests -> Database] /\ todo' \in [Requests -> Seq(Writes)]
        /\ phase' \in [Requests -> {"waiting", "running", "half", "over"}]
    BY <1>1, <1>3, <1>4
  <2> QED BY <1>1, <1>2, <2>1 DEF TypeOK
<1>11. Shape'
  <2>1. ASSUME NEW r \in Requests
        PROVE  /\ todo'[r] = <<>> <=> phase'[r] \in {"waiting", "over"}
               /\ todo'[r] = <<>> => held'[r] = EmptyDatabase /\ stale'[r] = {}
               /\ Len(todo'[r]) <= 2
               /\ phase'[r] = "half" => Len(todo'[r]) = 1
    <3>1. CASE r = c
      BY <1>3, <1>5, <3>1
    <3>2. CASE r # c
      BY <1>1, <1>2, <1>5, <3>2 DEF Shape
    <3> QED BY <3>1, <3>2
  <2> QED BY <2>1 DEF Shape
<1>12. Chain'
  <2>1. ASSUME NEW r \in Requests, todo'[r] # <<>>
        PROVE  /\ Kept(held'[r], todo'[r][1].db)
               /\ Len(todo'[r]) = 2 =>
                     /\ Kept(todo'[r][1].db, todo'[r][2].db)
                     /\ RowsRefer(todo'[r][1].db)
                     /\ todo'[r][1].db.sale = held'[r].sale
                     /\ todo'[r][2].db.sale = held'[r].sale
    <3>1. CASE r = c
      <4>1. IsPlan(writes[1])
        BY <1>3
      <4> QED BY <1>5, <3>1, <4>1 DEF ArePlans, IsPlan
    <3>2. CASE r # c
      BY <1>2, <1>5, <2>1, <3>2 DEF Chain
    <3> QED BY <3>1, <3>2
  <2> QED BY <2>1 DEF Chain
<1>13. \A w \in Planned(c)' : /\ w.db \in Database /\ PttsRefer(w.db) /\ Holds(w.db)
                              /\ SumsAgree(db) => SumsAgree(w.db)
                              /\ CashAdds(db, granted) => CashAdds(w.db, w.granted)
                              /\ AddsNew(w.db)
  BY <1>8 DEF IsPlan, Kept
<1>14. EachCopy'
  <2>1. \A x \in Copies' : PttsRefer(x) /\ Holds(x)
    BY <1>2, <1>9, <1>13 DEF EachCopy
  <2> QED BY <2>1 DEF EachCopy
<1>15. Agreement'
  <2>1. ASSUME NEW w \in Planned(c)', NEW y \in Copies
        PROVE  Agree(w.db, y) /\ Agree(y, w.db)
    BY <1>8, PlanAgrees
  <2>2. ASSUME NEW v \in Planned(c)', NEW w \in Planned(c)'
        PROVE  Agree(v.db, w.db)
    <3>1. v = w \/ SameRows(v.db, w.db) \/ SameRows(w.db, v.db)
      <4>1. PICK i \in DOMAIN writes, j \in DOMAIN writes : v = writes[i] /\ w = writes[j]
        BY <1>6
      <4>2. Len(writes) \in Nat /\ DOMAIN writes = 1..Len(writes)
        BY <1>3
      <4>3. i = j \/ (Len(writes) = 2 /\ i \in {1, 2} /\ j \in {1, 2})
        BY <1>3, <4>2
      <4>4. Len(writes) = 2 => SameRows(writes[1].db, writes[2].db)
        BY DEF ArePlans, Kept
      <4> QED BY <4>1, <4>3, <4>4
    <3> QED BY <1>8, <3>1, PlansAgree
  <2>3. ASSUME NEW x \in Copies', NEW y \in Copies'
        PROVE  Agree(x, y)
    BY <1>2, <1>9, <2>1, <2>2 DEF Agreement
  <2>4. Agreement' <=> \A x \in Copies', y \in Copies' : Agree(x, y)
    BY DEF Agreement
  <2> QED BY <2>3, <2>4
<1>16. References'
  <2>1. ASSUME NEW r \in Requests
        PROVE  RowsRefer(held'[r])
    BY <1>2, <1>5 DEF References
  <2> QED BY <1>1, <1>2, <2>1 DEF References
<1>17. Owned'
  <2>1. ASSUME NEW r \in Requests, NEW w \in Planned(r)', NEW s \in Live(w.db.sale),
               s \notin Live(held'[r].sale)
        PROVE  /\ s \notin Live(db.sale)
               /\ \A q \in Requests \ {r} : \A x \in CopiesOf(q)' : s \notin Live(x.sale)
    <3>1. CASE r = c
      <4>1. s \notin Live(db.sale)
        BY <1>5, <2>1, <3>1
      <4>2. \A x \in Copies : s \notin Live(x.sale)
        BY <1>13, <2>1, <3>1, <4>1 DEF AddsNew
      <4> QED BY <1>7, <3>1, <4>1, <4>2, CopiesAre
    <3>2. CASE r # c
      <4>1. w \in Planned(r) /\ s \notin Live(held[r].sale) /\ w.db \in Copies
        BY <1>5, <1>6, <2>1, <3>2, CopiesAre
      <4>2. /\ s \notin Live(db.sale)
            /\ \A q \in Requests \ {r} : \A x \in CopiesOf(q) : s \notin Live(x.sale)
        BY <1>2, <2>1, <4>1 DEF Owned
      <4>3. ASSUME NEW v \in Planned(c)'
            PROVE  s \notin Live(v.db.sale)
        BY <1>13, <2>1, <4>1, <4>2 DEF AddsNew
      <4>4. ASSUME NEW q \in Requests \ {r}, NEW x \in CopiesOf(q)'
            PROVE  s \notin Live(x.sale)
        <5>1. CASE q = c
          BY <1>8, <4>2, <4>3, <5>1
        <5>2. CASE q # c
          BY <1>7, <4>2, <5>2
        <5> QED BY <5>1, <5>2
      <4> QED BY <4>2, <4>4
    <3> QED BY <3>1, <3>2
  <2> QED BY <1>1, <2>1 DEF Owned
<1>18. FreshRows'
  <2>1. ASSUME NEW r \in Requests, todo'[r] # <<>>
        PROVE  /\ \A p \in PrepaidIds :
                     <<"prepaid", p>> \notin stale'[r] => db'.prepaid[p] = held'[r].prepaid[p]
               /\ \A t \in PttIds :
                     <<"ptt", t>> \notin stale'[r] => db'.ptt[t] = held'[r].ptt[t]
    <3>1. CASE r = c
      BY <1>1, <1>5, <3>1
    <3>2. CASE r # c
      BY <1>1, <1>2, <1>5, <2>1, <3>2 DEF FreshRows
    <3> QED BY <3>1, <3>2
  <2> QED BY <2>1 DEF FreshRows
<1>19. Refunded'
  BY <1>1, <1>2 DEF Refunded
<1>20. ASSUME ~overwrote'
       PROVE  BalancesRight'
  <2>1. BalancesRight
    BY <1>1, <1>2, <1>20
  <2>2. SumsAgree(db) /\ CashAdds(db, granted)
    BY <2>1, CopiesAre DEF BalancesRight
  <2>3. \A x \in Copies' : SumsAgree(x)
    BY <1>9, <1>13, <2>1, <2>2 DEF BalancesRight
  <2>4. ASSUME NEW r \in Requests, NEW w \in Planned(r)'
        PROVE  CashAdds(w.db, w.granted)
    BY <1>6, <1>13, <2>1, <2>2 DEF BalancesRight
  <2>5. FreshDraws'
    <3>1. ASSUME NEW r \in Requests, todo'[r] # <<>>, NEW t \in PttIds,
                 <<"ptt", t>> \notin stale'[r]
          PROVE  DrawnOn(db', t) = DrawnOn(held'[r], t)
      BY <1>1, <1>5, <2>1, <3>1 DEF BalancesRight, FreshDraws
    <3> QED BY <3>1 DEF FreshDraws
  <2>6. BalancesRight' <=> /\ \A x \in Copies' : SumsAgree(x)
                           /\ CashAdds(db', granted')
                           /\ \A r \in Requests : \A w \in Planned(r)' : CashAdds(w.db, w.granted)
                           /\ FreshDraws'
    BY DEF BalancesRight
  <2> QED BY <1>1, <2>2, <2>3, <2>4, <2>5, <2>6
<1> QED BY <1>10, <1>11, <1>12, <1>14, <1>15, <1>16, <1>17, <1>18, <1>19, <1>20 DEF SInv

-----------------------------------------------------------------------------
\* What a commit writes of the row of s, and of a prepaid or a transaction
\* nobody has written since, is a change to what is stored.
LEMMA WritesWhatItHeld ==
    ASSUME SInv, NEW c \in Requests, todo[c] # <<>>, RowsPresent(c),
           NEW w, w = Head(todo[c])
    PROVE  /\ \A s \in SaleIds : w.db.sale[s] # held[c].sale[s] => db.sale[s] = held[c].sale[s]
           /\ \A p \in PrepaidIds : <<"prepaid", p>> \notin stale[c] =>
                 db.prepaid[p] = held[c].prepaid[p]
           /\ \A t \in PttIds : <<"ptt", t>> \notin stale[c] => db.ptt[t] = held[c].ptt[t]
<1>1. /\ TypeOK /\ Agreement /\ Owned /\ FreshRows
  BY DEF SInv
<1>2. todo[c] \in Seq(Writes) /\ w = todo[c][1] /\ 1 \in DOMAIN todo[c]
  BY <1>1 DEF TypeOK
<1>3. w \in Planned(c) /\ w \in Writes /\ w.db \in Database /\ held[c] \in Database
      /\ db \in Database
  BY <1>1, <1>2, CopiesType DEF Planned, TypeOK
<1>4. ASSUME NEW s \in SaleIds, w.db.sale[s] # held[c].sale[s]
      PROVE  db.sale[s] = held[c].sale[s]
  <2>1. CASE s \in Live(held[c].sale)
    <3>1. s \in Live(db.sale)
      BY <1>4, <2>1 DEF RowsPresent, WrittenSales
    <3>2. Agree(held[c], db)
      BY <1>1, CopiesAre DEF Agreement
    <3> QED BY <2>1, <3>1, <3>2 DEF Agree
  <2>2. CASE s \notin Live(held[c].sale)
    <3>1. held[c].sale[s] = NoRow /\ w.db.sale[s] # NoRow
      BY <1>3, <1>4, <2>2, LiveIn
    <3>2. s \in Live(w.db.sale)
      BY <1>3, <3>1, LiveIn
    <3>3. s \notin Live(db.sale)
      BY <1>1, <1>3, <2>2, <3>2 DEF Owned
    <3> QED BY <1>3, <3>1, <3>3, LiveIn
  <2> QED BY <2>1, <2>2
<1> QED BY <1>1, <1>4 DEF FreshRows

\* A row of it is the one written, or the one stored, which the request has
\* left as it read it.
LEMMA CommitRows ==
    ASSUME TypeOK, NEW c \in Requests, todo[c] # <<>>, NEW w, w = Head(todo[c]), Commit(c)
    PROVE  /\ w \in Planned(c) /\ w.db \in Database /\ w.granted \in [PttIds -> Int]
           /\ db \in Database /\ held[c] \in Database /\ db' \in Database
           /\ Merged(db, w.db, db')
           /\ \A p \in PrepaidIds :
                 IF p \in WrittenPrepaids(c) THEN db'.prepaid[p] = w.db.prepaid[p]
                 ELSE /\ db'.prepaid[p] = db.prepaid[p]
                      /\ w.db.prepaid[p] = held[c].prepaid[p]
           /\ \A t \in PttIds :
                 IF t \in WrittenPtts(c)
                 THEN db'.ptt[t] = w.db.ptt[t] /\ granted'[t] = w.granted[t]
                 ELSE /\ db'.ptt[t] = db.ptt[t] /\ granted'[t] = granted[t]
                      /\ w.db.ptt[t] = held[c].ptt[t]
           /\ \A s \in SaleIds :
                 IF w.db.sale[s] # held[c].sale[s] THEN db'.sale[s] = w.db.sale[s]
                 ELSE db'.sale[s] = db.sale[s]
           /\ granted' \in [PttIds -> Int]
<1>1. todo[c] \in Seq(Writes) /\ w = todo[c][1] /\ 1 \in DOMAIN todo[c]
  BY DEF TypeOK
<1>2. w \in Planned(c) /\ w.db \in Database /\ held[c] \in Database /\ db \in Database
      /\ w.granted \in [PttIds -> Int] /\ granted \in [PttIds -> Int]
  BY <1>1, CopiesType DEF Planned, TypeOK
<1>3. /\ \A p \in PrepaidIds : p \notin WrittenPrepaids(c) => w.db.prepaid[p] = held[c].prepaid[p]
      /\ \A t \in PttIds : t \notin WrittenPtts(c) => w.db.ptt[t] = held[c].ptt[t]
      /\ \A s \in SaleIds : s \in WrittenSales(c) <=> w.db.sale[s] # held[c].sale[s]
  BY DEF WrittenPrepaids, WrittenPtts, WrittenSales
<1>4. db' = [prepaid |-> [p \in PrepaidIds |->
                             IF p \in WrittenPrepaids(c) THEN w.db.prepaid[p] ELSE db.prepaid[p]],
             ptt     |-> [t \in PttIds |->
                             IF t \in WrittenPtts(c) THEN w.db.ptt[t] ELSE db.ptt[t]],
             sale    |-> [s \in SaleIds |->
                             IF s \in WrittenSales(c) THEN w.db.sale[s] ELSE db.sale[s]]]
  BY DEF Commit
<1>5. granted' = [t \in PttIds |-> IF t \in WrittenPtts(c) THEN w.granted[t] ELSE granted[t]]
  BY DEF Commit
<1>6. /\ \A p \in PrepaidIds : db'.prepaid[p] =
            IF p \in WrittenPrepaids(c) THEN w.db.prepaid[p] ELSE db.prepaid[p]
      /\ \A t \in PttIds : db'.ptt[t] =
            IF t \in WrittenPtts(c) THEN w.db.ptt[t] ELSE db.ptt[t]
      /\ \A s \in SaleIds : db'.sale[s] =
            IF s \in WrittenSales(c) THEN w.db.sale[s] ELSE db.sale[s]
  BY <1>4
<1>7. db' \in Database
  <2>1. /\ [p \in PrepaidIds |-> IF p \in WrittenPrepaids(c) THEN w.db.prepaid[p]
                                 ELSE db.prepaid[p]] \in [PrepaidIds -> PrepaidRow \union {NoRow}]
        /\ [t \in PttIds |-> IF t \in WrittenPtts(c) THEN w.db.ptt[t] ELSE db.ptt[t]]
              \in [PttIds -> PttRow \union {NoRow}]
        /\ [s \in SaleIds |-> IF s \in WrittenSales(c) THEN w.db.sale[s] ELSE db.sale[s]]
              \in [SaleIds -> SaleRow \union {NoRow}]
    BY <1>2, RowTypes
  <2> QED BY <1>4, <2>1 DEF Database
<1>8. Merged(db, w.db, db')
  BY <1>6 DEF Merged
<1>9. granted' \in [PttIds -> Int] /\ \A t \in PttIds :
         granted'[t] = IF t \in WrittenPtts(c) THEN w.granted[t] ELSE granted[t]
  BY <1>2, <1>5
<1> QED BY <1>2, <1>3, <1>6, <1>7, <1>8, <1>9

\* Payments made or refunded while the request ran are to transactions whose
\* rows it has not in its session as they are stored: what it says of the
\* others is what is stored.
LEMMA CommitDraws ==
    ASSUME SInv, ~overwrote, NEW c \in Requests, todo[c] # <<>>, NEW w, w = Head(todo[c]),
           Commit(c), NEW t \in PttIds
    PROVE  /\ t \notin WrittenPtts(c) => DrawnOn(db', t) = DrawnOn(db, t)
           /\ <<"ptt", t>> \notin stale[c] => DrawnOn(db', t) = DrawnOn(w.db, t)
<1>1. TypeOK /\ Chain /\ BalancesRight
  BY DEF SInv
<1>2. /\ w \in Planned(c) /\ w.db \in Database /\ db \in Database /\ held[c] \in Database
      /\ db' \in Database
      /\ \A s \in SaleIds : IF w.db.sale[s] # held[c].sale[s] THEN db'.sale[s] = w.db.sale[s]
                            ELSE db'.sale[s] = db.sale[s]
      /\ t \notin WrittenPtts(c) => w.db.ptt[t] = held[c].ptt[t]
  BY <1>1, CommitRows
<1>3. \A s \in SaleIds : w.db.sale[s] # held[c].sale[s] => db.sale[s] = held[c].sale[s]
  <2>1. RowsPresent(c)
    BY DEF Commit
  <2> QED BY <2>1, WritesWhatItHeld
<1>4. RowsTell(held[c], w.db)
  <2>1. todo[c] \in Seq(Writes) /\ w = todo[c][1]
    BY <1>1 DEF TypeOK
  <2> QED BY <1>1, <2>1 DEF Chain, Kept
<1>5. \A x \in {db, db', held[c], w.db} :
         /\ DOMAIN DrawnOn(x, t) = SaleIds
         /\ \A s \in SaleIds : DrawnOn(x, t)[s] =
               IF x.sale[s] # NoRow THEN x.sale[s].drawn[t] ELSE 0
  BY <1>2, LiveIn DEF DrawnOn
<1>6. ASSUME t \notin WrittenPtts(c)
      PROVE  DrawnOn(db', t) = DrawnOn(db, t)
  <2>1. DrawnOn(w.db, t) = DrawnOn(held[c], t)
    BY <1>2, <1>4, <1>6 DEF RowsTell
  <2>2. ASSUME NEW s \in SaleIds
        PROVE  DrawnOn(db', t)[s] = DrawnOn(db, t)[s]
    <3>1. CASE w.db.sale[s] # held[c].sale[s]
      <4>1. db'.sale[s] = w.db.sale[s] /\ db.sale[s] = held[c].sale[s]
        BY <1>2, <1>3, <3>1
      <4>2. DrawnOn(db', t)[s] = DrawnOn(w.db, t)[s]
        BY <1>5, <4>1
      <4>3. DrawnOn(db, t)[s] = DrawnOn(held[c], t)[s]
        BY <1>5, <4>1
      <4> QED BY <2>1, <4>2, <4>3
    <3>2. CASE w.db.sale[s] = held[c].sale[s]
      <4>1. db'.sale[s] = db.sale[s]
        BY <1>2, <3>2
      <4> QED BY <1>5, <4>1
    <3> QED BY <3>1, <3>2
  <2> QED BY <1>5, <2>2 DEF DrawnOn
<1>7. ASSUME <<"ptt", t>> \notin stale[c]
      PROVE  DrawnOn(db', t) = DrawnOn(w.db, t)
  <2>1. DrawnOn(db, t) = DrawnOn(held[c], t)
    BY <1>1, <1>7 DEF BalancesRight, FreshDraws
  <2>2. ASSUME NEW s \in SaleIds
        PROVE  DrawnOn(db', t)[s] = DrawnOn(w.db, t)[s]
    <3>1. CASE w.db.sale[s] # held[c].sale[s]
      <4>1. db'.sale[s] = w.db.sale[s]
        BY <1>2, <3>1
      <4> QED BY <1>5, <4>1
    <3>2. CASE w.db.sale[s] = held[c].sale[s]
      <4>1. db'.sale[s] = db.sale[s]
        BY <1>2, <3>2
      <4>2. DrawnOn(db', t)[s] = DrawnOn(db, t)[s]
        BY <1>5, <4>1
      <4>3. DrawnOn(w.db, t)[s] = DrawnOn(held[c], t)[s]
        BY <1>5, <3>2
      <4> QED BY <2>1, <4>2, <4>3
    <3> QED BY <3>1, <3>2
  <2> QED BY <1>5, <2>2 DEF DrawnOn
<1> QED BY <1>6, <1>7

-----------------------------------------------------------------------------
\* A queue of two commits, and what is left after the first.
LEMMA TwoToMake ==
    ASSUME NEW S, NEW q \in Seq(S), Len(q) = 2
    PROVE  /\ q[1] \in S /\ q[2] \in S /\ 1 \in DOMAIN q /\ 2 \in DOMAIN q
           /\ Tail(q) \in Seq(S) /\ Len(Tail(q)) = 1 /\ DOMAIN Tail(q) = {1}
           /\ Tail(q)[1] = q[2] /\ Tail(q) # <<>>
<1>1. q \in [1..2 -> S] /\ DOMAIN q = 1..2
  BY LenProperties
<1>2. q[1] \in S /\ q[2] \in S /\ 1 \in DOMAIN q /\ 2 \in DOMAIN q
  BY <1>1
<1>3. q # <<>>
  OBVIOUS
<1>4. PICK t : t = Tail(q)
  OBVIOUS
<1>5. /\ t \in Seq(S) /\ Len(t) = Len(q) - 1
      /\ \A i \in 1 .. Len(t) : t[i] = q[i+1]
  BY <1>3, <1>4, HeadTailProperties
<1>6. Len(t) = 1
  BY <1>5
<1>7. t[1] = q[2]
  BY <1>5, <1>6
<1>8. DOMAIN t = 1..1
  BY <1>5, <1>6, LenProperties
<1>9. t # <<>>
  BY <1>6
<1> QED BY <1>2, <1>4, <1>5, <1>6, <1>7, <1>8, <1>9

\* A request has one or two commits to make until it is over.
LEMMA OneOrTwo ==
    ASSUME NEW S, NEW q \in Seq(S), q # <<>>, Len(q) <= 2
    PROVE  (Len(q) = 1 \/ Len(q) = 2) /\ 1 \in DOMAIN q /\ q[1] \in S
<1>1. Len(q) \in Nat /\ Len(q) # 0 /\ q \in [1..Len(q) -> S]
  BY LenProperties, EmptySeq
<1>2. PICK n \in Nat : n = Len(q)
  BY <1>1
<1>3. n = 1 \/ n = 2
  BY <1>1, <1>2
<1>4. 1 \in 1..n
  BY <1>3
<1> QED BY <1>1, <1>2, <1>3, <1>4

\* What a step that ends a request or half of it leaves of the copies.
LEMMA FewerCopies ==
    ASSUME TypeOK, NEW c \in Requests, todo[c] # <<>>,
           \/ held' = [held EXCEPT ![c] = EmptyDatabase] /\ todo' = [todo EXCEPT ![c] = <<>>]
           \/ /\ Len(todo[c]) = 2
              /\ held' = [held EXCEPT ![c] = Head(todo[c]).db]
              /\ todo' = [todo EXCEPT ![c] = Tail(@)]
    PROVE  /\ \A r \in Requests : Planned(r)' \subseteq Planned(r)
           /\ \A r \in Requests : \A x \in CopiesOf(r)' :
                 x = EmptyDatabase \/ x \in CopiesOf(r)
           /\ \A x \in Copies' : x = db' \/ x = EmptyDatabase \/ x \in Copies
<1>1. /\ held \in [Requests -> Database] /\ todo \in [Requests -> Seq(Writes)]
      /\ todo[c] \in Seq(Writes)
  BY DEF TypeOK
<1>2. \A r \in Requests \ {c} : held'[r] = held[r] /\ todo'[r] = todo[r]
  BY <1>1
<1>3. /\ \A i \in DOMAIN todo'[c] : todo'[c][i] \in Planned(c)
      /\ held'[c] = EmptyDatabase \/ held'[c] \in CopiesOf(c)
  <2>1. CASE held' = [held EXCEPT ![c] = EmptyDatabase] /\ todo' = [todo EXCEPT ![c] = <<>>]
    BY <1>1, <2>1
  <2>2. CASE /\ Len(todo[c]) = 2
             /\ held' = [held EXCEPT ![c] = Head(todo[c]).db]
             /\ todo' = [todo EXCEPT ![c] = Tail(@)]
    <3>1. todo'[c] = Tail(todo[c]) /\ held'[c] = todo[c][1].db
      BY <1>1, <2>2
    <3>2. /\ 1 \in DOMAIN todo[c] /\ 2 \in DOMAIN todo[c]
          /\ DOMAIN Tail(todo[c]) = {1} /\ Tail(todo[c])[1] = todo[c][2]
      BY <1>1, <2>2, TwoToMake
    <3> QED BY <3>1, <3>2 DEF Planned, CopiesOf
  <2> QED BY <2>1, <2>2
<1>4. ASSUME NEW r \in Requests
      PROVE  Planned(r)' \subseteq Planned(r)
  BY <1>2, <1>3 DEF Planned
<1>5. ASSUME NEW r \in Requests, NEW x \in CopiesOf(r)'
      PROVE  x = EmptyDatabase \/ x \in CopiesOf(r)
  <2>1. x = held'[r] \/ \E w \in Planned(r)' : x = w.db
    BY DEF CopiesOf
  <2>2. CASE x = held'[r]
    BY <1>2, <1>3, <2>2, CopiesAre
  <2>3. CASE \E w \in Planned(r)' : x = w.db
    BY <1>4, <2>3, CopiesAre
  <2> QED BY <2>1, <2>2, <2>3
<1>6. ASSUME NEW x \in Copies'
      PROVE  x = db' \/ x = EmptyDatabase \/ x \in Copies
  <2>1. x = db' \/ \E r \in Requests : x \in CopiesOf(r)'
    BY DEF Copies
  <2> QED BY <1>5, <2>1, CopiesAre
<1> QED BY <1>4, <1>5, <1>6

\* A commit leaves everything as it should be,
LEMMA CommitKeeps ==
    ASSUME SInv, NEW c \in Requests, Commit(c)
    PROVE  SInv'
<1>1. /\ TypeOK /\ Shape /\ Chain /\ EachCopy /\ Agreement /\ References /\ Owned /\ FreshRows
      /\ Refunded /\ (~overwrote => BalancesRight)
  BY DEF SInv
<1>2. /\ todo[c] # <<>> /\ RowsPresent(c) /\ ForeignKeys(db') /\ UNCHANGED torn
      /\ overwrote' = (overwrote \/ WrittenRows(c) \intersect stale[c] # {})
      /\ stale' = [r \in Requests |->
            IF phase'[r] \notin {"running", "half"} THEN {}
            ELSE IF r = c THEN stale[c] \ WrittenRows(c)
            ELSE stale[r] \union WrittenRows(c)]
      /\ refunds' = [s \in SaleIds |->
            IF s \notin WrittenSales(c) THEN refunds[s]
            ELSE IF db'.sale[s] = NoRow THEN refunds[s] + 1 ELSE 0]
  BY DEF Commit
<1>3. PICK w : w = Head(todo[c])
  OBVIOUS
<1>4. /\ Len(todo[c]) = 1 =>
            /\ phase' = [phase EXCEPT ![c] = "over"]
            /\ held' = [held EXCEPT ![c] = EmptyDatabase]
            /\ todo' = [todo EXCEPT ![c] = <<>>]
      /\ Len(todo[c]) # 1 =>
            /\ phase' = [phase EXCEPT ![c] = "half"]
            /\ held' = [held EXCEPT ![c] = Head(todo[c]).db]
            /\ todo' = [todo EXCEPT ![c] = Tail(@)]
  BY DEF Commit, Over, Forget
<1>5. /\ held \in [Requests -> Database] /\ todo \in [Requests -> Seq(Writes)]
      /\ phase \in [Requests -> {"waiting", "running", "half", "over"}]
      /\ stale \in [Requests -> SUBSET StoredRows] /\ refunds \in [SaleIds -> Nat]
      /\ overwrote \in BOOLEAN /\ torn \in BOOLEAN
      /\ todo[c] \in Seq(Writes)
  BY <1>1 DEF TypeOK
<1>6. Len(todo[c]) = 1 \/ Len(todo[c]) = 2
  <2>1. Len(todo[c]) <= 2
    BY <1>1 DEF Shape
  <2> QED BY <1>2, <1>5, <2>1, OneOrTwo
<1>7. /\ w \in Planned(c) /\ w.db \in Database /\ w.granted \in [PttIds -> Int]
      /\ db \in Database /\ held[c] \in Database /\ db' \in Database
      /\ Merged(db, w.db, db') /\ granted' \in [PttIds -> Int]
      /\ w = todo[c][1]
  BY <1>1, <1>2, <1>3, <1>5, CommitRows
<1>8. /\ \A p \in PrepaidIds :
            IF p \in WrittenPrepaids(c) THEN db'.prepaid[p] = w.db.prepaid[p]
            ELSE db'.prepaid[p] = db.prepaid[p] /\ w.db.prepaid[p] = held[c].prepaid[p]
      /\ \A t \in PttIds :
            IF t \in WrittenPtts(c)
            THEN db'.ptt[t] = w.db.ptt[t] /\ granted'[t] = w.granted[t]
            ELSE /\ db'.ptt[t] = db.ptt[t] /\ granted'[t] = granted[t]
                 /\ w.db.ptt[t] = held[c].ptt[t]
      /\ \A s \in SaleIds : IF w.db.sale[s] # held[c].sale[s] THEN db'.sale[s] = w.db.sale[s]
                            ELSE db'.sale[s] = db.sale[s]
  BY <1>1, <1>2, <1>3, CommitRows
<1>9. /\ \A s \in SaleIds : w.db.sale[s] # held[c].sale[s] => db.sale[s] = held[c].sale[s]
      /\ \A p \in PrepaidIds : <<"prepaid", p>> \notin stale[c] =>
            db.prepaid[p] = held[c].prepaid[p]
      /\ \A t \in PttIds : <<"ptt", t>> \notin stale[c] => db.ptt[t] = held[c].ptt[t]
  BY <1>2, <1>3, WritesWhatItHeld
<1>10. /\ \A r \in Requests : Planned(r)' \subseteq Planned(r)
       /\ \A r \in Requests : \A x \in CopiesOf(r)' : x = EmptyDatabase \/ x \in CopiesOf(r)
       /\ \A x \in Copies' : x = db' \/ x = EmptyDatabase \/ x \in Copies
  BY <1>1, <1>2, <1>4, <1>6, FewerCopies
<1>11. /\ w.db \in Copies /\ db \in Copies
       /\ \A x \in Copies : x \in Database
  BY <1>1, <1>7, CopiesAre, CopiesType
<1>12. \A r \in Requests \ {c} :
          held'[r] = held[r] /\ todo'[r] = todo[r] /\ phase'[r] = phase[r]
  BY <1>4, <1>5, <1>6
<1>13. ASSUME Len(todo[c]) = 2
       PROVE  /\ held'[c] = w.db /\ phase'[c] = "half" /\ todo'[c] = Tail(todo[c])
              /\ todo'[c] \in Seq(Writes) /\ todo'[c] # <<>> /\ Len(todo'[c]) = 1
              /\ DOMAIN todo'[c] = {1} /\ todo'[c][1] = todo[c][2]
              /\ Kept(w.db, todo[c][2].db) /\ RowsRefer(w.db)
              /\ w.db.sale = held[c].sale /\ todo[c][2].db.sale = held[c].sale
              /\ todo[c][2] \in Writes
  <2>1. held'[c] = w.db /\ phase'[c] = "half" /\ todo'[c] = Tail(todo[c])
    BY <1>3, <1>4, <1>5, <1>13
  <2>2. /\ Tail(todo[c]) \in Seq(Writes) /\ Tail(todo[c]) # <<>> /\ Len(Tail(todo[c])) = 1
        /\ DOMAIN Tail(todo[c]) = {1} /\ Tail(todo[c])[1] = todo[c][2] /\ todo[c][2] \in Writes
    BY <1>5, <1>13, TwoToMake
  <2> QED BY <1>1, <1>2, <1>7, <1>13, <2>1, <2>2 DEF Chain
<1>14. ASSUME Len(todo[c]) = 1
       PROVE  held'[c] = EmptyDatabase /\ todo'[c] = <<>> /\ phase'[c] = "over"
  BY <1>4, <1>5, <1>14
<1>15. TypeOK'
  <2>1. phase' \in [Requests -> {"waiting", "running", "half", "over"}]
    BY <1>4, <1>5, <1>6
  <2>2. held' \in [Requests -> Database]
    BY <1>3, <1>4, <1>5, <1>6, <1>7, EmptyIsSound
  <2>3. todo' \in [Requests -> Seq(Writes)]
    <3>1. <<>> \in Seq(Writes) /\ (Len(todo[c]) = 2 => Tail(todo[c]) \in Seq(Writes))
      BY <1>5, TwoToMake, EmptySeq
    <3> QED BY <1>4, <1>5, <1>6, <3>1
  <2>4. stale' \in [Requests -> SUBSET StoredRows]
    <3>1. WrittenRows(c) \subseteq StoredRows
      <4>1. w.ps \subseteq PrepaidIds /\ w.ts \subseteq PttIds
        BY <1>1, <1>7, CopiesType
      <4>2. WrittenPrepaids(c) \subseteq PrepaidIds /\ WrittenPtts(c) \subseteq PttIds
        BY <1>3, <4>1 DEF WrittenPrepaids, WrittenPtts
      <4> QED BY <4>2 DEF WrittenRows, StoredRows
    <3> QED BY <1>2, <1>5, <3>1
  <2>5. refunds' \in [SaleIds -> Nat]
    BY <1>2, <1>5
  <2>6. overwrote' \in BOOLEAN /\ torn' \in BOOLEAN
    BY <1>2, <1>5
  <2> QED BY <1>7, <2>1, <2>2, <2>3, <2>4, <2>5, <2>6 DEF TypeOK
<1>16. Shape'
  <2>1. ASSUME NEW r \in Requests
        PROVE  /\ todo'[r] = <<>> <=> phase'[r] \in {"waiting", "over"}
               /\ todo'[r] = <<>> => held'[r] = EmptyDatabase
               /\ todo'[r] = <<>> => stale'[r] = {}
               /\ Len(todo'[r]) <= 2
               /\ phase'[r] = "half" => Len(todo'[r]) = 1
    <3>1. CASE r = c /\ Len(todo[c]) = 1
      BY <1>2, <1>14, <3>1
    <3>2. CASE r = c /\ Len(todo[c]) = 2
      <4>1. todo'[c] # <<>> /\ phase'[c] = "half" /\ Len(todo'[c]) = 1
        BY <1>13, <3>2
      <4> QED BY <3>2, <4>1
    <3>3. CASE r # c
      <4>1. todo'[r] = <<>> => phase'[r] \in {"waiting", "over"}
        BY <1>1, <1>12, <3>3 DEF Shape
      <4>2. todo'[r] = <<>> => stale'[r] = {}
        BY <1>2, <4>1
      <4> QED BY <1>1, <1>12, <3>3, <4>2 DEF Shape
    <3> QED BY <1>6, <3>1, <3>2, <3>3
  <2> QED BY <2>1 DEF Shape
<1>17. Chain'
  <2>1. ASSUME NEW r \in Requests, todo'[r] # <<>>
        PROVE  /\ Kept(held'[r], todo'[r][1].db)
               /\ Len(todo'[r]) = 2 =>
                     /\ Kept(todo'[r][1].db, todo'[r][2].db)
                     /\ RowsRefer(todo'[r][1].db)
                     /\ todo'[r][1].db.sale = held'[r].sale
                     /\ todo'[r][2].db.sale = held'[r].sale
    <3>1. CASE r = c
      <4>1. Len(todo[c]) = 2
        BY <1>6, <1>14, <2>1, <3>1
      <4>2. /\ held'[c] = w.db /\ Kept(w.db, todo[c][2].db)
            /\ Len(todo'[c]) = 1 /\ todo'[c][1] = todo[c][2]
        BY <1>13, <4>1
      <4> QED BY <3>1, <4>2
    <3>2. CASE r # c
      BY <1>1, <1>12, <2>1, <3>2 DEF Chain
    <3> QED BY <3>1, <3>2
  <2> QED BY <2>1 DEF Chain
<1>18. PttsRefer(db') /\ Holds(db')
  <2>1. PttsRefer(db')
    BY <1>2 DEF ForeignKeys, PttsRefer
  <2>2. Holds(db')
    BY <1>1, <1>7, <1>11, MergedHolds DEF EachCopy
  <2> QED BY <2>1, <2>2
<1>19. EachCopy'
  <2>1. \A x \in Copies' : PttsRefer(x) /\ Holds(x)
    BY <1>1, <1>10, <1>18, EmptyIsSound DEF EachCopy
  <2> QED BY <2>1 DEF EachCopy
<1>20. \A y \in Copies : Agree(db', y) /\ Agree(y, db')
  BY <1>1, <1>7, <1>11, MergedAgree DEF Agreement
<1>21. Agree(db', db')
  <2>1. Agree(db, db') /\ Agree(w.db, db')
    BY <1>11, <1>20
  <2> QED BY <1>7, <2>1, MergedAgree
<1>22. Agreement'
  <2>1. ASSUME NEW x \in Copies', NEW y \in Copies'
        PROVE  Agree(x, y)
    BY <1>1, <1>10, <1>20, <1>21, EmptyIsSound DEF Agreement
  <2>2. Agreement' <=> \A x \in Copies', y \in Copies' : Agree(x, y)
    BY DEF Agreement
  <2> QED BY <2>1, <2>2
<1>23. RowsRefer(db')
  <2>1. ASSUME NEW s \in Live(db'.sale), NEW t \in PttIds, db'.sale[s].drawn[t] > 0
        PROVE  t \in PttsOf(db', db'.sale[s].prepaid)
    <3>1. t \in Live(db'.ptt)
      BY <1>2, <2>1 DEF ForeignKeys, PaymentsRefer
    <3> QED BY <1>21, <2>1, <3>1 DEF Agree, PttsOf
  <2> QED BY <1>2, <2>1 DEF ForeignKeys, RowsRefer
<1>24. References'
  <2>1. ASSUME NEW r \in Requests
        PROVE  RowsRefer(held'[r])
    <3>1. CASE r = c
      BY <1>6, <1>13, <1>14, <3>1, EmptyIsSound
    <3>2. CASE r # c
      BY <1>1, <1>12, <3>2 DEF References
    <3> QED BY <3>1, <3>2
  <2> QED BY <1>23, <2>1 DEF References
<1>25. Owned'
  <2>1. ASSUME NEW r \in Requests, NEW v \in Planned(r)', NEW s \in Live(v.db.sale),
               s \notin Live(held'[r].sale)
        PROVE  /\ s \notin Live(db'.sale)
               /\ \A q \in Requests \ {r} : \A x \in CopiesOf(q)' : s \notin Live(x.sale)
    <3>1. CASE r = c
      <4>1. Len(todo[c]) = 2
        <5>1. DOMAIN todo'[c] # {}
          BY <2>1, <3>1 DEF Planned
        <5> QED BY <1>6, <1>14, <5>1
      <4>2. v = todo[c][2]
        BY <1>13, <2>1, <3>1, <4>1 DEF Planned
      <4> QED BY <1>13, <2>1, <3>1, <4>1, <4>2
    <3>2. CASE r # c
      <4>1. v \in Planned(r) /\ s \notin Live(held[r].sale)
        BY <1>10, <1>12, <2>1, <3>2
      <4>2. /\ s \notin Live(db.sale)
            /\ \A q \in Requests \ {r} : \A x \in CopiesOf(q) : s \notin Live(x.sale)
        BY <1>1, <2>1, <4>1 DEF Owned
      <4>3. s \notin Live(w.db.sale)
        BY <1>7, <3>2, <4>2, CopiesAre
      <4>4. s \notin Live(db'.sale)
        BY <1>7, <4>2, <4>3, LiveIn, SMTT(30) DEF Merged
      <4>5. ASSUME NEW q \in Requests \ {r}, NEW x \in CopiesOf(q)'
            PROVE  s \notin Live(x.sale)
        BY <1>10, <4>2, EmptyIsSound
      <4> QED BY <4>4, <4>5
    <3> QED BY <3>1, <3>2
  <2> QED BY <2>1 DEF Owned
<1>26. ASSUME NEW r \in Requests, todo'[r] # <<>>
       PROVE  stale'[r] = IF r = c THEN stale[c] \ WrittenRows(c)
                          ELSE stale[r] \union WrittenRows(c)
  <2>1. phase'[r] \notin {"waiting", "over"}
    BY <1>16, <1>26 DEF Shape
  <2>2. phase'[r] \in {"running", "half"}
    BY <1>15, <2>1 DEF TypeOK
  <2> QED BY <1>2, <2>2
<1>27. /\ \A p \in PrepaidIds : <<"prepaid", p>> \in WrittenRows(c) <=> p \in WrittenPrepaids(c)
       /\ \A t \in PttIds : <<"ptt", t>> \in WrittenRows(c) <=> t \in WrittenPtts(c)
  BY DEF WrittenRows
<1>28. FreshRows'
  <2>1. ASSUME NEW r \in Requests, todo'[r] # <<>>
        PROVE  /\ \A p \in PrepaidIds :
                     <<"prepaid", p>> \notin stale'[r] => db'.prepaid[p] = held'[r].prepaid[p]
               /\ \A t \in PttIds :
                     <<"ptt", t>> \notin stale'[r] => db'.ptt[t] = held'[r].ptt[t]
    <3>1. CASE r = c
      <4>1. held'[c] = w.db /\ stale'[c] = stale[c] \ WrittenRows(c)
        BY <1>6, <1>13, <1>14, <1>26, <2>1, <3>1
      <4>2. ASSUME NEW p \in PrepaidIds, <<"prepaid", p>> \notin stale'[c]
            PROVE  db'.prepaid[p] = w.db.prepaid[p]
        BY <1>8, <1>9, <1>27, <4>1, <4>2
      <4>3. ASSUME NEW t \in PttIds, <<"ptt", t>> \notin stale'[c]
            PROVE  db'.ptt[t] = w.db.ptt[t]
        BY <1>8, <1>9, <1>27, <4>1, <4>3
      <4> QED BY <3>1, <4>1, <4>2, <4>3
    <3>2. CASE r # c
      <4>1. /\ held'[r] = held[r] /\ todo[r] # <<>>
            /\ stale'[r] = stale[r] \union WrittenRows(c)
        BY <1>12, <1>26, <2>1, <3>2
      <4>2. ASSUME NEW p \in PrepaidIds, <<"prepaid", p>> \notin stale'[r]
            PROVE  db'.prepaid[p] = held[r].prepaid[p]
        BY <1>1, <1>8, <1>27, <4>1, <4>2 DEF FreshRows
      <4>3. ASSUME NEW t \in PttIds, <<"ptt", t>> \notin stale'[r]
            PROVE  db'.ptt[t] = held[r].ptt[t]
        BY <1>1, <1>8, <1>27, <4>1, <4>3 DEF FreshRows
      <4> QED BY <4>1, <4>2, <4>3
    <3> QED BY <3>1, <3>2
  <2> QED BY <2>1 DEF FreshRows
<1>29. Refunded'
  <2>1. ASSUME NEW s \in SaleIds
        PROVE  refunds'[s] <= 1 /\ (s \in Live(db'.sale) => refunds'[s] = 0)
    <3>1. refunds[s] \in Nat /\ refunds[s] <= 1 /\ (s \in Live(db.sale) => refunds[s] = 0)
      BY <1>1, <1>5 DEF Refunded
    <3>2. s \in WrittenSales(c) <=> w.db.sale[s] # held[c].sale[s]
      BY <1>3 DEF WrittenSales
    <3>3. CASE s \notin WrittenSales(c)
      <4>1. db'.sale[s] = db.sale[s]
        BY <1>8, <3>2, <3>3
      <4>2. s \in Live(db'.sale) <=> s \in Live(db.sale)
        BY <1>7, <4>1, LiveIn
      <4> QED BY <1>2, <3>1, <3>3, <4>2
    <3>4. CASE s \in WrittenSales(c) /\ db'.sale[s] = NoRow
      <4>1. db'.sale[s] = w.db.sale[s] /\ db.sale[s] = held[c].sale[s]
            /\ db.sale[s] # NoRow
        BY <1>8, <1>9, <3>2, <3>4
      <4>2. s \in Live(db.sale) /\ s \notin Live(db'.sale)
        BY <1>7, <3>4, <4>1, LiveIn
      <4> QED BY <1>2, <3>1, <3>4, <4>2
    <3>5. CASE s \in WrittenSales(c) /\ db'.sale[s] # NoRow
      BY <1>2, <3>5
    <3> QED BY <3>3, <3>4, <3>5
  <2> QED BY <2>1 DEF Refunded
<1>30. ASSUME ~overwrote'
       PROVE  BalancesRight'
  <2>1. ~overwrote /\ WrittenRows(c) \intersect stale[c] = {} /\ BalancesRight
    BY <1>1, <1>2, <1>30
  <2>2. /\ \A p \in WrittenPrepaids(c) : p \in PrepaidIds => <<"prepaid", p>> \notin stale[c]
        /\ \A t \in WrittenPtts(c) : t \in PttIds => <<"ptt", t>> \notin stale[c]
    BY <1>27, <2>1
  <2>3. /\ \A t \in PttIds : t \notin WrittenPtts(c) => DrawnOn(db', t) = DrawnOn(db, t)
        /\ \A t \in PttIds : <<"ptt", t>> \notin stale[c] => DrawnOn(db', t) = DrawnOn(w.db, t)
    BY <1>2, <1>3, <2>1, CommitDraws
  <2>4. SumsAgree(db')
    <3>1. IsMerge(db, held[c], w.db, db')
      BY <1>8, <1>9, <2>2 DEF IsMerge
    <3>2. /\ PttsRefer(db) /\ PttsRefer(held[c]) /\ PttsRefer(w.db)
          /\ SumsAgree(db) /\ SumsAgree(held[c]) /\ SumsAgree(w.db)
      BY <1>1, <1>11, <2>1, CopiesAre DEF EachCopy, BalancesRight
    <3> QED BY <1>7, <3>1, <3>2, MergeBalanced
  <2>5. \A x \in Copies' : SumsAgree(x)
    BY <1>10, <2>1, <2>4, EmptyIsSound DEF BalancesRight
  <2>6. CashAdds(db', granted')
    <3>1. ASSUME NEW t \in Live(db'.ptt),
                 db'.prepaid[db'.ptt[t].prepaid].type \in CashTypes
          PROVE  db'.ptt[t].remain + Total(DrawnOn(db', t), NSales) = granted'[t]
      <4>1. t \in PttIds /\ db'.ptt[t].prepaid \in Live(db'.prepaid)
        BY <1>7, <1>18, LiveIn DEF PttsRefer
      <4>2. CASE t \in WrittenPtts(c)
        <5>1. db'.ptt[t] = w.db.ptt[t] /\ granted'[t] = w.granted[t]
          BY <1>8, <4>1, <4>2
        <5>2. DrawnOn(db', t) = DrawnOn(w.db, t)
          BY <2>2, <2>3, <4>1, <4>2
        <5>3. t \in Live(w.db.ptt)
          <6>1. db'.ptt[t] # NoRow
            BY <3>1 DEF Live
          <6>2. w.db.ptt[t] # NoRow /\ w.db \in Database
            BY <1>7, <5>1, <6>1
          <6> QED BY <4>1, <6>2, LiveIn
        <5>4. w.db.ptt[t].prepaid \in Live(w.db.prepaid)
          BY <1>1, <1>11, <5>3 DEF EachCopy, PttsRefer
        <5>5. w.db.prepaid[w.db.ptt[t].prepaid].type = db'.prepaid[db'.ptt[t].prepaid].type
          BY <1>11, <1>20, <4>1, <5>1, <5>4 DEF Agree
        <5>6. CashAdds(w.db, w.granted)
          BY <1>7, <2>1 DEF BalancesRight
        <5>7. w.db.ptt[t].remain + Total(DrawnOn(w.db, t), NSales) = w.granted[t]
          BY <3>1, <5>3, <5>5, <5>6 DEF CashAdds
        <5> QED BY <5>1, <5>2, <5>7
      <4>3. CASE t \notin WrittenPtts(c)
        <5>1. db'.ptt[t] = db.ptt[t] /\ granted'[t] = granted[t]
          BY <1>8, <4>1, <4>3
        <5>2. DrawnOn(db', t) = DrawnOn(db, t)
          BY <2>3, <4>1, <4>3
        <5>3. t \in Live(db.ptt)
          BY <1>7, <3>1, <4>1, <5>1, LiveIn
        <5>4. db.ptt[t].prepaid \in Live(db.prepaid)
          BY <1>1, <1>11, <5>3 DEF EachCopy, PttsRefer
        <5>5. db.prepaid[db.ptt[t].prepaid].type = db'.prepaid[db'.ptt[t].prepaid].type
          BY <1>11, <1>20, <4>1, <5>1, <5>4 DEF Agree
        <5>6. CashAdds(db, granted)
          BY <2>1 DEF BalancesRight
        <5>7. db.ptt[t].remain + Total(DrawnOn(db, t), NSales) = granted[t]
          BY <3>1, <5>3, <5>5, <5>6 DEF CashAdds
        <5> QED BY <5>1, <5>2, <5>7
      <4> QED BY <4>2, <4>3
    <3> QED BY <3>1 DEF CashAdds
  <2>7. \A r \in Requests : \A v \in Planned(r)' : CashAdds(v.db, v.granted)
    BY <1>10, <2>1 DEF BalancesRight
  <2>8. FreshDraws'
    <3>1. ASSUME NEW r \in Requests, todo'[r] # <<>>, NEW t \in PttIds,
                 <<"ptt", t>> \notin stale'[r]
          PROVE  DrawnOn(db', t) = DrawnOn(held'[r], t)
      <4>1. CASE r = c
        <5>1. held'[c] = w.db /\ stale'[c] = stale[c] \ WrittenRows(c)
          BY <1>6, <1>13, <1>14, <1>26, <3>1, <4>1
        <5>2. <<"ptt", t>> \notin stale[c]
          BY <1>27, <2>2, <3>1, <4>1, <5>1
        <5> QED BY <2>3, <4>1, <5>1, <5>2
      <4>2. CASE r # c
        <5>1. /\ held'[r] = held[r] /\ todo[r] # <<>>
              /\ stale'[r] = stale[r] \union WrittenRows(c)
          BY <1>12, <1>26, <3>1, <4>2
        <5>2. <<"ptt", t>> \notin stale[r] /\ t \notin WrittenPtts(c)
          BY <1>27, <3>1, <5>1
        <5>3. DrawnOn(db, t) = DrawnOn(held[r], t)
          BY <2>1, <5>1, <5>2 DEF BalancesRight, FreshDraws
        <5> QED BY <2>3, <5>1, <5>2, <5>3
      <4> QED BY <4>1, <4>2
    <3> QED BY <3>1 DEF FreshDraws
  <2>9. BalancesRight' <=> /\ \A x \in Copies' : SumsAgree(x)
                           /\ CashAdds(db', granted')
                           /\ \A r \in Requests : \A v \in Planned(r)' : CashAdds(v.db, v.granted)
                           /\ FreshDraws'
    BY DEF BalancesRight
  <2> QED BY <2>5, <2>6, <2>7, <2>8, <2>9
<1> QED BY <1>15, <1>16, <1>17, <1>19, <1>22, <1>24, <1>25, <1>28, <1>29, <1>30 DEF SInv

\* and so does a request that fails, or one more look at the end.
LEMMA FailKeeps ==
    ASSUME SInv, NEW c \in Requests, Fail(c)
    PROVE  SInv'
<1>1. /\ TypeOK /\ Shape /\ Chain /\ EachCopy /\ Agreement /\ References /\ Owned /\ FreshRows
      /\ Refunded /\ (~overwrote => BalancesRight)
  BY DEF SInv
<1>2. /\ todo[c] # <<>> /\ phase' = [phase EXCEPT ![c] = "over"]
      /\ held' = [held EXCEPT ![c] = EmptyDatabase] /\ todo' = [todo EXCEPT ![c] = <<>>]
      /\ torn' = (torn \/ phase[c] = "half") /\ stale' = [stale EXCEPT ![c] = {}]
      /\ db' = db /\ granted' = granted /\ overwrote' = overwrote /\ refunds' = refunds
  BY DEF Fail, Over, Forget
<1>3. /\ held \in [Requests -> Database] /\ todo \in [Requests -> Seq(Writes)]
      /\ phase \in [Requests -> {"waiting", "running", "half", "over"}]
      /\ stale \in [Requests -> SUBSET StoredRows] /\ torn \in BOOLEAN
  BY <1>1 DEF TypeOK
<1>4. /\ \A r \in Requests : Planned(r)' \subseteq Planned(r)
      /\ \A r \in Requests : \A x \in CopiesOf(r)' : x = EmptyDatabase \/ x \in CopiesOf(r)
      /\ \A x \in Copies' : x = EmptyDatabase \/ x \in Copies
  BY <1>1, <1>2, FewerCopies, CopiesAre
<1>5. /\ held'[c] = EmptyDatabase /\ todo'[c] = <<>> /\ phase'[c] = "over" /\ stale'[c] = {}
      /\ \A r \in Requests \ {c} : /\ held'[r] = held[r] /\ todo'[r] = todo[r]
                                   /\ phase'[r] = phase[r] /\ stale'[r] = stale[r]
  BY <1>2, <1>3
<1>6. TypeOK'
  <2>1. /\ held' \in [Requests -> Database] /\ todo' \in [Requests -> Seq(Writes)]
        /\ phase' \in [Requests -> {"waiting", "running", "half", "over"}]
        /\ stale' \in [Requests -> SUBSET StoredRows] /\ torn' \in BOOLEAN
    BY <1>2, <1>3, EmptyIsSound, EmptySeq
  <2> QED BY <1>1, <1>2, <2>1 DEF TypeOK
<1>7. Shape'
  <2>1. ASSUME NEW r \in Requests
        PROVE  /\ todo'[r] = <<>> <=> phase'[r] \in {"waiting", "over"}
               /\ todo'[r] = <<>> => held'[r] = EmptyDatabase /\ stale'[r] = {}
               /\ Len(todo'[r]) <= 2
               /\ phase'[r] = "half" => Len(todo'[r]) = 1
    <3>1. CASE r = c
      BY <1>5, <3>1
    <3>2. CASE r # c
      BY <1>1, <1>5, <3>2 DEF Shape
    <3> QED BY <3>1, <3>2
  <2> QED BY <2>1 DEF Shape
<1>8. Chain'
  BY <1>1, <1>5 DEF Chain
<1>9. EachCopy'
  <2>1. \A x \in Copies' : PttsRefer(x) /\ Holds(x)
    BY <1>1, <1>4, EmptyIsSound DEF EachCopy
  <2> QED BY <2>1 DEF EachCopy
<1>10. Agreement'
  <2>1. \A x \in Copies', y \in Copies' : Agree(x, y)
    BY <1>1, <1>4, EmptyIsSound DEF Agreement
  <2>2. Agreement' <=> \A x \in Copies', y \in Copies' : Agree(x, y)
    BY DEF Agreement
  <2> QED BY <2>1, <2>2
<1>11. References'
  BY <1>1, <1>2, <1>5, EmptyIsSound DEF References
<1>12. Owned'
  <2>1. ASSUME NEW r \in Requests, NEW v \in Planned(r)', NEW s \in Live(v.db.sale),
               s \notin Live(held'[r].sale)
        PROVE  /\ s \notin Live(db'.sale)
               /\ \A q \in Requests \ {r} : \A x \in CopiesOf(q)' : s \notin Live(x.sale)
    <3>1. r # c
      BY <1>5 DEF Planned
    <3>2. v \in Planned(r) /\ s \notin Live(held[r].sale)
      BY <1>4, <1>5, <2>1, <3>1
    <3>3. /\ s \notin Live(db.sale)
          /\ \A q \in Requests \ {r} : \A x \in CopiesOf(q) : s \notin Live(x.sale)
      BY <1>1, <2>1, <3>2 DEF Owned
    <3> QED BY <1>2, <1>4, <3>3, EmptyIsSound
  <2> QED BY <2>1 DEF Owned
<1>13. FreshRows'
  BY <1>1, <1>2, <1>5 DEF FreshRows
<1>14. Refunded'
  BY <1>1, <1>2 DEF Refunded
<1>15. ASSUME ~overwrote'
       PROVE  BalancesRight'
  <2>1. BalancesRight
    BY <1>1, <1>2, <1>15
  <2>2. \A x \in Copies' : SumsAgree(x)
    BY <1>4, <2>1, EmptyIsSound DEF BalancesRight
  <2>3. \A r \in Requests : \A v \in Planned(r)' : CashAdds(v.db, v.granted)
    BY <1>4, <2>1 DEF BalancesRight
  <2>4. FreshDraws'
    BY <1>2, <1>5, <2>1 DEF BalancesRight, FreshDraws
  <2>5. BalancesRight' <=> /\ \A x \in Copies' : SumsAgree(x)
                           /\ CashAdds(db', granted')
                           /\ \A r \in Requests : \A v \in Planned(r)' : CashAdds(v.db, v.granted)
                           /\ FreshDraws'
    BY DEF BalancesRight
  <2> QED BY <1>2, <2>1, <2>2, <2>3, <2>4, <2>5 DEF BalancesRight
<1> QED BY <1>6, <1>7, <1>8, <1>9, <1>10, <1>11, <1>12, <1>13, <1>14, <1>15 DEF SInv

\* What requests handled one at a time leave is as it should be.
LEMMA InitHolds ==
    ASSUME Init
    PROVE  SInv
<1>1. /\ db \in Starts /\ held = [c \in Requests |-> EmptyDatabase]
      /\ phase = [c \in Requests |-> "waiting"] /\ todo = [c \in Requests |-> <<>>]
      /\ stale = [c \in Requests |-> {}] /\ overwrote = FALSE /\ torn = FALSE
      /\ refunds = [s \in SaleIds |-> 0]
      /\ granted = [t \in PttIds |->
            IF t \in Live(db.ptt) THEN db.ptt[t].remain + Total(DrawnOn(db, t), NSales) ELSE 0]
  BY DEF Init
<1>2. /\ db \in Database /\ RowsRefer(db) /\ SumsAgree(db) /\ NothingNegative(db)
      /\ PaymentsWithinItems(db)
  BY <1>1, StartsAssumption
<1>3. \A c \in Requests : Planned(c) = {} /\ CopiesOf(c) = {EmptyDatabase}
  BY <1>1 DEF Planned, CopiesOf
<1>4. \A x \in Copies : x = db \/ x = EmptyDatabase
  BY <1>3, CopiesAre
<1>5. granted \in [PttIds -> Int]
  <2>1. ASSUME NEW t \in Live(db.ptt)
        PROVE  db.ptt[t].remain + Total(DrawnOn(db, t), NSales) \in Int
    <3>1. t \in PttIds /\ db.ptt[t] \in PttRow
      BY <1>2, RowTypes
    <3>2. db.ptt[t].remain \in Int
      BY <3>1 DEF PttRow
    <3>3. Total(DrawnOn(db, t), NSales) \in Nat
      BY <1>2, <3>1, DrawnType
    <3> QED BY <3>2, <3>3
  <2> QED BY <1>1, <2>1
<1>6. TypeOK
  BY <1>1, <1>2, <1>5, EmptyIsSound, EmptySeq DEF TypeOK
<1>7. Shape
  BY <1>1 DEF Shape
<1>8. Chain /\ FreshRows
  BY <1>1 DEF Chain, FreshRows
<1>9. EachCopy
  <2>1. PttsRefer(db) /\ Holds(db)
    BY <1>2 DEF RowsRefer, PttsRefer, Holds, NothingNegative
  <2> QED BY <1>4, <2>1, EmptyIsSound DEF EachCopy
<1>10. Agreement
  BY <1>2, <1>4, AgreesWithItself, EmptyIsSound DEF Agreement
<1>11. References
  BY <1>1, <1>2, EmptyIsSound DEF References
<1>12. Owned
  BY <1>3 DEF Owned
<1>13. Refunded
  BY <1>1 DEF Refunded
<1>14. BalancesRight
  <2>1. \A x \in Copies : SumsAgree(x)
    BY <1>2, <1>4, EmptyIsSound
  <2>2. CashAdds(db, granted)
    <3>1. ASSUME NEW t \in Live(db.ptt)
          PROVE  db.ptt[t].remain + Total(DrawnOn(db, t), NSales) = granted[t]
      BY <1>1, <1>2, LiveIn
    <3> QED BY <3>1 DEF CashAdds
  <2>3. FreshDraws
    BY <1>1 DEF FreshDraws
  <2> QED BY <1>3, <2>1, <2>2, <2>3 DEF BalancesRight
<1> QED BY <1>6, <1>7, <1>8, <1>9, <1>10, <1>11, <1>12, <1>13, <1>14 DEF SInv

-----------------------------------------------------------------------------
\* What the service methods plan: one commit,
LEMMA OnePlan ==
    ASSUME SInv, NEW next, NEW g \in [PttIds -> Int], NEW ps \in SUBSET PrepaidIds,
           NEW ts \in SUBSET PttIds, NEW np, NEW nt, NEW ns,
           Kept(db, next), Adds(db, next, np, nt, ns), MoneyKept(db, granted, next, g),
           \A p \in np : p \in PrepaidIds /\ IsFresh("prepaid", p),
           \A t \in nt : t \in PttIds /\ IsFresh("ptt", t),
           \A s \in ns : s \in SaleIds /\ IsFresh("sale", s)
    PROVE  IsPlan(Write(next, ps, ts, g))
<1>1. PICK w : w = Write(next, ps, ts, g)
  OBVIOUS
<1>2. w.db = next /\ w.granted = g
  BY <1>1 DEF Write
<1>3. w \in Writes
  BY <1>1 DEF Write, Writes, Kept
<1>4. AddsNew(next)
  <2>1. ASSUME NEW y \in Copies
        PROVE  /\ \A p \in Live(next.prepaid) : p \in Live(y.prepaid) => p \in Live(db.prepaid)
               /\ \A t \in Live(next.ptt) : t \in Live(y.ptt) => t \in Live(db.ptt)
               /\ \A s \in Live(next.sale) : s \in Live(y.sale) => s \in Live(db.sale)
    <3>1. /\ \A p \in np : p \notin Live(y.prepaid)
          /\ \A t \in nt : t \notin Live(y.ptt)
          /\ \A s \in ns : s \notin Live(y.sale)
      BY FreshIsNew DEF SInv
    <3> QED BY <3>1 DEF Adds
  <2> QED BY <2>1 DEF AddsNew
<1>5. Holds(next)
  BY CopiesAre DEF SInv, EachCopy, MoneyKept
<1>6. CashAdds(db, granted) => CashAdds(next, g)
  BY DEF MoneyKept
<1>7. IsPlan(w)
  BY <1>2, <1>3, <1>4, <1>5, <1>6 DEF IsPlan
<1> QED BY <1>1, <1>7

\* Most requests make one commit,
LEMMA OneCommit ==
    ASSUME NEW w, IsPlan(w)
    PROVE  ArePlans(<<w>>)
<1>1. /\ <<w>> \in Seq(Writes) /\ <<w>> # <<>> /\ Len(<<w>>) = 1
      /\ \A i \in DOMAIN <<w>> : <<w>>[i] = w
  BY DEF IsPlan
<1> QED BY <1>1 DEF ArePlans

\* or, for the job, two, neither of which changes more than what is active.
OnlyStatus(x, y) ==
    /\ y.sale = x.sale
    /\ Live(y.prepaid) = Live(x.prepaid) /\ Live(y.ptt) = Live(x.ptt)
    /\ \A p \in Live(x.prepaid) : /\ y.prepaid[p].type = x.prepaid[p].type
                                  /\ y.prepaid[p].init = x.prepaid[p].init
                                  /\ y.prepaid[p].remain = x.prepaid[p].remain
    /\ \A t \in Live(x.ptt) : /\ y.ptt[t].prepaid = x.ptt[t].prepaid
                              /\ y.ptt[t].init = x.ptt[t].init
                              /\ y.ptt[t].remain = x.ptt[t].remain

\* Changing what is active moves no money.
LEMMA OnlyStatusKeeps ==
    ASSUME NEW x \in Database, RowsRefer(x), NEW y \in Database, OnlyStatus(x, y), NEW g
    PROVE  Kept(x, y) /\ RowsRefer(y) /\ Adds(x, y, {}, {}, {}) /\ MoneyKept(x, g, y, g)
<1>1. /\ y.sale = x.sale
      /\ Live(y.prepaid) = Live(x.prepaid) /\ Live(y.ptt) = Live(x.ptt)
      /\ \A p \in Live(x.prepaid) : y.prepaid[p].type = x.prepaid[p].type
      /\ \A t \in Live(x.ptt) : y.ptt[t].prepaid = x.ptt[t].prepaid
  BY DEF OnlyStatus
<1>2. /\ \A p : PttsOf(y, p) = PttsOf(x, p)
      /\ PttsRefer(y)
  BY <1>1, ReferencesKept DEF PttsRefer
<1>3. SumsAgree(x) => SumsAgree(y)
  <2> SUFFICES ASSUME SumsAgree(x), NEW p \in Live(x.prepaid)
               PROVE  /\ y.prepaid[p].init = Total(InitOf(y, p), NPtts)
                      /\ y.prepaid[p].remain = Total(RemainOf(y, p), NPtts)
    BY <1>1 DEF SumsAgree
  <2>1. /\ y.prepaid[p].init = x.prepaid[p].init /\ y.prepaid[p].remain = x.prepaid[p].remain
        /\ \A t \in PttsOf(x, p) : /\ y.ptt[t].init = x.ptt[t].init
                                   /\ y.ptt[t].remain = x.ptt[t].remain
    BY DEF OnlyStatus, PttsOf
  <2> QED BY <1>2, <2>1, UntouchedStaysBalanced
<1>4. Kept(x, y)
  BY <1>1, <1>2, <1>3, KeptWithSales
<1>5. RowsRefer(y)
  BY <1>1, <1>2 DEF RowsRefer, PttsRefer
<1>6. Adds(x, y, {}, {}, {})
  BY <1>1 DEF Adds
<1>7. MoneyKept(x, g, y, g)
  <2>1. ASSUME NEW t \in Live(y.ptt)
        PROVE  IsRestated(x, g, y, g, t)
    <3>1. t \in Live(x.ptt) /\ x.ptt[t].prepaid \in Live(x.prepaid)
      BY <1>1 DEF RowsRefer
    <3>2. y.ptt[t].remain = x.ptt[t].remain
      BY <3>1 DEF OnlyStatus
    <3>3. y.prepaid[y.ptt[t].prepaid].type = x.prepaid[x.ptt[t].prepaid].type
      BY <1>1, <3>1
    <3> QED BY <3>1, <3>2, <3>3 DEF IsRestated
  <2> QED BY <1>1, <2>1, Restated
<1> QED BY <1>4, <1>5, <1>6, <1>7

\* The job's two commits together change nothing else.
LEMMA ExpireEffect ==
    ASSUME NEW x \in Database, RowsRefer(x), NEW t \in PttIds, t \in Live(x.ptt),
           NEW next, next = ExpireDb(x, t)
    PROVE  OnlyStatus(x, next)
<1>0. PICK p : p = x.ptt[t].prepaid
  OBVIOUS
<1>1. /\ x.ptt[t] \in PttRow
      /\ p \in Live(x.prepaid) /\ p \in PrepaidIds /\ x.prepaid[p] \in PrepaidRow
  BY <1>0, RowTypes DEF RowsRefer
<1> DEFINE open == x.prepaid[p].active /\ x.prepaid[p].type \notin VoucherTypes
           prow == [x.prepaid[p] EXCEPT !.active = open]
           trow == [x.ptt[t] EXCEPT !.active = FALSE]
<1>2. /\ next.prepaid = [x.prepaid EXCEPT ![p] = prow]
      /\ next.ptt = [x.ptt EXCEPT ![t] = trow] /\ next.sale = x.sale
  BY <1>0, <1>1, RowTypes DEF ExpireDb
<1>3. open \in BOOLEAN
  OBVIOUS
<1> HIDE DEF open
<1>4. /\ prow \in PrepaidRow /\ prow.init = x.prepaid[p].init
      /\ prow.remain = x.prepaid[p].remain /\ prow.type = x.prepaid[p].type
  BY <1>1, <1>3 DEF PrepaidRow
<1>5. /\ trow \in PttRow /\ trow.prepaid = x.ptt[t].prepaid
      /\ trow.init = x.ptt[t].init /\ trow.remain = x.ptt[t].remain
  BY <1>1 DEF PttRow
<1> HIDE DEF prow, trow
<1>6. Live(next.prepaid) = Live(x.prepaid) /\ Live(next.ptt) = Live(x.ptt)
  BY <1>1, <1>2, <1>4, <1>5, RowTypes, TablesAssumption DEF Live
<1>7. ASSUME NEW q \in Live(x.prepaid)
      PROVE  /\ next.prepaid[q].type = x.prepaid[q].type
             /\ next.prepaid[q].init = x.prepaid[q].init
             /\ next.prepaid[q].remain = x.prepaid[q].remain
  BY <1>2, <1>4, RowTypes
<1>8. ASSUME NEW u \in Live(x.ptt)
      PROVE  /\ next.ptt[u].prepaid = x.ptt[u].prepaid
             /\ next.ptt[u].init = x.ptt[u].init
             /\ next.ptt[u].remain = x.ptt[u].remain
  BY <1>2, <1>5, RowTypes
<1> QED BY <1>2, <1>6, <1>7, <1>8 DEF OnlyStatus

\* So do they one by one, as the job makes them.
LEMMA ExpirePlans ==
    ASSUME SInv, NEW t \in PttIds, t \in Live(db.ptt),
           NEW retired, retired = [db EXCEPT !.ptt[t].active = FALSE],
           NEW closed, closed = ExpireDb(db, t)
    PROVE  ArePlans(<<Write(retired, {}, {}, granted)>>
                       \o IF closed = retired THEN <<>> ELSE <<Write(closed, {}, {}, granted)>>)
<1>1. /\ db \in Database /\ RowsRefer(db) /\ granted \in [PttIds -> Int]
  BY DEF SInv, TypeOK, References
<1>2. Kept(db, closed) /\ RowsRefer(closed) /\ Adds(db, closed, {}, {}, {}) /\ closed \in Database
  BY <1>1, ExpireKeeps DEF Kept
<1>3. MoneyKept(db, granted, closed, granted)
  BY <1>1, <1>2, ExpireMoney
<1>4. PICK row : row = [db.ptt[t] EXCEPT !.active = FALSE]
  OBVIOUS
<1>5. db.ptt[t] \in PttRow
  BY <1>1, RowTypes
<1>6. /\ row \in PttRow /\ row.prepaid = db.ptt[t].prepaid
      /\ row.init = db.ptt[t].init /\ row.remain = db.ptt[t].remain
  BY <1>4, <1>5 DEF PttRow
<1>7. /\ db = [prepaid |-> db.prepaid, ptt |-> db.ptt, sale |-> db.sale]
      /\ db.ptt \in [PttIds -> PttRow \union {NoRow}]
  BY <1>1 DEF Database
<1>8. /\ retired.ptt = [db.ptt EXCEPT ![t] = row] /\ retired.prepaid = db.prepaid
      /\ retired.sale = db.sale
      /\ retired = [prepaid |-> retired.prepaid, ptt |-> retired.ptt, sale |-> retired.sale]
  BY <1>4, <1>7
<1>9. retired \in Database
  <2>1. retired.ptt \in [PttIds -> PttRow \union {NoRow}]
    BY <1>6, <1>7, <1>8
  <2>2. /\ retired.prepaid \in [PrepaidIds -> PrepaidRow \union {NoRow}]
        /\ retired.sale \in [SaleIds -> SaleRow \union {NoRow}]
    BY <1>1, <1>8, RowTypes
  <2>3. PICK a, b, e : a = retired.prepaid /\ b = retired.ptt /\ e = retired.sale
    OBVIOUS
  <2> QED BY <1>8, <2>1, <2>2, <2>3 DEF Database
<1>10. OnlyStatus(db, retired)
  <2>1. Live(retired.ptt) = Live(db.ptt)
    BY <1>6, <1>7, <1>8, TablesAssumption, ZenonT(30) DEF Live
  <2>2. ASSUME NEW u \in Live(db.ptt)
        PROVE  /\ retired.ptt[u].prepaid = db.ptt[u].prepaid
               /\ retired.ptt[u].init = db.ptt[u].init
               /\ retired.ptt[u].remain = db.ptt[u].remain
    BY <1>1, <1>6, <1>7, <1>8, LiveIn
  <2> QED BY <1>8, <2>1, <2>2 DEF OnlyStatus
<1>11. OnlyStatus(db, closed)
  BY <1>1, ExpireEffect
<1>12. OnlyStatus(retired, closed)
  <2>1. closed.sale = retired.sale /\ Live(closed.prepaid) = Live(retired.prepaid)
        /\ Live(closed.ptt) = Live(retired.ptt)
    BY <1>10, <1>11 DEF OnlyStatus
  <2>2. ASSUME NEW p \in Live(retired.prepaid)
        PROVE  /\ closed.prepaid[p].type = retired.prepaid[p].type
               /\ closed.prepaid[p].init = retired.prepaid[p].init
               /\ closed.prepaid[p].remain = retired.prepaid[p].remain
    BY <1>10, <1>11 DEF OnlyStatus
  <2>3. ASSUME NEW u \in Live(retired.ptt)
        PROVE  /\ closed.ptt[u].prepaid = retired.ptt[u].prepaid
               /\ closed.ptt[u].init = retired.ptt[u].init
               /\ closed.ptt[u].remain = retired.ptt[u].remain
    BY <1>10, <1>11 DEF OnlyStatus
  <2> QED BY <2>1, <2>2, <2>3 DEF OnlyStatus
<1>13. /\ Kept(db, retired) /\ RowsRefer(retired) /\ Adds(db, retired, {}, {}, {})
       /\ MoneyKept(db, granted, retired, granted)
  BY <1>1, <1>9, <1>10, OnlyStatusKeeps
<1>14. Kept(retired, closed)
  BY <1>2, <1>9, <1>12, <1>13, OnlyStatusKeeps
<1>15. PICK v, w : v = Write(retired, {}, {}, granted) /\ w = Write(closed, {}, {}, granted)
  OBVIOUS
<1>16. IsPlan(v) /\ IsPlan(w)
  BY <1>1, <1>2, <1>3, <1>13, <1>15, OnePlan
<1>17. CASE closed = retired
  <2>1. <<v>> \o <<>> = <<v>>
    BY <1>16 DEF IsPlan
  <2> QED BY <1>15, <1>16, <1>17, <2>1, OneCommit
<1>18. CASE closed # retired
  <2>1. v \in Writes /\ w \in Writes
    BY <1>16 DEF IsPlan
  <2>2. PICK q : q = <<v>> \o <<w>>
    OBVIOUS
  <2>3. q \in Seq(Writes) /\ Len(q) = 2 /\ q[1] = v /\ q[2] = w
    <3>1. PICK a, b : a = <<v>> /\ b = <<w>>
      OBVIOUS
    <3>2. a \in Seq(Writes) /\ b \in Seq(Writes) /\ Len(a) = 1 /\ Len(b) = 1
          /\ a[1] = v /\ b[1] = w
      BY <2>1, <3>1
    <3>3. PICK m, n : m = Len(a) /\ n = Len(b)
      OBVIOUS
    <3>4. /\ a \o b \in Seq(Writes) /\ Len(a \o b) = m + n
          /\ \A i \in 1..m + n : (a \o b)[i] = IF i <= m THEN a[i] ELSE b[i - m]
      BY <3>2, <3>3, ConcatProperties
    <3>5. m = 1 /\ n = 1
      BY <3>2, <3>3
    <3>6. PICK d : d = a \o b
      OBVIOUS
    <3>7. d \in Seq(Writes) /\ Len(d) = 2 /\ d[1] = a[1] /\ d[2] = b[1]
      BY <3>4, <3>5, <3>6
    <3> QED BY <2>2, <3>1, <3>2, <3>6, <3>7
  <2>4. v.db = retired /\ w.db = closed
    BY <1>15 DEF Write
  <2>5. retired.sale = db.sale /\ closed.sale = db.sale
    BY <1>10, <1>11 DEF OnlyStatus
  <2>6. /\ q # <<>> /\ Len(q) <= 2
        /\ \A i \in DOMAIN q : IsPlan(q[i])
    <3>1. DOMAIN q = 1..2
      BY <2>3, LenProperties
    <3>2. Len(<<>>) = 0
      BY EmptySeq
    <3>3. q # <<>>
      <4> SUFFICES ASSUME q = <<>> PROVE FALSE
        OBVIOUS
      <4>1. Len(q) = 0
        BY <3>2
      <4> QED BY ONLY <4>1, <2>3
    <3> QED BY <1>16, <2>3, <3>1, <3>3
  <2>7. ArePlans(q)
    BY <1>13, <1>14, <2>3, <2>4, <2>5, <2>6 DEF ArePlans
  <2> QED BY <1>15, <1>18, <2>2, <2>7
<1> QED BY <1>17, <1>18

-----------------------------------------------------------------------------
\* What the pages may send.
LEMMA Inputs ==
    /\ \A v \in Amounts : v \in Nat
    /\ \A r \in Remains : r \in Nat
    /\ \A d \in Days : d \in Nat
    /\ \A type \in Types : type \in PrepaidTypes
    /\ Today \in Nat
BY SessionsAssumption DEF Days

\* What a service method may rely on when it reads the stored tables.
LEMMA StoredFacts ==
    ASSUME SInv
    PROVE  /\ TypeOK /\ db \in Database /\ granted \in [PttIds -> Int] /\ RowsRefer(db)
           /\ PaymentsWithinItems(db)
           /\ \A p \in PrepaidIds : IsFresh("prepaid", p) => p \notin Live(db.prepaid)
           /\ \A t \in PttIds : IsFresh("ptt", t) => t \notin Live(db.ptt)
           /\ \A s \in SaleIds : IsFresh("sale", s) => s \notin Live(db.sale)
<1>1. TypeOK /\ EachCopy /\ References
  BY DEF SInv
<1>2. Holds(db)
  BY <1>1, CopiesAre DEF EachCopy
<1>3. /\ \A p \in PrepaidIds : IsFresh("prepaid", p) => p \notin Live(db.prepaid)
      /\ \A t \in PttIds : IsFresh("ptt", t) => t \notin Live(db.ptt)
      /\ \A s \in SaleIds : IsFresh("sale", s) => s \notin Live(db.sale)
  BY <1>1, CopiesAre, FreshIsNew
<1> QED BY <1>1, <1>2, <1>3 DEF TypeOK, References, Holds

\* A request that plans one commit, of what a service method leaves.
LEMMA OneCommitKeeps ==
    ASSUME SInv, NEW c \in Requests, NEW next, NEW g \in [PttIds -> Int],
           NEW ps \in SUBSET PrepaidIds, NEW ts \in SUBSET PttIds, NEW np, NEW nt, NEW ns,
           Kept(db, next), Adds(db, next, np, nt, ns), MoneyKept(db, granted, next, g),
           \A p \in np : p \in PrepaidIds /\ IsFresh("prepaid", p),
           \A t \in nt : t \in PttIds /\ IsFresh("ptt", t),
           \A s \in ns : s \in SaleIds /\ IsFresh("sale", s),
           Begin(c, <<Write(next, ps, ts, g)>>)
    PROVE  SInv'
BY OnePlan, OneCommit, BeginKeeps

\* One lemma for each request: what it computes from what it read is a plan of
\* commits that keep the invariant.  Selling a prepaid,
LEMMA AddPrepaidStep ==
    ASSUME SInv, NEW c \in Requests, NEW p \in PrepaidIds, NEW t \in PttIds, NEW type \in Types,
           NEW v \in Amounts, NEW date \in Days, NEW expiry \in Days,
           AddPrepaid(c, p, t, type, v, date, expiry)
    PROVE  SInv'
<1>1. PICK next, g : /\ next = AddPrepaidDb(db, p, t, type, v, date, expiry)
                     /\ g = [granted EXCEPT ![t] = InitValue(type, v)]
  OBVIOUS
<1>2. /\ v \in Nat /\ date \in Nat /\ expiry \in Nat /\ type \in PrepaidTypes
      /\ IsFresh("prepaid", p) /\ IsFresh("ptt", t)
      /\ p \notin Live(db.prepaid) /\ t \notin Live(db.ptt)
      /\ Begin(c, <<Write(next, {}, {}, g)>>)
  BY <1>1, Inputs, StoredFacts DEF AddPrepaid
<1>3. Kept(db, next) /\ Adds(db, next, {p}, {t}, {}) /\ next \in Database
  <2>1. db \in Database /\ RowsRefer(db)
    BY StoredFacts
  <2>2. Kept(db, next) /\ Adds(db, next, {p}, {t}, {})
    BY <1>1, <1>2, <2>1, AddPrepaidKeeps
  <2> QED BY <2>2 DEF Kept
<1>4. MoneyKept(db, granted, next, g)
  BY <1>1, <1>2, <1>3, StoredFacts, AddPrepaidMoney
<1>5. g \in [PttIds -> Int]
  BY <1>1, <1>2, StoredFacts, InitValueType
<1> QED BY <1>2, <1>3, <1>4, <1>5, OneCommitKeeps

\* topping it up, which writes the transactions carried over as well,
LEMMA TopUpStep ==
    ASSUME SInv, NEW c \in Requests, NEW p \in PrepaidIds, NEW t \in PttIds, NEW v \in Amounts,
           NEW date \in Days, NEW expiry \in Days, TopUp(c, p, t, v, date, expiry)
    PROVE  SInv'
<1>1. PICK next, g, carried : /\ next = TopUpDb(db, p, t, v, date, expiry)
                              /\ g = [granted EXCEPT ![t] = v]
                              /\ carried = {u \in PttsOf(db, p) :
                                              db.ptt[u].active /\ db.ptt[u].remain > 0}
  OBVIOUS
<1>2. /\ v \in Nat /\ date \in Nat /\ expiry \in Nat
      /\ IsFresh("ptt", t) /\ p \in Live(db.prepaid) /\ t \notin Live(db.ptt)
      /\ Begin(c, <<Write(next, {}, carried, g)>>)
  BY <1>1, Inputs, StoredFacts DEF TopUp
<1>3. Kept(db, next) /\ Adds(db, next, {}, {t}, {}) /\ next \in Database
  <2>1. db \in Database /\ RowsRefer(db)
    BY StoredFacts
  <2>2. Kept(db, next) /\ Adds(db, next, {}, {t}, {})
    BY <1>1, <1>2, <2>1, TopUpKeeps
  <2> QED BY <2>2 DEF Kept
<1>4. MoneyKept(db, granted, next, g)
  BY <1>1, <1>2, <1>3, StoredFacts, TopUpMoney
<1>5. g \in [PttIds -> Int]
  BY <1>1, <1>2, StoredFacts
<1>6. carried \in SUBSET PttIds
  BY <1>1, StoredFacts, LiveIn DEF PttsOf
<1> QED BY <1>2, <1>3, <1>4, <1>5, <1>6, OneCommitKeeps

\* editing a prepaid with its only transaction,
LEMMA EditPrepaidStep ==
    ASSUME SInv, NEW c \in Requests, NEW p \in PrepaidIds, NEW t \in PttIds, NEW v \in Amounts,
           NEW r \in Remains, NEW active \in BOOLEAN, NEW date \in Days, NEW expiry \in Days,
           EditPrepaid(c, p, t, v, r, active, date, expiry)
    PROVE  SInv'
<1>1. PICK next, g : /\ next = EditPrepaidDb(db, p, t, v, r, active, date, expiry)
                     /\ g = [granted EXCEPT ![t] = r + Total(DrawnOn(db, t), NSales)]
  OBVIOUS
<1>2. /\ v \in Nat /\ r \in Nat /\ date \in Nat /\ expiry \in Nat
      /\ p \in Live(db.prepaid) /\ PttsOf(db, p) = {t}
      /\ Begin(c, <<Write(next, {p}, {t}, g)>>)
  BY <1>1, Inputs DEF EditPrepaid
<1>3. Kept(db, next) /\ Adds(db, next, {}, {}, {}) /\ next \in Database
  BY <1>1, <1>2, StoredFacts, EditPrepaidKeeps DEF Kept
<1>4. MoneyKept(db, granted, next, g)
  BY <1>1, <1>2, <1>3, StoredFacts, EditPrepaidMoney
<1>5. g \in [PttIds -> Int]
  BY <1>1, <1>2, StoredFacts, DrawnType
<1> QED BY <1>2, <1>3, <1>4, <1>5, OneCommitKeeps

\* editing a transaction,
LEMMA EditTopUpStep ==
    ASSUME SInv, NEW c \in Requests, NEW t \in PttIds, NEW v \in Amounts, NEW r \in Remains,
           NEW active \in BOOLEAN, NEW date \in Days, NEW expiry \in Days,
           EditTopUp(c, t, v, r, active, date, expiry)
    PROVE  SInv'
<1>1. PICK next, g : /\ next = EditTopUpDb(db, t, v, r, active, date, expiry)
                     /\ g = [granted EXCEPT ![t] = r + Total(DrawnOn(db, t), NSales)]
  OBVIOUS
<1>2. /\ v \in Nat /\ r \in Nat /\ date \in Nat /\ expiry \in Nat /\ t \in Live(db.ptt)
      /\ Begin(c, <<Write(next, {}, {t}, g)>>)
  BY <1>1, Inputs DEF EditTopUp
<1>3. Kept(db, next) /\ Adds(db, next, {}, {}, {}) /\ next \in Database
  BY <1>1, <1>2, StoredFacts, EditTopUpKeeps DEF Kept
<1>4. MoneyKept(db, granted, next, g)
  BY <1>1, <1>2, <1>3, StoredFacts, EditTopUpMoney
<1>5. g \in [PttIds -> Int]
  BY <1>1, <1>2, StoredFacts, DrawnType
<1> QED BY <1>2, <1>3, <1>4, <1>5, OneCommitKeeps

\* Deleting transactions forgets what was granted for them only.
LEMMA ForgottenType ==
    ASSUME SInv, NEW ts
    PROVE  /\ Forgotten(ts) \in [PttIds -> Int]
           /\ \A t \in PttIds \ ts : Forgotten(ts)[t] = granted[t]
BY StoredFacts DEF Forgotten

\* Deleting a prepaid with its transactions,
LEMMA DeletingPrepaidKeeps ==
    ASSUME SInv, NEW c \in Requests, NEW p \in PrepaidIds, p \in Live(db.prepaid),
           Begin(c, <<Write(DeletePrepaidDb(db, p), {}, {}, Forgotten(PttsOf(db, p)))>>)
    PROVE  SInv'
<1>1. PICK next, g : next = DeletePrepaidDb(db, p) /\ g = Forgotten(PttsOf(db, p))
  OBVIOUS
<1>2. Kept(db, next) /\ Adds(db, next, {}, {}, {}) /\ next \in Database
  BY <1>1, StoredFacts, DeletePrepaidKeeps DEF Kept
<1>3. g \in [PttIds -> Int] /\ \A u \in PttIds \ PttsOf(db, p) : g[u] = granted[u]
  BY <1>1, ForgottenType
<1>4. MoneyKept(db, granted, next, g)
  BY <1>1, <1>2, <1>3, StoredFacts, DeletePrepaidMoney
<1>5. Begin(c, <<Write(next, {}, {}, g)>>)
  BY <1>1
<1> QED BY <1>2, <1>3, <1>4, <1>5, OneCommitKeeps

\* deleting one transaction,
LEMMA DeletingTopUpKeeps ==
    ASSUME SInv, NEW c \in Requests, NEW t \in PttIds, t \in Live(db.ptt),
           Begin(c, <<Write(DeleteTopUpDb(db, t), {}, {}, Forgotten({t}))>>)
    PROVE  SInv'
<1>1. PICK next, g : next = DeleteTopUpDb(db, t) /\ g = Forgotten({t})
  OBVIOUS
<1>2. Kept(db, next) /\ Adds(db, next, {}, {}, {}) /\ next \in Database
  BY <1>1, StoredFacts, DeleteTopUpKeeps DEF Kept
<1>3. g \in [PttIds -> Int] /\ \A u \in PttIds : u # t => g[u] = granted[u]
  BY <1>1, ForgottenType
<1>4. MoneyKept(db, granted, next, g)
  BY <1>1, <1>2, <1>3, StoredFacts, DeleteTopUpMoney
<1>5. Begin(c, <<Write(next, {}, {}, g)>>)
  BY <1>1
<1> QED BY <1>2, <1>3, <1>4, <1>5, OneCommitKeeps

\* deleting the order either was sold with,
LEMMA RemoveOrderStep ==
    ASSUME SInv, NEW c \in Requests, NEW t \in PttIds, RemoveOrder(c, t)
    PROVE  SInv'
<1>1. PICK p : p = db.ptt[t].prepaid
  OBVIOUS
<1>2. t \in Live(db.ptt) /\ p \in Live(db.prepaid) /\ p \in PrepaidIds
  BY <1>1, StoredFacts, LiveIn DEF RemoveOrder, RowsRefer
<1>3. \/ Begin(c, <<Write(DeletePrepaidDb(db, p), {}, {}, Forgotten(PttsOf(db, p)))>>)
      \/ Begin(c, <<Write(DeleteTopUpDb(db, t), {}, {}, Forgotten({t}))>>)
  BY <1>1 DEF RemoveOrder
<1> QED BY <1>2, <1>3, DeletingPrepaidKeeps, DeletingTopUpKeeps

\* checking out,
LEMMA CheckOutStep ==
    ASSUME SInv, NEW c \in Requests, NEW p \in PrepaidIds, NEW s \in SaleIds, NEW qty \in Amounts,
           CheckOut(c, p, s, qty)
    PROVE  SInv'
<1>1. PICK next : next = CheckOutDb(db, p, s, Today, qty)
  OBVIOUS
<1>2. /\ qty \in Nat /\ Today \in Nat /\ IsFresh("sale", s)
      /\ p \in Live(db.prepaid) /\ s \notin Live(db.sale)
      /\ Begin(c, <<Write(next, {}, {}, granted)>>)
  BY <1>1, Inputs, StoredFacts DEF CheckOut
<1>3. Kept(db, next) /\ Adds(db, next, {}, {}, {s}) /\ next \in Database
  BY <1>1, <1>2, StoredFacts, CheckOutKeeps DEF Kept
<1>4. MoneyKept(db, granted, next, granted)
  BY <1>1, <1>2, <1>3, StoredFacts, CheckOutMoney
<1> QED BY <1>2, <1>3, <1>4, StoredFacts, OneCommitKeeps

\* deleting the order of a checkout,
LEMMA RemoveSaleStep ==
    ASSUME SInv, NEW c \in Requests, NEW s \in SaleIds, RemoveSale(c, s)
    PROVE  SInv'
<1>1. PICK next : next = RemoveSaleDb(db, s)
  OBVIOUS
<1>2. s \in Live(db.sale) /\ Begin(c, <<Write(next, {}, {}, granted)>>)
  BY <1>1 DEF RemoveSale
<1>3. Kept(db, next) /\ Adds(db, next, {}, {}, {}) /\ next \in Database
  BY <1>1, <1>2, StoredFacts, RemoveSaleKeeps DEF Kept
<1>4. MoneyKept(db, granted, next, granted)
  BY <1>1, <1>2, <1>3, StoredFacts, RemoveSaleMoney
<1> QED BY <1>2, <1>3, <1>4, StoredFacts, OneCommitKeeps

\* and the job.
LEMMA ExpireStep ==
    ASSUME SInv, NEW c \in Requests, NEW t \in PttIds, Expire(c, t)
    PROVE  SInv'
BY ExpirePlans, BeginKeeps DEF Expire

\* A step that changes nothing.
LEMMA IdleKeeps ==
    ASSUME SInv, UNCHANGED vars
    PROVE  SInv'
<1>1. /\ db' = db /\ granted' = granted /\ phase' = phase /\ held' = held /\ todo' = todo
      /\ stale' = stale /\ overwrote' = overwrote /\ torn' = torn /\ refunds' = refunds
  BY DEF vars
<1>2. TypeOK' /\ Shape' /\ Chain'
  BY <1>1 DEF SInv, TypeOK, Shape, Chain
<1>3. EachCopy' /\ Agreement'
  BY <1>1 DEF SInv, EachCopy, Agreement, Copies, CopiesOf, Planned
<1>4. References' /\ Owned' /\ FreshRows' /\ Refunded'
  BY <1>1 DEF SInv, References, Owned, CopiesOf, Planned, FreshRows, Refunded
<1>5. ~overwrote' => BalancesRight'
  BY <1>1 DEF SInv, BalancesRight, Copies, CopiesOf, Planned, FreshDraws
<1> QED BY <1>2, <1>3, <1>4, <1>5 DEF SInv

\* Whatever requests overlap, and however they end.
LEMMA NextHolds ==
    ASSUME SInv, [Next]_vars
    PROVE  SInv'
<1>1. ASSUME NEW c \in Requests, NEW p \in PrepaidIds, NEW t \in PttIds, NEW type \in Types,
             NEW v \in Amounts, NEW date \in Days, NEW expiry \in Days,
             AddPrepaid(c, p, t, type, v, date, expiry)
      PROVE  SInv'
  BY <1>1, AddPrepaidStep
<1>2. ASSUME NEW c \in Requests, NEW p \in PrepaidIds, NEW t \in PttIds, NEW v \in Amounts,
             NEW date \in Days, NEW expiry \in Days, TopUp(c, p, t, v, date, expiry)
      PROVE  SInv'
  BY <1>2, TopUpStep
<1>3. ASSUME NEW c \in Requests, NEW p \in PrepaidIds, NEW t \in PttIds, NEW v \in Amounts,
             NEW r \in Remains, NEW active \in BOOLEAN, NEW date \in Days, NEW expiry \in Days,
             EditPrepaid(c, p, t, v, r, active, date, expiry)
      PROVE  SInv'
  BY <1>3, EditPrepaidStep
<1>4. ASSUME NEW c \in Requests, NEW t \in PttIds, NEW v \in Amounts, NEW r \in Remains,
             NEW active \in BOOLEAN, NEW date \in Days, NEW expiry \in Days,
             EditTopUp(c, t, v, r, active, date, expiry)
      PROVE  SInv'
  BY <1>4, EditTopUpStep
<1>5. ASSUME NEW c \in Requests, NEW p \in PrepaidIds, DeletePrepaid(c, p)
      PROVE  SInv'
  BY <1>5, DeletingPrepaidKeeps DEF DeletePrepaid
<1>6. ASSUME NEW c \in Requests, NEW t \in PttIds, DeleteTopUp(c, t)
      PROVE  SInv'
  BY <1>6, DeletingTopUpKeeps DEF DeleteTopUp
<1>7. ASSUME NEW c \in Requests, NEW p \in PrepaidIds, NEW s \in SaleIds, NEW qty \in Amounts,
             CheckOut(c, p, s, qty)
      PROVE  SInv'
  BY <1>7, CheckOutStep
<1>8. ASSUME NEW c \in Requests, NEW s \in SaleIds, RemoveSale(c, s)
      PROVE  SInv'
  BY <1>8, RemoveSaleStep
<1>9. ASSUME NEW c \in Requests, NEW t \in PttIds, RemoveOrder(c, t)
      PROVE  SInv'
  BY <1>9, RemoveOrderStep
<1>10. ASSUME NEW c \in Requests, NEW t \in PttIds, Expire(c, t)
       PROVE  SInv'
  BY <1>10, ExpireStep
<1>11. ASSUME NEW c \in Requests, Commit(c) \/ Fail(c)
       PROVE  SInv'
  BY <1>11, CommitKeeps, FailKeeps
<1>12. CASE UNCHANGED vars
  BY <1>12, IdleKeeps
<1>13. CASE Done
  BY <1>12, <1>13 DEF Done
<1> QED BY <1>1, <1>2, <1>3, <1>4, <1>5, <1>6, <1>7, <1>8, <1>9, <1>10, <1>11, <1>12, <1>13
        DEF Next

-----------------------------------------------------------------------------
\* Whatever overlaps, and whichever request fails, sessions, plans and what is
\* stored stay in the relation the invariant states.
THEOREM Invariance == Spec => []SInv
<1>1. Init => SInv
  BY InitHolds
<1>2. SInv /\ [Next]_vars => SInv'
  BY NextHolds
<1> QED BY <1>1, <1>2, PTL DEF Spec

\* The database, the sessions and what they plan to write hold rows.
THEOREM TypeCorrect == Spec => []TypeOK
<1>1. SInv => TypeOK
  BY DEF SInv
<1> QED BY <1>1, Invariance, PTL

\* Balances, the cash accounted for and what is owed can go wrong only through
\* a commit that wrote over a row changed since it was read.
THEOREM RightUnlessOverwrittenHolds == Spec => []RightUnlessOverwritten
<1>1. SInv => RightUnlessOverwritten
  <2> SUFFICES ASSUME SInv, ~overwrote
               PROVE  SumsAgree(db) /\ CashAdds(db, granted) /\ NothingNegative(db)
    BY DEF RightUnlessOverwritten
  <2>1. BalancesRight /\ EachCopy /\ TypeOK
    BY DEF SInv
  <2>2. SumsAgree(db) /\ CashAdds(db, granted) /\ Holds(db) /\ db \in Database
    BY <2>1, CopiesAre DEF BalancesRight, EachCopy, TypeOK
  <2> QED BY <2>2, MoneyIsThere
<1> QED BY <1>1, Invariance, PTL

\* An order is refunded at most once, even if two requests delete it.
THEOREM RefundedOnceHolds == Spec => []RefundedOnce
<1>1. SInv => RefundedOnce
  BY DEF SInv, Refunded, RefundedOnce
<1> QED BY <1>1, Invariance, PTL

\* No transaction is taken below zero, overwritten or not.
THEOREM NoPttOverdrawnHolds == Spec => []NoPttOverdrawn
<1>1. SInv => NoPttOverdrawn
  BY CopiesAre DEF SInv, EachCopy, Holds, NoPttOverdrawn
<1> QED BY <1>1, Invariance, PTL

\* Every transaction stored has its prepaid, and every payment its transaction,
\* of the prepaid the item was paid with.
THEOREM StoredRowsReferHolds == Spec => []StoredRowsRefer
<1>1. SInv => StoredRowsRefer
  BY DEF SInv, References, StoredRowsRefer
<1> QED BY <1>1, Invariance, PTL

-----------------------------------------------------------------------------
(***************************************************************************)
(* Vouchers.  A voucher and its one transaction are two rows; a request    *)
(* that changes one of them writes both, or closes one that the other is   *)
(* closed with, and only the job does that in two commits.                 *)
(***************************************************************************)
\* The rows that commit w writes of a session that holds x.
Rewrites(x, w, p)    == p \in w.ps \/ w.db.prepaid[p] # x.prepaid[p]
RewritesPtt(x, w, t) == t \in w.ts \/ w.db.ptt[t] # x.ptt[t]

IsVoucher(x, p) == x.prepaid[p].type \in VoucherTypes

InStep(x, t) == x.ptt[t].remain > 0 => x.prepaid[x.ptt[t].prepaid].active = x.ptt[t].active

\* Two copies know the same one transaction of a voucher.
Single(x, y) ==
    \A t \in Live(x.ptt), u \in Live(y.ptt) :
        x.ptt[t].prepaid = y.ptt[u].prepaid /\ IsVoucher(x, x.ptt[t].prepaid)
            => t = u /\ x.ptt[t].root

OnePtt == \A x \in Copies, y \in Copies : Single(x, y)

\* What a commit may do to a voucher with transaction t: leave both rows; write
\* the voucher in step with its transaction, alone only to close it; or close
\* the transaction, the voucher being closed or closed by the next commit.
MovesVoucher(x, w, t, closes) ==
    LET p == w.db.ptt[t].prepaid
    IN  \/ ~Rewrites(x, w, p) /\ ~RewritesPtt(x, w, t)
        \/ /\ Rewrites(x, w, p) /\ InStep(w.db, t)
           /\ RewritesPtt(x, w, t) \/ ~w.db.prepaid[p].active
        \/ /\ ~Rewrites(x, w, p) /\ RewritesPtt(x, w, t) /\ ~w.db.ptt[t].active
           /\ t \in Live(x.ptt) /\ x.ptt[t].remain = w.db.ptt[t].remain
           /\ x.prepaid[p].active => closes

MovesVouchers(x, w, closing) ==
    \A t \in Live(w.db.ptt) :
        IsVoucher(w.db, w.db.ptt[t].prepaid) =>
            MovesVoucher(x, w, t, w.db.ptt[t].prepaid \in closing)

\* The prepaids that are closed when the second of two commits is made.
Closing(writes) ==
    IF Len(writes) = 2
    THEN {p \in Live(writes[2].db.prepaid) : ~writes[2].db.prepaid[p].active} ELSE {}

MovesInStep ==
    \A c \in Requests : todo[c] # <<>> =>
        /\ MovesVouchers(held[c], todo[c][1], Closing(todo[c]))
        /\ Len(todo[c]) = 2 => MovesVouchers(todo[c][1].db, todo[c][2], {})

\* The job has closed the transaction and has yet to close the voucher.
Mends(c, t) ==
    LET p == db.ptt[t].prepaid
    IN  /\ phase[c] = "half" /\ ~db.ptt[t].active
        /\ p \in Live(held[c].prepaid) /\ held[c].prepaid[p].active
        /\ ~todo[c][1].db.prepaid[p].active

StepOrMend ==
    \A t \in Live(db.ptt) : IsVoucher(db, db.ptt[t].prepaid) =>
        InStep(db, t) \/ \E c \in Requests : Mends(c, t)

\* Where another request has since written only one of the two rows, it closed
\* it: the row is open only if the session holds the other open.
OnlyClosed ==
    \A c \in Requests : todo[c] # <<>> =>
        \A t \in Live(db.ptt) : IsVoucher(db, db.ptt[t].prepaid) /\ db.ptt[t].remain > 0 =>
            LET p == db.ptt[t].prepaid
            IN  /\ <<"ptt", t>> \notin stale[c] /\ db.prepaid[p].active
                      => held[c].prepaid[p].active
                /\ <<"prepaid", p>> \notin stale[c] /\ t \in Live(held[c].ptt) /\ db.ptt[t].active
                      => held[c].ptt[t].active

VInv == OnePtt /\ (~overwrote /\ ~torn => MovesInStep /\ StepOrMend /\ OnlyClosed)

-----------------------------------------------------------------------------
\* The balance of a voucher is that of its transaction.
LEMMA VoucherBalance ==
    ASSUME NEW x \in Database, PttsRefer(x), Single(x, x), NEW t \in Live(x.ptt),
           NEW p, p = x.ptt[t].prepaid, IsVoucher(x, p)
    PROVE  /\ p \in Live(x.prepaid) /\ p \in PrepaidIds /\ t \in PttIds
           /\ x.prepaid[p] \in PrepaidRow /\ x.ptt[t] \in PttRow
           /\ PttsOf(x, p) = {t}
           /\ x.ptt[t].root
           /\ SumsAgree(x) => x.prepaid[p].remain = x.ptt[t].remain
<1>1. p \in Live(x.prepaid)
  BY DEF PttsRefer
<1>2. p \in PrepaidIds /\ t \in PttIds /\ x.prepaid[p] \in PrepaidRow /\ x.ptt[t] \in PttRow
  BY <1>1, RowTypes
<1>3. PttsOf(x, p) = {t} /\ x.ptt[t].root
  BY DEF PttsOf, Single
<1>4. SumsAgree(x) => x.prepaid[p].remain = x.ptt[t].remain
  BY <1>1, <1>2, <1>3, SingleIsBalanced DEF SumsAgree
<1> QED BY <1>1, <1>2, <1>3, <1>4

\* A transaction two copies have is of one voucher in both.
LEMMA VoucherInBoth ==
    ASSUME NEW x, NEW y, Agree(x, y), PttsRefer(x), PttsRefer(y),
           NEW t \in Live(x.ptt), t \in Live(y.ptt)
    PROVE  /\ y.ptt[t].prepaid = x.ptt[t].prepaid
           /\ IsVoucher(y, x.ptt[t].prepaid) <=> IsVoucher(x, x.ptt[t].prepaid)
BY DEF Agree, PttsRefer, IsVoucher

\* A voucher with no transaction has no balance.
LEMMA NoPttNoBalance ==
    ASSUME NEW x \in Database, SumsAgree(x), NEW p \in Live(x.prepaid), PttsOf(x, p) = {}
    PROVE  x.prepaid[p].remain = 0
<1>1. /\ RemainOf(x, p) \in [1..NPtts -> Int] /\ NPtts \in Nat
  BY ColumnTypes, TablesAssumption DEF PttIds
<1>2. \A t \in 1..NPtts : RemainOf(x, p)[t] = 0
  BY DEF RemainOf, PttIds
<1>3. Total(RemainOf(x, p), NPtts) = 0
  BY <1>1, <1>2, TotalZero
<1> QED BY <1>3 DEF SumsAgree

\* n is what is stored with the rows that commit w of c writes, none of which
\* others have written.
WritesFresh(c, w, n) ==
    /\ \A p \in PrepaidIds :
          IF Rewrites(held[c], w, p)
          THEN /\ n.prepaid[p] = w.db.prepaid[p] /\ db.prepaid[p] = held[c].prepaid[p]
               /\ <<"prepaid", p>> \notin stale[c]
          ELSE n.prepaid[p] = db.prepaid[p] /\ w.db.prepaid[p] = held[c].prepaid[p]
    /\ \A t \in PttIds :
          IF RewritesPtt(held[c], w, t)
          THEN /\ n.ptt[t] = w.db.ptt[t] /\ db.ptt[t] = held[c].ptt[t]
               /\ <<"ptt", t>> \notin stale[c]
          ELSE n.ptt[t] = db.ptt[t] /\ w.db.ptt[t] = held[c].ptt[t]

\* What a commit that overwrites nothing does to rows and sessions.
LEMMA CommitWrites ==
    ASSUME SInv, ~overwrote', NEW c \in Requests, NEW w, w = Head(todo[c]), Commit(c)
    PROVE  /\ todo[c] # <<>> /\ w = todo[c][1] /\ w \in Planned(c)
           /\ ~overwrote /\ torn' = torn
           /\ Len(todo[c]) = 1 \/ Len(todo[c]) = 2
           /\ WritesFresh(c, w, db')
           /\ \A r \in Requests \ {c} :
                 /\ held'[r] = held[r] /\ todo'[r] = todo[r] /\ phase'[r] = phase[r]
                 /\ todo[r] # <<>> =>
                       /\ \A p \in PrepaidIds : <<"prepaid", p>> \notin stale'[r] =>
                             <<"prepaid", p>> \notin stale[r] /\ ~Rewrites(held[c], w, p)
                       /\ \A t \in PttIds : <<"ptt", t>> \notin stale'[r] =>
                             <<"ptt", t>> \notin stale[r] /\ ~RewritesPtt(held[c], w, t)
           /\ Len(todo[c]) = 1 => todo'[c] = <<>> /\ phase'[c] = "over"
           /\ Len(todo[c]) = 2 =>
                 /\ phase'[c] = "half" /\ held'[c] = w.db
                 /\ Len(todo'[c]) = 1 /\ todo'[c] # <<>> /\ todo'[c][1] = todo[c][2]
                 /\ \A p \in PrepaidIds : <<"prepaid", p>> \notin stale'[c] =>
                       <<"prepaid", p>> \notin stale[c]
                 /\ \A t \in PttIds : <<"ptt", t>> \notin stale'[c] => <<"ptt", t>> \notin stale[c]
<1>1. TypeOK /\ Shape
  BY DEF SInv
<1>2. /\ todo[c] # <<>> /\ RowsPresent(c) /\ torn' = torn
      /\ overwrote' = (overwrote \/ WrittenRows(c) \intersect stale[c] # {})
      /\ stale' = [r \in Requests |->
            IF phase'[r] \notin {"running", "half"} THEN {}
            ELSE IF r = c THEN stale[c] \ WrittenRows(c)
            ELSE stale[r] \union WrittenRows(c)]
  BY DEF Commit
<1>3. /\ Len(todo[c]) = 1 =>
            /\ phase' = [phase EXCEPT ![c] = "over"]
            /\ held' = [held EXCEPT ![c] = EmptyDatabase]
            /\ todo' = [todo EXCEPT ![c] = <<>>]
      /\ Len(todo[c]) # 1 =>
            /\ phase' = [phase EXCEPT ![c] = "half"]
            /\ held' = [held EXCEPT ![c] = Head(todo[c]).db]
            /\ todo' = [todo EXCEPT ![c] = Tail(@)]
  BY DEF Commit, Over, Forget
<1>4. /\ held \in [Requests -> Database] /\ todo \in [Requests -> Seq(Writes)]
      /\ phase \in [Requests -> {"waiting", "running", "half", "over"}]
      /\ todo[c] \in Seq(Writes)
  BY <1>1 DEF TypeOK
<1>5. Len(todo[c]) = 1 \/ Len(todo[c]) = 2
  <2>1. Len(todo[c]) <= 2
    BY <1>1 DEF Shape
  <2> QED BY <1>2, <1>4, <2>1, OneOrTwo
<1>6. w = todo[c][1] /\ w \in Planned(c) /\ w.ps \subseteq PrepaidIds /\ w.ts \subseteq PttIds
  <2>1. w = todo[c][1] /\ w \in Planned(c)
    BY <1>1, <1>2, <1>4, CommitRows
  <2> QED BY <1>1, <2>1, CopiesType
<1>7. /\ \A p \in PrepaidIds : p \in WrittenPrepaids(c) <=> Rewrites(held[c], w, p)
      /\ \A t \in PttIds : t \in WrittenPtts(c) <=> RewritesPtt(held[c], w, t)
  BY <1>6 DEF WrittenPrepaids, WrittenPtts, Rewrites, RewritesPtt
<1>8. /\ \A p \in PrepaidIds : <<"prepaid", p>> \in WrittenRows(c) <=> Rewrites(held[c], w, p)
      /\ \A t \in PttIds : <<"ptt", t>> \in WrittenRows(c) <=> RewritesPtt(held[c], w, t)
  BY <1>7 DEF WrittenRows
<1>9. ~overwrote /\ WrittenRows(c) \intersect stale[c] = {}
  BY <1>2
<1>10. ASSUME NEW p \in PrepaidIds
       PROVE  IF Rewrites(held[c], w, p)
              THEN /\ db'.prepaid[p] = w.db.prepaid[p] /\ db.prepaid[p] = held[c].prepaid[p]
                   /\ <<"prepaid", p>> \notin stale[c]
              ELSE db'.prepaid[p] = db.prepaid[p] /\ w.db.prepaid[p] = held[c].prepaid[p]
  <2>1. Rewrites(held[c], w, p) => <<"prepaid", p>> \notin stale[c]
    BY <1>8, <1>9
  <2>2. <<"prepaid", p>> \notin stale[c] => db.prepaid[p] = held[c].prepaid[p]
    BY <1>2, WritesWhatItHeld
  <2>3. IF p \in WrittenPrepaids(c) THEN db'.prepaid[p] = w.db.prepaid[p]
        ELSE db'.prepaid[p] = db.prepaid[p] /\ w.db.prepaid[p] = held[c].prepaid[p]
    BY <1>1, <1>2, CommitRows
  <2> QED BY <1>7, <2>1, <2>2, <2>3
<1>11. ASSUME NEW t \in PttIds
       PROVE  IF RewritesPtt(held[c], w, t)
              THEN /\ db'.ptt[t] = w.db.ptt[t] /\ db.ptt[t] = held[c].ptt[t]
                   /\ <<"ptt", t>> \notin stale[c]
              ELSE db'.ptt[t] = db.ptt[t] /\ w.db.ptt[t] = held[c].ptt[t]
  <2>1. RewritesPtt(held[c], w, t) => <<"ptt", t>> \notin stale[c]
    BY <1>8, <1>9
  <2>2. <<"ptt", t>> \notin stale[c] => db.ptt[t] = held[c].ptt[t]
    BY <1>2, WritesWhatItHeld
  <2>3. IF t \in WrittenPtts(c) THEN db'.ptt[t] = w.db.ptt[t]
        ELSE db'.ptt[t] = db.ptt[t] /\ w.db.ptt[t] = held[c].ptt[t]
    BY <1>1, <1>2, CommitRows
  <2> QED BY <1>7, <2>1, <2>2, <2>3
<1>12. ASSUME NEW r \in Requests \ {c}
       PROVE  /\ held'[r] = held[r] /\ todo'[r] = todo[r] /\ phase'[r] = phase[r]
              /\ todo[r] # <<>> => stale'[r] = stale[r] \union WrittenRows(c)
  <2>1. held'[r] = held[r] /\ todo'[r] = todo[r] /\ phase'[r] = phase[r]
    BY <1>3, <1>4, <1>5
  <2>2. todo[r] # <<>> => phase[r] \in {"running", "half"}
    <3>1. phase[r] \in {"waiting", "running", "half", "over"}
      BY <1>4
    <3> QED BY <1>1, <3>1 DEF Shape
  <2> QED BY <1>2, <2>1, <2>2
<1>13. Len(todo[c]) = 1 => todo'[c] = <<>> /\ phase'[c] = "over"
  BY <1>3, <1>4
<1>14. ASSUME Len(todo[c]) = 2
       PROVE  /\ phase'[c] = "half" /\ held'[c] = w.db
              /\ Len(todo'[c]) = 1 /\ todo'[c] # <<>> /\ todo'[c][1] = todo[c][2]
              /\ stale'[c] = stale[c] \ WrittenRows(c)
  <2>1. /\ phase'[c] = "half" /\ held'[c] = w.db /\ todo'[c] = Tail(todo[c])
    BY <1>3, <1>4, <1>14
  <2>2. /\ Tail(todo[c]) # <<>> /\ Len(Tail(todo[c])) = 1 /\ Tail(todo[c])[1] = todo[c][2]
    BY <1>4, <1>14, TwoToMake
  <2> QED BY <1>2, <2>1, <2>2
<1>15. \A r \in Requests \ {c} : todo[r] # <<>> =>
         /\ \A p \in PrepaidIds : <<"prepaid", p>> \notin stale'[r] =>
               <<"prepaid", p>> \notin stale[r] /\ ~Rewrites(held[c], w, p)
         /\ \A t \in PttIds : <<"ptt", t>> \notin stale'[r] =>
               <<"ptt", t>> \notin stale[r] /\ ~RewritesPtt(held[c], w, t)
  BY <1>8, <1>12
<1>16. Len(todo[c]) = 2 =>
         /\ \A p \in PrepaidIds : <<"prepaid", p>> \notin stale'[c] =>
               <<"prepaid", p>> \notin stale[c]
         /\ \A t \in PttIds : <<"ptt", t>> \notin stale'[c] => <<"ptt", t>> \notin stale[c]
  BY <1>9, <1>14
<1>17. WritesFresh(c, w, db')
  BY <1>10, <1>11 DEF WritesFresh
<1> QED BY <1>2, <1>5, <1>6, <1>9, <1>12, <1>13, <1>14, <1>15, <1>16, <1>17

\* n is d with the rows that commit w, computed on x, writes; those d has as
\* x has them.
Lands(d, x, n, w) ==
    /\ d \in Database /\ x \in Database /\ n \in Database /\ w.db \in Database
    /\ PttsRefer(d) /\ PttsRefer(x) /\ PttsRefer(n) /\ PttsRefer(w.db)
    /\ SumsAgree(d) /\ SumsAgree(x)
    /\ Agree(n, d) /\ Agree(n, x) /\ Agree(n, w.db) /\ Agree(d, x)
    /\ Single(d, d) /\ Single(x, x) /\ Single(d, x)
    /\ \A p \in PrepaidIds :
          IF Rewrites(x, w, p) THEN n.prepaid[p] = w.db.prepaid[p] /\ d.prepaid[p] = x.prepaid[p]
          ELSE n.prepaid[p] = d.prepaid[p] /\ w.db.prepaid[p] = x.prepaid[p]
    /\ \A t \in PttIds :
          IF RewritesPtt(x, w, t) THEN n.ptt[t] = w.db.ptt[t] /\ d.ptt[t] = x.ptt[t]
          ELSE n.ptt[t] = d.ptt[t] /\ w.db.ptt[t] = x.ptt[t]

\* What such a commit leaves of the voucher p of transaction t.  If it writes
\* the voucher alone it closes it, and the transaction is closed or empty; it
\* writes both in step; the transaction alone it closes.
Settles(d, x, n, w, t, p, closing) ==
    /\ p \in PrepaidIds /\ t \in PttIds
    /\ t \in Live(d.ptt) => d.ptt[t].prepaid = p /\ IsVoucher(d, p)
    /\ ~RewritesPtt(x, w, t) => t \in Live(d.ptt)
    /\ Rewrites(x, w, p) /\ RewritesPtt(x, w, t) => InStep(n, t)
    /\ Rewrites(x, w, p) /\ ~RewritesPtt(x, w, t) /\ n.ptt[t].remain > 0 =>
          ~n.prepaid[p].active /\ ~n.ptt[t].active
    /\ ~Rewrites(x, w, p) /\ RewritesPtt(x, w, t) =>
          /\ ~n.ptt[t].active /\ t \in Live(x.ptt) /\ t \in Live(d.ptt)
          /\ d.ptt[t].remain = n.ptt[t].remain
          /\ x.prepaid[p].active => p \in closing

\* Every commit leaves a voucher so, if x has not closed its transaction.
LEMMA MovedVoucher ==
    ASSUME NEW d, NEW x, NEW n, NEW w, Lands(d, x, n, w),
           NEW closing, MovesVouchers(x, w, closing),
           NEW t \in Live(n.ptt), NEW p, p = n.ptt[t].prepaid, IsVoucher(n, p),
           /\ t \in Live(d.ptt) /\ d.ptt[t].remain > 0 /\ Rewrites(x, w, p)
           /\ t \in Live(x.ptt) /\ d.ptt[t].active
           => x.ptt[t].active
    PROVE  Settles(d, x, n, w, t, p, closing)
<1>0. /\ d \in Database /\ x \in Database /\ n \in Database /\ w.db \in Database
      /\ PttsRefer(d) /\ PttsRefer(x) /\ PttsRefer(n) /\ PttsRefer(w.db)
      /\ SumsAgree(d) /\ SumsAgree(x)
      /\ Agree(n, d) /\ Agree(n, x) /\ Agree(n, w.db) /\ Agree(d, x)
      /\ Single(d, d) /\ Single(x, x) /\ Single(d, x)
  BY DEF Lands
<1>20. /\ \A q \in PrepaidIds :
             IF Rewrites(x, w, q) THEN n.prepaid[q] = w.db.prepaid[q] /\ d.prepaid[q] = x.prepaid[q]
             ELSE n.prepaid[q] = d.prepaid[q] /\ w.db.prepaid[q] = x.prepaid[q]
       /\ \A u \in PttIds :
             IF RewritesPtt(x, w, u) THEN n.ptt[u] = w.db.ptt[u] /\ d.ptt[u] = x.ptt[u]
             ELSE n.ptt[u] = d.ptt[u] /\ w.db.ptt[u] = x.ptt[u]
  BY DEF Lands
<1>1. /\ t \in PttIds /\ p \in Live(n.prepaid) /\ p \in PrepaidIds
      /\ n.prepaid[p] \in PrepaidRow /\ n.ptt[t] \in PttRow
  BY <1>0, RowTypes DEF PttsRefer
<1>2. /\ \A y \in {d, x, n, w.db} : /\ \A q : q \in Live(y.prepaid) <=> q \in PrepaidIds /\ y.prepaid[q] # NoRow
                                    /\ \A u : u \in Live(y.ptt) <=> u \in PttIds /\ y.ptt[u] # NoRow
  BY <1>0, LiveIn
<1>3. t \in Live(d.ptt) => d.ptt[t].prepaid = p /\ IsVoucher(d, p)
  BY <1>0, VoucherInBoth
<1>4. t \in Live(x.ptt) => x.ptt[t].prepaid = p /\ IsVoucher(x, p)
  BY <1>0, VoucherInBoth
<1>5. t \in Live(w.db.ptt) => w.db.ptt[t].prepaid = p /\ IsVoucher(w.db, p)
  BY <1>0, VoucherInBoth
<1>6. ~RewritesPtt(x, w, t) => t \in Live(d.ptt)
  BY <1>1, <1>2, <1>20
<1>7. t \in Live(w.db.ptt) => MovesVoucher(x, w, t, p \in closing)
  BY <1>5 DEF MovesVouchers
<1>8. ASSUME Rewrites(x, w, p), RewritesPtt(x, w, t)
      PROVE  InStep(n, t)
  <2>1. /\ n.prepaid[p] = w.db.prepaid[p] /\ n.ptt[t] = w.db.ptt[t] /\ t \in Live(w.db.ptt)
    BY <1>1, <1>2, <1>8, <1>20
  <2>2. InStep(w.db, t)
    BY <1>5, <1>7, <1>8, <2>1 DEF MovesVoucher
  <2> QED BY <1>5, <2>1, <2>2 DEF InStep
<1>9. ASSUME Rewrites(x, w, p), ~RewritesPtt(x, w, t), n.ptt[t].remain > 0
      PROVE  ~n.prepaid[p].active /\ ~n.ptt[t].active
  <2>1. /\ n.prepaid[p] = w.db.prepaid[p] /\ d.prepaid[p] = x.prepaid[p]
        /\ n.ptt[t] = d.ptt[t] /\ w.db.ptt[t] = x.ptt[t] /\ t \in Live(d.ptt)
    BY <1>1, <1>6, <1>9, <1>20
  <2>2. /\ d.ptt[t].prepaid = p /\ IsVoucher(d, p) /\ p \in Live(d.prepaid)
    BY <1>0, <1>3, <2>1 DEF PttsRefer
  <2>3. d.prepaid[p].remain = d.ptt[t].remain
    BY <1>0, <2>1, <2>2, VoucherBalance
  <2>4. p \in Live(x.prepaid)
    BY <1>1, <1>2, <2>1, <2>2
  <2>5. t \in Live(x.ptt)
    <3> SUFFICES ASSUME t \notin Live(x.ptt) PROVE FALSE
      OBVIOUS
    <3>1. PttsOf(x, p) = {}
      BY <1>0, <2>1, <2>2 DEF PttsOf, Single
    <3>2. x.prepaid[p].remain = 0
      BY <1>0, <2>4, <3>1, NoPttNoBalance
    <3>3. n.ptt[t].remain = 0
      BY <2>1, <2>3, <3>2
    <3> QED BY <1>9, <3>3
  <2>6. x.prepaid[p].remain = x.ptt[t].remain
    BY <1>0, <1>4, <2>5, VoucherBalance
  <2>7. t \in Live(w.db.ptt) /\ w.db.ptt[t].prepaid = p
    BY <1>1, <1>2, <1>5, <2>1, <2>5
  <2>8. InStep(w.db, t) /\ ~w.db.prepaid[p].active
    BY <1>7, <1>9, <2>7 DEF MovesVoucher
  <2>9. w.db.ptt[t].remain > 0
    BY <1>9, <2>1, <2>3, <2>6
  <2>10. w.db.prepaid[p].active = w.db.ptt[t].active
    BY <2>7, <2>8, <2>9 DEF InStep
  <2>11. ~x.ptt[t].active
    BY <2>1, <2>8, <2>10
  <2>12. ~d.ptt[t].active
    BY <1>9, <2>1, <2>5, <2>11
  <2> QED BY <2>1, <2>8, <2>12
<1>10. ASSUME ~Rewrites(x, w, p), RewritesPtt(x, w, t)
       PROVE  /\ ~n.ptt[t].active /\ t \in Live(x.ptt) /\ t \in Live(d.ptt)
              /\ d.ptt[t].remain = n.ptt[t].remain
              /\ x.prepaid[p].active => p \in closing
  <2>1. n.ptt[t] = w.db.ptt[t] /\ d.ptt[t] = x.ptt[t] /\ t \in Live(w.db.ptt)
    BY <1>1, <1>2, <1>10, <1>20
  <2>2. /\ ~w.db.ptt[t].active
        /\ t \in Live(x.ptt) /\ x.ptt[t].remain = w.db.ptt[t].remain
        /\ x.prepaid[p].active => p \in closing
    BY <1>5, <1>7, <1>10, <2>1 DEF MovesVoucher
  <2>3. t \in Live(d.ptt)
    BY <1>1, <1>2, <2>1, <2>2
  <2> QED BY <2>1, <2>2, <2>3
<1> QED BY <1>1, <1>3, <1>6, <1>8, <1>9, <1>10 DEF Settles

\* The same of a step that commits.
LEMMA CommitMoves ==
    ASSUME SInv, SInv', VInv, ~overwrote', ~torn', NEW c \in Requests,
           NEW w, w = Head(todo[c]), Commit(c),
           NEW n, n = db', NEW t \in Live(n.ptt), NEW p, p = n.ptt[t].prepaid, IsVoucher(n, p)
    PROVE  Settles(db, held[c], n, w, t, p, Closing(todo[c]))
<1>1. TypeOK /\ EachCopy /\ Agreement /\ ~overwrote /\ torn' = torn /\ BalancesRight
      /\ todo[c] # <<>> /\ w = todo[c][1] /\ w \in Planned(c)
  BY CommitWrites DEF SInv
<1>2. OnePtt /\ MovesInStep /\ StepOrMend /\ OnlyClosed
  BY <1>1 DEF VInv
<1>3. db \in Copies /\ held[c] \in Copies /\ w.db \in Copies /\ \A x \in Copies : x \in Database
  BY <1>1, CopiesAre, CopiesType
<1>4. n \in Database /\ PttsRefer(n) /\ db \in Copies
  <2>1. TypeOK' /\ EachCopy'
    BY DEF SInv
  <2>2. db' \in Copies'
    BY DEF Copies
  <2>3. db' \in Database /\ PttsRefer(db')
    BY <2>1, <2>2 DEF TypeOK, EachCopy
  <2> QED BY <1>3, <2>3
<1>5. \A y \in Copies : Agree(n, y)
  <2>1. Merged(db, w.db, n)
    BY <1>1, CommitRows
  <2> QED BY <1>1, <1>3, <1>4, <2>1, MergedAgree DEF Agreement
<1>6. /\ PttsRefer(db) /\ PttsRefer(held[c]) /\ PttsRefer(w.db)
      /\ SumsAgree(db) /\ SumsAgree(held[c]) /\ Agree(db, held[c])
      /\ Single(db, db) /\ Single(held[c], held[c]) /\ Single(db, held[c])
  BY <1>1, <1>2, <1>3 DEF EachCopy, BalancesRight, Agreement, OnePtt
<1>7. MovesVouchers(held[c], w, Closing(todo[c]))
  BY <1>1, <1>2 DEF MovesInStep
<1>8. \A q \in PrepaidIds :
        IF Rewrites(held[c], w, q)
        THEN n.prepaid[q] = w.db.prepaid[q] /\ db.prepaid[q] = held[c].prepaid[q]
        ELSE n.prepaid[q] = db.prepaid[q] /\ w.db.prepaid[q] = held[c].prepaid[q]
  <2>1. WritesFresh(c, w, n)
    BY CommitWrites
  <2> QED BY <2>1 DEF WritesFresh
<1>10. \A u \in PttIds :
         IF RewritesPtt(held[c], w, u)
         THEN n.ptt[u] = w.db.ptt[u] /\ db.ptt[u] = held[c].ptt[u]
         ELSE n.ptt[u] = db.ptt[u] /\ w.db.ptt[u] = held[c].ptt[u]
  <2>1. WritesFresh(c, w, n)
    BY CommitWrites
  <2> QED BY <2>1 DEF WritesFresh
<1>9. ASSUME t \in Live(db.ptt), db.ptt[t].remain > 0, Rewrites(held[c], w, p),
             t \in Live(held[c].ptt), db.ptt[t].active
      PROVE  held[c].ptt[t].active
  <2>1. db.ptt[t].prepaid = p /\ IsVoucher(db, p)
    BY <1>3, <1>4, <1>5, <1>6, <1>9, VoucherInBoth
  <2>2. p \in PrepaidIds
    BY <1>3, <1>6, <1>9, <2>1, RowTypes DEF PttsRefer
  <2>3. <<"prepaid", p>> \notin stale[c]
    <3>1. WritesFresh(c, w, n)
      BY CommitWrites
    <3> QED BY <1>9, <2>2, <3>1 DEF WritesFresh
  <2> QED BY <1>1, <1>2, <1>9, <2>1, <2>3 DEF OnlyClosed
<1>11. Lands(db, held[c], n, w)
  <2>1. /\ db \in Database /\ held[c] \in Database /\ n \in Database /\ w.db \in Database
        /\ Agree(n, db) /\ Agree(n, held[c]) /\ Agree(n, w.db)
    BY <1>3, <1>4, <1>5
  <2> QED BY <1>4, <1>6, <1>8, <1>10, <2>1 DEF Lands
<1> QED BY <1>7, <1>9, <1>11, MovedVoucher

-----------------------------------------------------------------------------
\* Empty tables know of no transaction.
LEMMA EmptySingle ==
    ASSUME NEW x
    PROVE  Single(x, EmptyDatabase) /\ Single(EmptyDatabase, x)
BY EmptyIsSound DEF Single

\* Tables merged from copies that know the one transaction of each voucher
\* know it as well.
LEMMA MergedSingle ==
    ASSUME NEW S, \A x \in S : x \in Database /\ PttsRefer(x),
           \A x \in S, y \in S : Single(x, y),
           NEW a \in S, NEW b \in S, NEW m \in Database, Merged(a, b, m), PttsRefer(m),
           \A y \in S : Agree(m, y)
    PROVE  \A x \in S \union {m}, y \in S \union {m} : Single(x, y)
<1>1. ASSUME NEW x \in S \union {m}, NEW t \in Live(x.ptt)
      PROVE  \E z \in S : /\ t \in Live(z.ptt) /\ z.ptt[t] = x.ptt[t]
                          /\ IsVoucher(x, x.ptt[t].prepaid) => IsVoucher(z, z.ptt[t].prepaid)
  <2>1. CASE x \in S
    BY <2>1
  <2>2. CASE x = m
    <3>1. /\ t \in PttIds /\ m.ptt[t] # NoRow
          /\ m.ptt[t] = a.ptt[t] \/ m.ptt[t] = b.ptt[t]
      BY <2>2, LiveIn DEF Merged
    <3>2. PICK z \in {a, b} : m.ptt[t] = z.ptt[t]
      BY <3>1
    <3>3. t \in Live(z.ptt)
      BY <3>1, <3>2, LiveIn
    <3>4. IsVoucher(z, m.ptt[t].prepaid) <=> IsVoucher(m, m.ptt[t].prepaid)
      BY <2>2, <3>3, VoucherInBoth
    <3> QED BY <2>2, <3>2, <3>3, <3>4
  <2> QED BY <2>1, <2>2
<1>2. ASSUME NEW x \in S \union {m}, NEW y \in S \union {m},
             NEW t \in Live(x.ptt), NEW u \in Live(y.ptt),
             x.ptt[t].prepaid = y.ptt[u].prepaid, IsVoucher(x, x.ptt[t].prepaid)
      PROVE  t = u /\ x.ptt[t].root
  <2>1. PICK z \in S : /\ t \in Live(z.ptt) /\ z.ptt[t] = x.ptt[t]
                       /\ IsVoucher(z, z.ptt[t].prepaid)
    BY <1>1, <1>2
  <2>2. PICK v \in S : u \in Live(v.ptt) /\ v.ptt[u] = y.ptt[u]
    BY <1>1
  <2>3. Single(z, v)
    OBVIOUS
  <2> QED BY <1>2, <2>1, <2>2, <2>3 DEF Single
<1> QED BY <1>2 DEF Single

\* The copies a commit leaves know the one transaction of each voucher.
LEMMA CommitSingle ==
    ASSUME SInv, SInv', OnePtt, NEW c \in Requests, Commit(c)
    PROVE  OnePtt'
<1>1. PICK w : w = Head(todo[c])
  OBVIOUS
<1>2. PICK n : n = db'
  OBVIOUS
<1>3. TypeOK /\ EachCopy /\ Agreement /\ TypeOK' /\ EachCopy' /\ Agreement'
  BY DEF SInv
<1>4. todo[c] # <<>>
  BY DEF Commit
<1>5. w \in Planned(c) /\ Merged(db, w.db, n)
  BY <1>1, <1>2, <1>3, <1>4, CommitRows
<1>6. n \in Copies'
  BY <1>2 DEF Copies
<1>7. n \in Database /\ PttsRefer(n)
  BY <1>2, <1>3, <1>6 DEF TypeOK, EachCopy
<1>8. /\ db \in Copies /\ w.db \in Copies
      /\ \A x \in Copies : x \in Database /\ PttsRefer(x)
      /\ \A x \in Copies, y \in Copies : Agree(x, y) /\ Single(x, y)
  BY <1>3, <1>5, CopiesAre, CopiesType DEF EachCopy, Agreement, OnePtt
<1>9. \A y \in Copies : Agree(n, y)
  BY <1>5, <1>7, <1>8, MergedAgree
<1>10. \A x \in Copies \union {n}, y \in Copies \union {n} : Single(x, y)
  BY <1>5, <1>7, <1>8, <1>9, MergedSingle
<1>11. \A x \in Copies' : x = EmptyDatabase \/ x \in Copies \union {n}
  <2>1. Len(todo[c]) = 1 \/ Len(todo[c]) = 2
    <3>1. todo[c] \in Seq(Writes) /\ Len(todo[c]) <= 2
      BY DEF SInv, TypeOK, Shape
    <3> QED BY <1>4, <3>1, OneOrTwo
  <2>2. \/ held' = [held EXCEPT ![c] = EmptyDatabase] /\ todo' = [todo EXCEPT ![c] = <<>>]
        \/ /\ Len(todo[c]) = 2
           /\ held' = [held EXCEPT ![c] = Head(todo[c]).db]
           /\ todo' = [todo EXCEPT ![c] = Tail(@)]
    BY <2>1 DEF Commit, Forget
  <2> QED BY <1>2, <1>3, <1>4, <2>2, FewerCopies
<1>12. ASSUME NEW x \in Copies', NEW y \in Copies'
       PROVE  Single(x, y)
  BY <1>10, <1>11, EmptySingle
<1>13. OnePtt' <=> \A x \in Copies', y \in Copies' : Single(x, y)
  BY DEF OnePtt
<1> QED BY <1>12, <1>13

\* A commit leaves every voucher in step with its transaction, or to be closed
\* by the next commit of the same request.
LEMMA CommitStepOrMend ==
    ASSUME SInv, SInv', VInv, ~overwrote', ~torn', NEW c \in Requests, Commit(c)
    PROVE  StepOrMend'
<1>1. PICK w : w = Head(todo[c])
  OBVIOUS
<1>2. PICK n : n = db'
  OBVIOUS
<1>3. /\ todo[c] # <<>> /\ w = todo[c][1] /\ w \in Planned(c) /\ ~overwrote /\ torn' = torn
      /\ WritesFresh(c, w, n)
  BY <1>1, <1>2, CommitWrites
<1>4. StepOrMend /\ OnlyClosed
  BY <1>3 DEF VInv
<1>5. /\ db \in Database /\ held[c] \in Database /\ w.db \in Database /\ n \in Database
      /\ PttsRefer(db) /\ PttsRefer(held[c]) /\ PttsRefer(n) /\ Agree(db, held[c])
  <2>1. TypeOK /\ TypeOK' /\ EachCopy /\ EachCopy' /\ Agreement
    BY DEF SInv
  <2>2. n \in Copies'
    BY <1>2 DEF Copies
  <2>3. n \in Database /\ PttsRefer(n)
    BY <1>2, <2>1, <2>2 DEF TypeOK, EachCopy
  <2> QED BY <1>3, <2>1, <2>3, CopiesAre, CopiesType DEF EachCopy, Agreement
<1> DEFINE Settled(t, p) ==
             \/ InStep(n, t)
             \/ \E r \in Requests :
                   /\ phase'[r] = "half" /\ ~n.ptt[t].active
                   /\ p \in Live(held'[r].prepaid) /\ held'[r].prepaid[p].active
                   /\ ~todo'[r][1].db.prepaid[p].active
<1>6. ASSUME NEW t \in Live(n.ptt), NEW p, p = n.ptt[t].prepaid, IsVoucher(n, p)
      PROVE  Settled(t, p)
  <2>1. Settles(db, held[c], n, w, t, p, Closing(todo[c]))
    BY <1>1, <1>2, <1>6, CommitMoves
  <2>2. /\ p \in PrepaidIds /\ t \in PttIds /\ p \in Live(n.prepaid)
        /\ n.prepaid[p].active \in BOOLEAN /\ n.ptt[t].active \in BOOLEAN
    <3>1. p \in Live(n.prepaid)
      BY <1>5, <1>6 DEF PttsRefer
    <3>2. p \in PrepaidIds /\ t \in PttIds /\ n.prepaid[p] \in PrepaidRow /\ n.ptt[t] \in PttRow
      BY <1>5, <3>1, RowTypes
    <3> QED BY <3>1, <3>2 DEF PrepaidRow, PttRow
  <2>3. /\ IF Rewrites(held[c], w, p)
           THEN n.prepaid[p] = w.db.prepaid[p] /\ db.prepaid[p] = held[c].prepaid[p]
           ELSE n.prepaid[p] = db.prepaid[p] /\ w.db.prepaid[p] = held[c].prepaid[p]
        /\ IF RewritesPtt(held[c], w, t)
           THEN n.ptt[t] = w.db.ptt[t] /\ <<"ptt", t>> \notin stale[c]
           ELSE n.ptt[t] = db.ptt[t] /\ w.db.ptt[t] = held[c].ptt[t]
    BY <1>3, <2>2 DEF WritesFresh
  <2>4. CASE ~Rewrites(held[c], w, p) /\ ~RewritesPtt(held[c], w, t)
    <3>1. t \in Live(db.ptt) /\ db.ptt[t].prepaid = p /\ IsVoucher(db, p)
      BY <2>1, <2>4 DEF Settles
    <3>2. InStep(db, t) => InStep(n, t)
      BY <1>6, <2>3, <2>4, <3>1 DEF InStep
    <3>3. ASSUME NEW r \in Requests, Mends(r, t)
          PROVE  \E q \in Requests :
                    /\ phase'[q] = "half" /\ ~n.ptt[t].active
                    /\ p \in Live(held'[q].prepaid) /\ held'[q].prepaid[p].active
                    /\ ~todo'[q][1].db.prepaid[p].active
      <4>1. /\ phase[r] = "half" /\ ~db.ptt[t].active
            /\ p \in Live(held[r].prepaid) /\ held[r].prepaid[p].active
            /\ ~todo[r][1].db.prepaid[p].active
        BY <3>1, <3>3 DEF Mends
      <4>2. r # c
        BY <1>3, <2>3, <2>4, <4>1
      <4>3. held'[r] = held[r] /\ todo'[r] = todo[r] /\ phase'[r] = phase[r]
        BY <1>1, <4>2, CommitWrites
      <4> QED BY <2>3, <2>4, <4>1, <4>3
    <3> QED BY <1>4, <3>1, <3>2, <3>3 DEF StepOrMend
  <2>5. CASE Rewrites(held[c], w, p) /\ RewritesPtt(held[c], w, t)
    BY <2>1, <2>5 DEF Settles
  <2>6. CASE Rewrites(held[c], w, p) /\ ~RewritesPtt(held[c], w, t)
    BY <1>6, <2>1, <2>2, <2>6 DEF Settles, InStep
  <2>7. CASE ~Rewrites(held[c], w, p) /\ RewritesPtt(held[c], w, t)
    <3>1. /\ ~n.ptt[t].active /\ t \in Live(held[c].ptt) /\ t \in Live(db.ptt)
          /\ db.ptt[t].remain = n.ptt[t].remain
          /\ held[c].prepaid[p].active => p \in Closing(todo[c])
          /\ db.ptt[t].prepaid = p /\ IsVoucher(db, p)
      BY <2>1, <2>7 DEF Settles
    <3>2. CASE ~(n.ptt[t].remain > 0 /\ n.prepaid[p].active)
      BY <1>6, <2>2, <3>1, <3>2 DEF InStep
    <3>3. CASE n.ptt[t].remain > 0 /\ n.prepaid[p].active
      <4>1. db.prepaid[p].active /\ <<"ptt", t>> \notin stale[c]
        BY <2>3, <2>7, <3>3
      <4>2. held[c].prepaid[p].active
        BY <1>3, <1>4, <3>1, <3>3, <4>1 DEF OnlyClosed
      <4>3. Len(todo[c]) = 2 /\ ~todo[c][2].db.prepaid[p].active
        BY <3>1, <4>2 DEF Closing
      <4>4. phase'[c] = "half" /\ held'[c] = w.db /\ todo'[c][1] = todo[c][2]
        BY <1>1, <4>3, CommitWrites
      <4>5. held[c].ptt[t].prepaid = p
        BY <1>5, <3>1 DEF Agree
      <4>6. p \in Live(held[c].prepaid)
        BY <1>5, <3>1, <4>5 DEF PttsRefer
      <4>7. p \in Live(w.db.prepaid) /\ w.db.prepaid[p].active
        BY <1>5, <2>2, <2>3, <2>7, <4>2, <4>6, LiveIn
      <4> QED BY <3>1, <4>3, <4>4, <4>7
    <3> QED BY <3>2, <3>3
  <2> QED BY <2>4, <2>5, <2>6, <2>7
<1>7. StepOrMend' <=> \A t \in Live(n.ptt) : IsVoucher(n, n.ptt[t].prepaid) =>
                           Settled(t, n.ptt[t].prepaid)
  BY <1>2 DEF StepOrMend, Mends
<1> HIDE DEF Settled
<1>8. ASSUME NEW t \in Live(n.ptt), IsVoucher(n, n.ptt[t].prepaid)
      PROVE  Settled(t, n.ptt[t].prepaid)
  BY <1>6, <1>8
<1> QED BY <1>7, <1>8

\* Where another request has since written one of the two rows, it closed it,
\* also after a commit.
LEMMA CommitOnlyClosed ==
    ASSUME SInv, SInv', VInv, ~overwrote', ~torn', NEW c \in Requests, Commit(c)
    PROVE  OnlyClosed'
<1>1. PICK w : w = Head(todo[c])
  OBVIOUS
<1>2. PICK n : n = db'
  OBVIOUS
<1>3. /\ todo[c] # <<>> /\ w = todo[c][1] /\ w \in Planned(c) /\ ~overwrote /\ torn' = torn
      /\ WritesFresh(c, w, n) /\ (Len(todo[c]) = 1 \/ Len(todo[c]) = 2)
  BY <1>1, <1>2, CommitWrites
<1>4. StepOrMend /\ OnlyClosed
  BY <1>3 DEF VInv
<1>5. /\ db \in Database /\ held[c] \in Database /\ w.db \in Database /\ n \in Database
      /\ PttsRefer(n)
  <2>1. TypeOK /\ TypeOK' /\ EachCopy'
    BY DEF SInv
  <2>2. n \in Copies'
    BY <1>2 DEF Copies
  <2>3. n \in Database /\ PttsRefer(n)
    BY <1>2, <2>1, <2>2 DEF TypeOK, EachCopy
  <2> QED BY <1>3, <2>1, <2>3, CopiesAre, CopiesType
<1>6. ASSUME NEW r \in Requests, todo'[r] # <<>>, NEW t \in Live(n.ptt),
             NEW p, p = n.ptt[t].prepaid, IsVoucher(n, p), n.ptt[t].remain > 0
      PROVE  /\ <<"ptt", t>> \notin stale'[r] /\ n.prepaid[p].active
                   => held'[r].prepaid[p].active
             /\ <<"prepaid", p>> \notin stale'[r] /\ t \in Live(held'[r].ptt) /\ n.ptt[t].active
                   => held'[r].ptt[t].active
  <2>1. Settles(db, held[c], n, w, t, p, Closing(todo[c]))
    BY <1>1, <1>2, <1>6, CommitMoves
  <2>2. p \in PrepaidIds /\ t \in PttIds
    BY <2>1 DEF Settles
  <2>3. IF Rewrites(held[c], w, p) THEN n.prepaid[p] = w.db.prepaid[p]
        ELSE n.prepaid[p] = db.prepaid[p] /\ w.db.prepaid[p] = held[c].prepaid[p]
    BY <1>3, <2>2 DEF WritesFresh
  <2>4. IF RewritesPtt(held[c], w, t) THEN n.ptt[t] = w.db.ptt[t]
        ELSE n.ptt[t] = db.ptt[t] /\ w.db.ptt[t] = held[c].ptt[t]
    BY <1>3, <2>2 DEF WritesFresh
  <2>5. /\ t \in Live(db.ptt) => db.ptt[t].prepaid = p /\ IsVoucher(db, p)
        /\ ~RewritesPtt(held[c], w, t) => t \in Live(db.ptt)
        /\ Rewrites(held[c], w, p) /\ ~RewritesPtt(held[c], w, t) => ~n.prepaid[p].active
        /\ ~Rewrites(held[c], w, p) /\ RewritesPtt(held[c], w, t) =>
              /\ ~n.ptt[t].active /\ t \in Live(db.ptt) /\ db.ptt[t].remain = n.ptt[t].remain
    BY <1>6, <2>1 DEF Settles
  <2>6. ASSUME ~Rewrites(held[c], w, p) \/ ~RewritesPtt(held[c], w, t)
        PROVE  /\ t \in Live(db.ptt) /\ db.ptt[t].remain > 0
               /\ db.ptt[t].prepaid = p /\ IsVoucher(db, p)
    BY <1>6, <2>4, <2>5, <2>6
  <2>7. CASE r # c
    <3>1. /\ held'[r] = held[r] /\ todo'[r] = todo[r]
          /\ <<"prepaid", p>> \notin stale'[r] =>
                <<"prepaid", p>> \notin stale[r] /\ ~Rewrites(held[c], w, p)
          /\ <<"ptt", t>> \notin stale'[r] =>
                <<"ptt", t>> \notin stale[r] /\ ~RewritesPtt(held[c], w, t)
      <4>1. held'[r] = held[r] /\ todo'[r] = todo[r]
        BY <1>1, <2>7, CommitWrites
      <4>2. <<"prepaid", p>> \notin stale'[r] =>
                <<"prepaid", p>> \notin stale[r] /\ ~Rewrites(held[c], w, p)
        BY <1>1, <1>6, <2>2, <2>7, <4>1, CommitWrites
      <4>3. <<"ptt", t>> \notin stale'[r] =>
                <<"ptt", t>> \notin stale[r] /\ ~RewritesPtt(held[c], w, t)
        BY <1>1, <1>6, <2>2, <2>7, <4>1, CommitWrites
      <4> QED BY <4>1, <4>2, <4>3
    <3>2. ASSUME <<"ptt", t>> \notin stale'[r], n.prepaid[p].active
          PROVE  held'[r].prepaid[p].active
      <4>1. <<"ptt", t>> \notin stale[r] /\ ~RewritesPtt(held[c], w, t)
        BY <3>1, <3>2
      <4>2. ~Rewrites(held[c], w, p)
        BY <2>5, <3>2, <4>1
      <4>3. db.prepaid[p].active
        BY <2>3, <3>2, <4>2
      <4>4. held[r].prepaid[p].active
        BY <1>4, <1>6, <2>6, <3>1, <4>1, <4>3 DEF OnlyClosed
      <4> QED BY <3>1, <4>4
    <3>3. ASSUME <<"prepaid", p>> \notin stale'[r], t \in Live(held'[r].ptt), n.ptt[t].active
          PROVE  held'[r].ptt[t].active
      <4>1. <<"prepaid", p>> \notin stale[r] /\ ~Rewrites(held[c], w, p)
        BY <3>1, <3>3
      <4>2. ~RewritesPtt(held[c], w, t)
        BY <2>5, <3>3, <4>1
      <4>3. db.ptt[t].active /\ t \in Live(held[r].ptt)
        BY <2>4, <3>1, <3>3, <4>2
      <4>4. held[r].ptt[t].active
        BY <1>4, <1>6, <2>6, <3>1, <4>1, <4>3 DEF OnlyClosed
      <4> QED BY <3>1, <4>4
    <3> QED BY <3>2, <3>3
  <2>8. CASE r = c
    <3>1. Len(todo[c]) = 2
      <4>1. Len(todo[c]) = 1 => todo'[c] = <<>>
        BY <1>1, CommitWrites
      <4> QED BY <1>3, <1>6, <2>8, <4>1
    <3>2. held'[c] = w.db
      BY <1>1, <3>1, CommitWrites
    <3>3. <<"prepaid", p>> \notin stale'[c] => <<"prepaid", p>> \notin stale[c]
      BY <1>1, <2>2, <3>1, CommitWrites
    <3>4. <<"ptt", t>> \notin stale'[c] => <<"ptt", t>> \notin stale[c]
      BY <1>1, <2>2, <3>1, CommitWrites
    <3>5. ASSUME <<"ptt", t>> \notin stale'[c], n.prepaid[p].active
          PROVE  held'[c].prepaid[p].active
      <4>1. CASE Rewrites(held[c], w, p)
        BY <2>3, <3>2, <3>5, <4>1
      <4>2. CASE ~Rewrites(held[c], w, p)
        <5>1. db.prepaid[p].active /\ <<"ptt", t>> \notin stale[c]
          BY <2>3, <3>4, <3>5, <4>2
        <5>2. held[c].prepaid[p].active
          BY <1>3, <1>4, <2>6, <4>2, <5>1 DEF OnlyClosed
        <5> QED BY <2>3, <3>2, <4>2, <5>2
      <4> QED BY <4>1, <4>2
    <3>6. ASSUME <<"prepaid", p>> \notin stale'[c], t \in Live(held'[c].ptt), n.ptt[t].active
          PROVE  held'[c].ptt[t].active
      <4>1. CASE RewritesPtt(held[c], w, t)
        BY <2>4, <3>2, <3>6, <4>1
      <4>2. CASE ~RewritesPtt(held[c], w, t)
        <5>1. db.ptt[t].active /\ <<"prepaid", p>> \notin stale[c]
          BY <2>4, <3>3, <3>6, <4>2
        <5>2. t \in Live(held[c].ptt)
          BY <1>5, <2>4, <3>2, <3>6, <4>2, LiveIn
        <5>3. held[c].ptt[t].active
          BY <1>3, <1>4, <2>6, <4>2, <5>1, <5>2 DEF OnlyClosed
        <5> QED BY <2>4, <3>2, <4>2, <5>3
      <4> QED BY <4>1, <4>2
    <3> QED BY <2>8, <3>5, <3>6
  <2> QED BY <2>7, <2>8
<1>7. OnlyClosed' <=>
        \A r \in Requests : todo'[r] # <<>> =>
          \A t \in Live(n.ptt) : IsVoucher(n, n.ptt[t].prepaid) /\ n.ptt[t].remain > 0 =>
             /\ <<"ptt", t>> \notin stale'[r] /\ n.prepaid[n.ptt[t].prepaid].active
                   => held'[r].prepaid[n.ptt[t].prepaid].active
             /\ <<"prepaid", n.ptt[t].prepaid>> \notin stale'[r] /\ t \in Live(held'[r].ptt)
                   /\ n.ptt[t].active
                   => held'[r].ptt[t].active
  BY <1>2 DEF OnlyClosed
<1> QED BY <1>6, <1>7

\* What is left of the job's plan is its second commit.
LEMMA CommitMovesInStep ==
    ASSUME SInv, VInv, ~overwrote', ~torn', NEW c \in Requests, Commit(c)
    PROVE  MovesInStep'
<1>1. PICK w : w = Head(todo[c])
  OBVIOUS
<1>2. /\ todo[c] # <<>> /\ w = todo[c][1] /\ ~overwrote /\ torn' = torn
      /\ Len(todo[c]) = 1 \/ Len(todo[c]) = 2
  BY <1>1, CommitWrites
<1>3. MovesInStep
  BY <1>2 DEF VInv
<1>4. ASSUME NEW r \in Requests, todo'[r] # <<>>
      PROVE  /\ MovesVouchers(held'[r], todo'[r][1], Closing(todo'[r]))
             /\ Len(todo'[r]) = 2 => MovesVouchers(todo'[r][1].db, todo'[r][2], {})
  <2>1. CASE r # c
    <3>1. held'[r] = held[r] /\ todo'[r] = todo[r]
      BY <1>1, <2>1, CommitWrites
    <3> QED BY <1>3, <1>4, <3>1 DEF MovesInStep
  <2>2. CASE r = c
    <3>1. Len(todo[c]) = 2
      <4>1. Len(todo[c]) = 1 => todo'[c] = <<>>
        BY <1>1, CommitWrites
      <4> QED BY <1>2, <1>4, <2>2, <4>1
    <3>2. held'[c] = w.db /\ Len(todo'[c]) = 1 /\ todo'[c][1] = todo[c][2]
      BY <1>1, <3>1, CommitWrites
    <3>3. Closing(todo'[c]) = {}
      BY <3>2 DEF Closing
    <3>4. MovesVouchers(w.db, todo[c][2], {})
      BY <1>2, <1>3, <3>1 DEF MovesInStep
    <3> QED BY <2>2, <3>2, <3>3, <3>4
  <2> QED BY <2>1, <2>2
<1> QED BY <1>4 DEF MovesInStep

\* So a commit keeps the invariant,
LEMMA CommitVouchers ==
    ASSUME SInv, SInv', VInv, NEW c \in Requests, Commit(c)
    PROVE  VInv'
<1>1. OnePtt'
  BY CommitSingle DEF VInv
<1>2. ASSUME ~overwrote', ~torn'
      PROVE  MovesInStep' /\ StepOrMend' /\ OnlyClosed'
  BY <1>2, CommitMovesInStep, CommitStepOrMend, CommitOnlyClosed
<1> QED BY <1>1, <1>2 DEF VInv

\* a request that fails between two commits tears, and one that fails before
\* has promised nothing,
LEMMA FailVouchers ==
    ASSUME SInv, SInv', VInv, NEW c \in Requests, Fail(c)
    PROVE  VInv'
<1>1. /\ todo[c] # <<>> /\ phase' = [phase EXCEPT ![c] = "over"]
      /\ held' = [held EXCEPT ![c] = EmptyDatabase] /\ todo' = [todo EXCEPT ![c] = <<>>]
      /\ torn' = (torn \/ phase[c] = "half") /\ stale' = [stale EXCEPT ![c] = {}]
      /\ db' = db /\ overwrote' = overwrote
  BY DEF Fail, Over, Forget
<1>2. /\ TypeOK /\ held \in [Requests -> Database] /\ todo \in [Requests -> Seq(Writes)]
      /\ phase \in [Requests -> {"waiting", "running", "half", "over"}]
      /\ stale \in [Requests -> SUBSET StoredRows]
  BY DEF SInv, TypeOK
<1>3. /\ todo'[c] = <<>>
      /\ \A r \in Requests \ {c} : /\ held'[r] = held[r] /\ todo'[r] = todo[r]
                                   /\ phase'[r] = phase[r] /\ stale'[r] = stale[r]
  BY <1>1, <1>2
<1>4. OnePtt'
  <2>1. \A x \in Copies' : x = EmptyDatabase \/ x \in Copies
    BY <1>1, <1>2, FewerCopies, CopiesAre
  <2>2. \A x \in Copies', y \in Copies' : Single(x, y)
    BY <2>1, EmptySingle DEF VInv, OnePtt
  <2>3. OnePtt' <=> \A x \in Copies', y \in Copies' : Single(x, y)
    BY DEF OnePtt
  <2> QED BY <2>2, <2>3
<1>5. ASSUME ~overwrote', ~torn'
      PROVE  MovesInStep' /\ StepOrMend' /\ OnlyClosed'
  <2>1. MovesInStep /\ StepOrMend /\ OnlyClosed /\ phase[c] # "half"
    BY <1>1, <1>5 DEF VInv
  <2>2. MovesInStep'
    BY <1>3, <2>1 DEF MovesInStep
  <2>3. StepOrMend'
    <3>1. ASSUME NEW t \in Live(db.ptt), NEW r \in Requests, Mends(r, t)
          PROVE  Mends(r, t)'
      <4>1. r # c
        BY <2>1, <3>1 DEF Mends
      <4> QED BY <1>1, <1>3, <3>1, <4>1 DEF Mends
    <3> QED BY <1>1, <2>1, <3>1 DEF StepOrMend
  <2>4. OnlyClosed'
    <3>1. ASSUME NEW r \in Requests, todo'[r] # <<>>, NEW t \in Live(db.ptt),
                 IsVoucher(db, db.ptt[t].prepaid), db.ptt[t].remain > 0,
                 NEW p, p = db.ptt[t].prepaid
          PROVE  /\ <<"ptt", t>> \notin stale'[r] /\ db.prepaid[p].active
                       => held'[r].prepaid[p].active
                 /\ <<"prepaid", p>> \notin stale'[r] /\ t \in Live(held'[r].ptt)
                       /\ db.ptt[t].active => held'[r].ptt[t].active
      <4>1. r # c
        BY <1>3, <3>1
      <4>2. held'[r] = held[r] /\ stale'[r] = stale[r] /\ todo[r] # <<>>
        BY <1>3, <3>1, <4>1
      <4> QED BY <2>1, <3>1, <4>2 DEF OnlyClosed
    <3> QED BY <1>1, <3>1 DEF OnlyClosed
  <2> QED BY <2>2, <2>3, <2>4
<1> QED BY <1>4, <1>5 DEF VInv

\* as does a step that changes nothing.
LEMMA IdleVouchers ==
    ASSUME VInv, UNCHANGED vars
    PROVE  VInv'
<1>1. /\ db' = db /\ phase' = phase /\ held' = held /\ todo' = todo
      /\ stale' = stale /\ overwrote' = overwrote /\ torn' = torn
  BY DEF vars
<1>2. OnePtt' <=> OnePtt
  BY <1>1 DEF OnePtt, Copies, CopiesOf, Planned
<1>3. MovesInStep' <=> MovesInStep
  BY <1>1 DEF MovesInStep
<1>4. StepOrMend' <=> StepOrMend
  BY <1>1 DEF StepOrMend, Mends
<1>5. OnlyClosed' <=> OnlyClosed
  BY <1>1 DEF OnlyClosed
<1> QED BY <1>1, <1>2, <1>3, <1>4, <1>5 DEF VInv

-----------------------------------------------------------------------------
\* What a request plans, computed on what is stored.  A transaction of a
\* voucher is one there was, or that of a voucher no copy knows of.
AloneIn(next, t) ==
    LET p == next.ptt[t].prepaid
    IN  /\ next.ptt[t].root
        /\ \/ t \in Live(db.ptt) /\ db.ptt[t].prepaid = p /\ IsVoucher(db, p)
           \/ PttsOf(next, p) = {t} /\ \A x \in Copies : p \notin Live(x.prepaid)

SoldAlone(next) ==
    \A t \in Live(next.ptt) : IsVoucher(next, next.ptt[t].prepaid) => AloneIn(next, t)

VoucherPlans(writes) ==
    /\ \A i \in DOMAIN writes : SoldAlone(writes[i].db)
    /\ ~overwrote /\ ~torn =>
          /\ MovesVouchers(db, writes[1], Closing(writes))
          /\ Len(writes) = 2 => MovesVouchers(writes[1].db, writes[2], {})
    /\ Len(writes) = 2 => \A i \in DOMAIN writes : Live(writes[i].db.ptt) \subseteq Live(db.ptt)

\* So the copies with the plan know the one transaction of each voucher.
LEMMA SoldSingle ==
    ASSUME OnePtt, EachCopy, NEW S, Copies \subseteq S,
           \A x \in S, y \in S : Agree(x, y), \A x \in S : PttsRefer(x),
           \A x \in S : x \in Copies \/ SoldAlone(x),
           \A x \in S, y \in S : \/ x \in Copies \/ y \in Copies \/ x = y
                                 \/ Live(x.ptt) = {} \/ Live(y.ptt) = {}
                                 \/ Live(x.ptt) \subseteq Live(db.ptt)
                                    /\ Live(y.ptt) \subseteq Live(db.ptt)
    PROVE  \A x \in S, y \in S : Single(x, y)
<1> SUFFICES ASSUME NEW x \in S, NEW y \in S, NEW t \in Live(x.ptt), NEW u \in Live(y.ptt),
                    NEW p, p = x.ptt[t].prepaid, p = y.ptt[u].prepaid, IsVoucher(x, p)
             PROVE  t = u /\ x.ptt[t].root
  BY DEF Single
<1>0. /\ Agree(x, y) /\ PttsRefer(x) /\ PttsRefer(y)
      /\ x \in Copies \/ SoldAlone(x)
      /\ y \in Copies \/ SoldAlone(y)
  OBVIOUS
<1>1. /\ p \in Live(x.prepaid) /\ p \in Live(y.prepaid) /\ IsVoucher(y, p)
  <2>1. p \in Live(x.prepaid) /\ p \in Live(y.prepaid)
    BY <1>0 DEF PttsRefer
  <2> QED BY <1>0, <2>1 DEF Agree, IsVoucher
<1>2. db \in Copies /\ db \in S
  BY CopiesAre
<1>3. ASSUME x \notin Copies
      PROVE  /\ x.ptt[t].root
             /\ \/ t \in Live(db.ptt) /\ db.ptt[t].prepaid = p /\ IsVoucher(db, p)
                \/ PttsOf(x, p) = {t} /\ \A z \in Copies : p \notin Live(z.prepaid)
  <2>1. AloneIn(x, t)
    BY <1>0, <1>3 DEF SoldAlone
  <2> QED BY <2>1 DEF AloneIn
<1>4. ASSUME y \notin Copies
      PROVE  /\ y.ptt[u].root
             /\ \/ u \in Live(db.ptt) /\ db.ptt[u].prepaid = p /\ IsVoucher(db, p)
                \/ PttsOf(y, p) = {u} /\ \A z \in Copies : p \notin Live(z.prepaid)
  <2>1. AloneIn(y, u)
    BY <1>0, <1>1, <1>4 DEF SoldAlone
  <2> QED BY <2>1 DEF AloneIn
<1>5. ASSUME NEW r \in Live(db.ptt), NEW z \in Copies, NEW s \in Live(z.ptt),
             db.ptt[r].prepaid = p, z.ptt[s].prepaid = p, IsVoucher(db, p)
      PROVE  r = s
  BY <1>2, <1>5 DEF OnePtt, Single
<1>6. CASE x \in Copies /\ y \in Copies
  <2>1. Single(x, y)
    BY <1>6 DEF OnePtt
  <2> QED BY <2>1 DEF Single
<1>7. CASE x \in Copies /\ y \notin Copies
  <2>1. u \in Live(db.ptt) /\ db.ptt[u].prepaid = p /\ IsVoucher(db, p)
    BY <1>1, <1>4, <1>7
  <2>2. Single(x, db)
    BY <1>2, <1>7 DEF OnePtt
  <2> QED BY <2>1, <2>2 DEF Single
<1>8. CASE x \notin Copies /\ y \in Copies
  <2>1. t \in Live(db.ptt) /\ db.ptt[t].prepaid = p /\ IsVoucher(db, p) /\ x.ptt[t].root
    BY <1>1, <1>3, <1>8
  <2> QED BY <1>5, <1>8, <2>1
<1>9. CASE x \notin Copies /\ y \notin Copies
  <2>1. CASE x = y /\ PttsOf(x, p) = {t}
    <3>1. u \in PttsOf(x, p)
      BY <2>1 DEF PttsOf
    <3> QED BY <1>3, <1>9, <2>1, <3>1
  <2>2. CASE x = y /\ PttsOf(x, p) # {t}
    <3>1. t \in Live(db.ptt) /\ db.ptt[t].prepaid = p /\ IsVoucher(db, p) /\ x.ptt[t].root
      BY <1>3, <1>9, <2>2
    <3>2. p \in Live(db.prepaid)
      BY <1>2, <3>1 DEF PttsRefer
    <3>3. u \in Live(db.ptt) /\ db.ptt[u].prepaid = p
      BY <1>2, <1>4, <1>9, <3>2
    <3> QED BY <1>2, <1>5, <3>1, <3>3
  <2>3. CASE x # y
    <3>1. t \in Live(db.ptt) /\ u \in Live(db.ptt)
      BY <1>9, <2>3
    <3>2. db.ptt[t].prepaid = p /\ db.ptt[u].prepaid = p
      BY <1>2, <3>1 DEF Agree
    <3>3. p \in Live(db.prepaid) /\ IsVoucher(db, p)
      BY <1>1, <1>2, <3>1, <3>2 DEF PttsRefer, Agree, IsVoucher
    <3> QED BY <1>2, <1>3, <1>5, <1>9, <3>1, <3>2, <3>3
  <2> QED BY <2>1, <2>2, <2>3
<1> QED BY <1>6, <1>7, <1>8, <1>9

\* A request that begins with such a plan keeps the invariant.
LEMMA BeginVouchers ==
    ASSUME SInv, SInv', VInv, NEW c \in Requests, NEW writes, VoucherPlans(writes),
           Begin(c, writes)
    PROVE  VInv'
<1>1. /\ phase[c] = "waiting" /\ phase' = [phase EXCEPT ![c] = "running"]
      /\ held' = [held EXCEPT ![c] = db] /\ todo' = [todo EXCEPT ![c] = writes]
      /\ db' = db /\ stale' = stale /\ overwrote' = overwrote /\ torn' = torn
  BY DEF Begin
<1>2. /\ TypeOK /\ Shape /\ EachCopy /\ Agreement /\ TypeOK' /\ Shape' /\ EachCopy' /\ Agreement'
      /\ OnePtt /\ (~overwrote /\ ~torn => MovesInStep /\ StepOrMend /\ OnlyClosed)
  BY DEF SInv, VInv
<1>3. /\ held'[c] = db /\ todo'[c] = writes /\ phase'[c] = "running"
      /\ \A r \in Requests \ {c} :
            held'[r] = held[r] /\ todo'[r] = todo[r] /\ phase'[r] = phase[r]
  BY <1>1, <1>2 DEF TypeOK
<1>4. writes \in Seq(Writes) /\ writes # <<>> /\ Len(writes) <= 2
  BY <1>2, <1>3 DEF TypeOK, Shape
<1>5. (Len(writes) = 1 \/ Len(writes) = 2) /\ DOMAIN writes = 1..Len(writes)
  BY <1>4, OneOrTwo
<1>6. Planned(c)' = {writes[i] : i \in DOMAIN writes}
  BY <1>3 DEF Planned
<1>7. OnePtt'
  <2>1. PICK S : S = Copies' \union {EmptyDatabase}
    OBVIOUS
  <2>2. ASSUME NEW x \in S
        PROVE  x \in Copies \/ x = EmptyDatabase \/ \E i \in DOMAIN writes : x = writes[i].db
    <3>1. x = EmptyDatabase \/ x = db' \/ \E r \in Requests : x \in CopiesOf(r)'
      BY <2>1 DEF Copies
    <3>2. ASSUME NEW r \in Requests, x \in CopiesOf(r)'
          PROVE  x \in Copies \/ \E i \in DOMAIN writes : x = writes[i].db
      <4>1. CASE r = c
        <5>1. x = held'[c] \/ \E w \in Planned(c)' : x = w.db
          BY <3>2, <4>1 DEF CopiesOf
        <5> QED BY <1>3, <1>6, <5>1, CopiesAre
      <4>2. CASE r # c
        <5>1. CopiesOf(r)' = CopiesOf(r)
          BY <1>3, <4>2 DEF CopiesOf, Planned
        <5> QED BY <3>2, <5>1, CopiesAre
      <4> QED BY <4>1, <4>2
    <3> QED BY <1>1, <3>1, <3>2, CopiesAre
  <2>3. ASSUME NEW x \in Copies
        PROVE  x \in S
    <3>1. CASE x = db
      BY <1>1, <2>1, <3>1 DEF Copies
    <3>2. ASSUME NEW r \in Requests, x \in CopiesOf(r), r # c
          PROVE  x \in S
      <4>1. CopiesOf(r)' = CopiesOf(r)
        BY <1>3, <3>2 DEF CopiesOf, Planned
      <4> QED BY <2>1, <3>2, <4>1 DEF Copies
    <3>3. ASSUME x \in CopiesOf(c)
          PROVE  x \in S
      <4>1. todo[c] = <<>> /\ held[c] = EmptyDatabase
        BY <1>1, <1>2 DEF Shape
      <4>2. Planned(c) = {}
        BY <4>1 DEF Planned
      <4> QED BY <2>1, <3>3, <4>1, <4>2 DEF CopiesOf
    <3> QED BY <3>1, <3>2, <3>3, CopiesAre
  <2>4. \A x \in S, y \in S : Agree(x, y)
    BY <1>2, <2>1, EmptyIsSound DEF Agreement
  <2>5. \A x \in S : PttsRefer(x)
    BY <1>2, <2>1, EmptyIsSound DEF EachCopy
  <2>6. \A i \in DOMAIN writes : SoldAlone(writes[i].db)
    BY DEF VoucherPlans
  <2>7. \A x \in S : x \in Copies \/ SoldAlone(x)
    <3>1. SoldAlone(EmptyDatabase)
      BY EmptyIsSound DEF SoldAlone
    <3> QED BY <2>2, <2>6, <3>1
  <2>8. ASSUME NEW x \in S, NEW y \in S, x \notin Copies, y \notin Copies, x # y
        PROVE  \/ Live(x.ptt) = {} \/ Live(y.ptt) = {}
               \/ Live(x.ptt) \subseteq Live(db.ptt) /\ Live(y.ptt) \subseteq Live(db.ptt)
    <3>1. CASE x = EmptyDatabase \/ y = EmptyDatabase
      BY <3>1, EmptyIsSound
    <3>2. CASE x # EmptyDatabase /\ y # EmptyDatabase
      <4>1. PICK i \in DOMAIN writes : x = writes[i].db
        BY <2>2, <2>8, <3>2
      <4>2. PICK j \in DOMAIN writes : y = writes[j].db
        BY <2>2, <2>8, <3>2
      <4>3. Len(writes) = 2
        <5>1. i # j
          BY <2>8, <4>1, <4>2
        <5>2. PICK n : n = Len(writes)
          OBVIOUS
        <5>3. n = 1 => i = 1 /\ j = 1
          BY <1>5, <5>2
        <5> QED BY <1>5, <5>1, <5>2, <5>3
      <4> QED BY <4>1, <4>2, <4>3 DEF VoucherPlans
    <3> QED BY <3>1, <3>2
  <2>9. \A x \in S, y \in S : Single(x, y)
    BY <1>2, <2>3, <2>4, <2>5, <2>7, <2>8, SoldSingle
  <2>10. OnePtt' <=> \A x \in Copies', y \in Copies' : Single(x, y)
    BY DEF OnePtt
  <2> QED BY <2>1, <2>9, <2>10
<1>8. ASSUME ~overwrote', ~torn'
      PROVE  MovesInStep' /\ StepOrMend' /\ OnlyClosed'
  <2>1. MovesInStep /\ StepOrMend /\ OnlyClosed
    BY <1>1, <1>2, <1>8
  <2>2. MovesInStep'
    <3>1. /\ MovesVouchers(db, writes[1], Closing(writes))
          /\ Len(writes) = 2 => MovesVouchers(writes[1].db, writes[2], {})
      BY <1>1, <1>8 DEF VoucherPlans
    <3>2. ASSUME NEW r \in Requests, todo'[r] # <<>>
          PROVE  /\ MovesVouchers(held'[r], todo'[r][1], Closing(todo'[r]))
                 /\ Len(todo'[r]) = 2 => MovesVouchers(todo'[r][1].db, todo'[r][2], {})
      <4>1. CASE r = c
        BY <1>3, <3>1, <4>1
      <4>2. CASE r # c
        BY <1>3, <2>1, <3>2, <4>2 DEF MovesInStep
      <4> QED BY <4>1, <4>2
    <3> QED BY <3>2 DEF MovesInStep
  <2>3. StepOrMend'
    <3>1. ASSUME NEW t \in Live(db.ptt), NEW r \in Requests, Mends(r, t)
          PROVE  Mends(r, t)'
      <4>1. r # c
        BY <1>1, <3>1 DEF Mends
      <4> QED BY <1>1, <1>3, <3>1, <4>1 DEF Mends
    <3> QED BY <1>1, <2>1, <3>1 DEF StepOrMend
  <2>4. OnlyClosed'
    <3>1. ASSUME NEW r \in Requests, todo'[r] # <<>>, NEW t \in Live(db.ptt),
                 IsVoucher(db, db.ptt[t].prepaid), db.ptt[t].remain > 0,
                 NEW p, p = db.ptt[t].prepaid
          PROVE  /\ <<"ptt", t>> \notin stale[r] /\ db.prepaid[p].active
                       => held'[r].prepaid[p].active
                 /\ <<"prepaid", p>> \notin stale[r] /\ t \in Live(held'[r].ptt)
                       /\ db.ptt[t].active => held'[r].ptt[t].active
      <4>1. CASE r = c
        BY <1>3, <4>1
      <4>2. CASE r # c
        BY <1>3, <2>1, <3>1, <4>2 DEF OnlyClosed
      <4> QED BY <4>1, <4>2
    <3> QED BY <1>1, <3>1 DEF OnlyClosed
  <2> QED BY <2>2, <2>3, <2>4
<1> QED BY <1>7, <1>8 DEF VInv

\* Most requests plan one commit.
LEMMA BeginOneVouchers ==
    ASSUME SInv, SInv', VInv, NEW c \in Requests, NEW w, Begin(c, <<w>>),
           SoldAlone(w.db), ~overwrote /\ ~torn => MovesVouchers(db, w, {})
    PROVE  VInv'
<1>1. PICK q : q = <<w>>
  OBVIOUS
<1>2. Len(q) = 1 /\ q[1] = w /\ \A i \in DOMAIN q : q[i] = w
  BY <1>1
<1>3. Closing(q) = {}
  BY <1>2 DEF Closing
<1>4. VoucherPlans(q)
  BY <1>2, <1>3 DEF VoucherPlans
<1> QED BY <1>1, <1>4, BeginVouchers

-----------------------------------------------------------------------------
\* What each service method does to the two rows of a voucher.  Most leave
\* them alone:
Untouched(x, w, u) ==
    LET p == w.db.ptt[u].prepaid
    IN  /\ u \in Live(x.ptt) /\ u \notin w.ts /\ w.db.ptt[u] = x.ptt[u]
        /\ p \notin w.ps /\ w.db.prepaid[p] = x.prepaid[p]

\* some rewrite both, as the rows of the same voucher.
Rewritten(x, w, u) ==
    LET p == w.db.ptt[u].prepaid
    IN  /\ u \in Live(x.ptt) /\ x.ptt[u].prepaid = p /\ w.db.ptt[u].root = x.ptt[u].root
        /\ IsVoucher(x, p)
        /\ Rewrites(x, w, p) /\ RewritesPtt(x, w, u) /\ InStep(w.db, u)

\* A transaction that is no root, or one of two, is of a package.
LEMMA NoVoucher ==
    ASSUME NEW x, Single(x, x), NEW t \in Live(x.ptt),
           ~x.ptt[t].root \/ \E u \in PttsOf(x, x.ptt[t].prepaid) : u # t
    PROVE  ~IsVoucher(x, x.ptt[t].prepaid)
BY DEF Single, PttsOf

\* Selling a voucher writes both, open.
Sells(x, w, p, t) ==
    \A u \in Live(w.db.ptt) :
       \/ Untouched(x, w, u)
       \/ /\ u = t /\ w.db.ptt[u].prepaid = p /\ w.db.ptt[u].root
          /\ PttsOf(w.db, p) = {u}
          /\ Rewrites(x, w, p) /\ RewritesPtt(x, w, u) /\ InStep(w.db, u)

LEMMA AddPrepaidWrites ==
    ASSUME NEW x \in Database, RowsRefer(x), NEW p \in PrepaidIds, NEW t \in PttIds,
           NEW type \in PrepaidTypes, NEW v \in Nat, NEW date \in Nat, NEW expiry \in Nat,
           p \notin Live(x.prepaid), t \notin Live(x.ptt),
           NEW w, w.db = AddPrepaidDb(x, p, t, type, v, date, expiry), w.ps = {}, w.ts = {}
    PROVE  Sells(x, w, p, t)
<1>0. PICK next : next = w.db
  OBVIOUS
<1> DEFINE init == InitValue(type, v)
           prow == [type |-> type, active |-> TRUE, init |-> init, remain |-> init]
           trow == NewPtt(p, TRUE, init, date, expiry)
<1>1. /\ next.ptt[t] = trow
      /\ next.prepaid[p] = prow
      /\ \A u \in PttIds : u # t => next.ptt[u] = x.ptt[u]
      /\ \A q \in PrepaidIds : q # p => next.prepaid[q] = x.prepaid[q]
      /\ DOMAIN next.ptt = PttIds /\ DOMAIN x.ptt = PttIds
  <2>1. next.ptt = [x.ptt EXCEPT ![t] = trow] /\ next.prepaid = [x.prepaid EXCEPT ![p] = prow]
    BY <1>0 DEF AddPrepaidDb
  <2> HIDE DEF init, prow, trow
  <2> QED BY <2>1, RowTypes
<1>2. next.ptt[t].prepaid = p /\ next.ptt[t].root /\ next.ptt[t].active /\ next.prepaid[p].active
  BY <1>1 DEF NewPtt
<1>3. next.ptt[t] \in PttRow /\ next.prepaid[p] \in PrepaidRow
  <2>1. init \in Nat
    BY InitValueType
  <2> HIDE DEF init
  <2>2. trow \in PttRow
    BY <2>1 DEF PttRow, NewPtt
  <2>3. prow \in PrepaidRow
    BY <2>1 DEF PrepaidRow
  <2> QED BY <1>1, <2>2, <2>3
<1> HIDE DEF init, prow, trow
<1>4. next.ptt[t] # NoRow /\ next.prepaid[p] # NoRow /\ x.ptt[t] = NoRow /\ x.prepaid[p] = NoRow
  BY <1>3, LiveIn, TablesAssumption
<1>5. \A u \in Live(next.ptt) : u # t =>
         /\ u \in Live(x.ptt) /\ next.ptt[u] = x.ptt[u]
         /\ x.ptt[u].prepaid \in PrepaidIds /\ x.ptt[u].prepaid # p
  <2> TAKE u \in Live(next.ptt)
  <2> HAVE u # t
  <2>1. u \in Live(x.ptt) /\ next.ptt[u] = x.ptt[u]
    BY <1>1 DEF Live
  <2>2. x.ptt[u].prepaid \in Live(x.prepaid)
    BY <2>1 DEF RowsRefer
  <2> QED BY <2>1, <2>2, LiveIn
<1>6. ASSUME NEW u \in Live(next.ptt), u # t
      PROVE  Untouched(x, w, u)
  BY <1>0, <1>1, <1>5, <1>6 DEF Untouched
<1>7. ASSUME t \in Live(next.ptt)
      PROVE  /\ PttsOf(next, p) = {t}
             /\ Rewrites(x, w, p) /\ RewritesPtt(x, w, t) /\ InStep(next, t)
  <2>1. PttsOf(next, p) = {t}
    BY <1>2, <1>5, <1>7 DEF PttsOf
  <2>2. Rewrites(x, w, p) /\ RewritesPtt(x, w, t)
    BY <1>0, <1>4 DEF Rewrites, RewritesPtt
  <2>3. InStep(next, t)
    BY <1>1, <1>2 DEF InStep, prow, trow, NewPtt
  <2> QED BY <2>1, <2>2, <2>3
<1> QED BY <1>0, <1>2, <1>6, <1>7 DEF Sells

\* A top-up writes a package and its transactions.
LEMMA TopUpWrites ==
    ASSUME NEW x \in Database, RowsRefer(x), NEW p \in PrepaidIds, p \in Live(x.prepaid),
           x.prepaid[p].type \notin VoucherTypes, NEW t \in PttIds, t \notin Live(x.ptt),
           NEW v \in Nat, NEW date \in Nat, NEW expiry \in Nat,
           NEW w, w.db = TopUpDb(x, p, t, v, date, expiry), w.ps = {}, w.ts \subseteq PttsOf(x, p)
    PROVE  \A u \in Live(w.db.ptt) : IsVoucher(w.db, w.db.ptt[u].prepaid) => Untouched(x, w, u)
<1>0. PICK next : next = w.db
  OBVIOUS
<1>1. /\ next.ptt[t].prepaid = p
      /\ next.prepaid[p].type = x.prepaid[p].type
      /\ \A q \in PrepaidIds : q # p => next.prepaid[q] = x.prepaid[q]
      /\ DOMAIN next.ptt = PttIds
  <2>1. next.ptt[t] = NewPtt(p, FALSE, v, date, expiry)
    BY <1>0 DEF TopUpDb
  <2>2. next.prepaid[p].type = x.prepaid[p].type
    BY <1>0, RowTypes DEF TopUpDb, Booked
  <2>3. \A q \in PrepaidIds : q # p => next.prepaid[q] = x.prepaid[q]
    BY <1>0, RowTypes DEF TopUpDb
  <2>4. DOMAIN next.ptt = PttIds
    BY <1>0 DEF TopUpDb
  <2> QED BY <2>1, <2>2, <2>3, <2>4 DEF NewPtt
<1>2. ASSUME NEW u \in PttIds, u # t
      PROVE  IF u \in PttsOf(x, p) THEN next.ptt[u].prepaid = p ELSE next.ptt[u] = x.ptt[u]
  <2>1. CASE u \in PttsOf(x, p) /\ x.ptt[u].active /\ x.ptt[u].remain > 0
    <3>1. next.ptt[u] = [x.ptt[u] EXCEPT !.expiry = expiry]
      BY <1>0, <1>2, <2>1 DEF TopUpDb
    <3>2. x.ptt[u] \in PttRow /\ x.ptt[u].prepaid = p
      BY <2>1, RowTypes DEF PttsOf
    <3> QED BY <2>1, <3>1, <3>2 DEF PttRow
  <2>2. CASE ~(u \in PttsOf(x, p) /\ x.ptt[u].active /\ x.ptt[u].remain > 0)
    <3>1. next.ptt[u] = x.ptt[u]
      BY <1>0, <1>2, <2>2 DEF TopUpDb
    <3> QED BY <3>1 DEF PttsOf
  <2> QED BY <2>1, <2>2
<1>3. ASSUME NEW u \in Live(next.ptt), IsVoucher(next, next.ptt[u].prepaid)
      PROVE  Untouched(x, w, u)
  <2>1. next.ptt[u].prepaid # p
    BY <1>1, <1>3 DEF IsVoucher
  <2>2. u \in PttIds /\ u # t /\ u \notin PttsOf(x, p)
    BY <1>1, <1>2, <1>3, <2>1 DEF Live
  <2>3. next.ptt[u] = x.ptt[u] /\ u \in Live(x.ptt)
    BY <1>2, <1>3, <2>2, LiveIn DEF Live
  <2>4. next.ptt[u].prepaid \in PrepaidIds
    BY <2>3, RowTypes DEF PttRow
  <2> QED BY <1>0, <1>1, <2>1, <2>2, <2>3, <2>4 DEF Untouched
<1> QED BY <1>0, <1>3

\* The edit form of a prepaid sets both flags to the same.
LEMMA EditPrepaidWrites ==
    ASSUME NEW x \in Database, RowsRefer(x), NEW p \in PrepaidIds, p \in Live(x.prepaid),
           NEW t \in PttIds, PttsOf(x, p) = {t}, NEW v \in Nat, NEW r \in Nat,
           NEW active \in BOOLEAN, NEW date \in Nat, NEW expiry \in Nat,
           NEW w, w.db = EditPrepaidDb(x, p, t, v, r, active, date, expiry),
           w.ps = {p}, w.ts = {t}
    PROVE  \A u \in Live(w.db.ptt) : IsVoucher(w.db, w.db.ptt[u].prepaid) =>
              Untouched(x, w, u) \/ Rewritten(x, w, u)
<1>0. PICK next : next = w.db
  OBVIOUS
<1> DEFINE init == InitValue(x.prepaid[p].type, v)
<1>1. /\ next.ptt[t] = EditedPtt(x.ptt[t], init, r, active, date, expiry)
      /\ next.prepaid[p] = [type |-> x.prepaid[p].type, active |-> active,
                            init |-> init, remain |-> r]
      /\ \A u \in PttIds : u # t => next.ptt[u] = x.ptt[u]
      /\ \A q \in PrepaidIds : q # p => next.prepaid[q] = x.prepaid[q]
      /\ DOMAIN next.ptt = PttIds /\ DOMAIN x.ptt = PttIds
  BY <1>0, RowTypes DEF EditPrepaidDb
<1>2. /\ next.ptt[t].prepaid = x.ptt[t].prepaid /\ next.ptt[t].root = x.ptt[t].root
      /\ next.ptt[t].active = active /\ next.prepaid[p].active = active
      /\ next.prepaid[p].type = x.prepaid[p].type
  BY <1>1 DEF EditedPtt
<1>3. t \in Live(x.ptt) /\ x.ptt[t].prepaid = p
  BY DEF PttsOf
<1>4. ASSUME NEW u \in Live(next.ptt), u # t
      PROVE  Untouched(x, w, u)
  <2>1. u \in Live(x.ptt) /\ next.ptt[u] = x.ptt[u]
    BY <1>1, <1>4 DEF Live
  <2>2. x.ptt[u].prepaid \in PrepaidIds /\ x.ptt[u].prepaid # p
    BY <1>4, <2>1, RowTypes DEF PttsOf, PttRow
  <2> QED BY <1>0, <1>1, <1>4, <2>1, <2>2 DEF Untouched
<1>5. ASSUME IsVoucher(next, p)
      PROVE  Rewritten(x, w, t)
  <2>1. IsVoucher(x, p)
    BY <1>2, <1>5 DEF IsVoucher
  <2>2. Rewrites(x, w, p) /\ RewritesPtt(x, w, t)
    BY DEF Rewrites, RewritesPtt
  <2>3. InStep(next, t)
    BY <1>2, <1>3 DEF InStep
  <2> QED BY <1>0, <1>2, <1>3, <2>1, <2>2, <2>3 DEF Rewritten
<1> QED BY <1>0, <1>2, <1>3, <1>4, <1>5

\* The edit form of a top-up, and its deletion, change no voucher.
LEMMA EditTopUpWrites ==
    ASSUME NEW x \in Database, RowsRefer(x), NEW t \in PttIds, t \in Live(x.ptt),
           ~IsVoucher(x, x.ptt[t].prepaid), NEW v \in Nat, NEW r \in Nat,
           NEW active \in BOOLEAN, NEW date \in Nat, NEW expiry \in Nat,
           NEW w, w.db = EditTopUpDb(x, t, v, r, active, date, expiry), w.ps = {}, w.ts = {t}
    PROVE  \A u \in Live(w.db.ptt) : IsVoucher(w.db, w.db.ptt[u].prepaid) => Untouched(x, w, u)
<1>0. PICK next, p : next = w.db /\ p = x.ptt[t].prepaid
  OBVIOUS
<1>1. p \in PrepaidIds
  BY <1>0, RowTypes DEF PttRow
<1>2. /\ next.ptt[t] = EditedPtt(x.ptt[t], v, r, active, date, expiry)
      /\ \A u \in PttIds : u # t => next.ptt[u] = x.ptt[u]
      /\ \A q \in PrepaidIds : q # p => next.prepaid[q] = x.prepaid[q]
      /\ DOMAIN next.ptt = PttIds /\ DOMAIN x.ptt = PttIds
  BY <1>0, <1>1, RowTypes DEF EditTopUpDb
<1>3. next.prepaid[p].type = x.prepaid[p].type
  <2>1. PICK i, j : i = v - x.ptt[t].init /\ j = r - x.ptt[t].remain
    OBVIOUS
  <2>2. next.prepaid = [x.prepaid EXCEPT ![p] = Booked(@, i, j)]
    BY <1>0, <2>1 DEF EditTopUpDb
  <2>3. next.prepaid[p] = Booked(x.prepaid[p], i, j)
    BY <1>1, <2>2, RowTypes
  <2> QED BY <2>3 DEF Booked
<1>4. next.ptt[t].prepaid = p
  BY <1>0, <1>2 DEF EditedPtt
<1>5. ~IsVoucher(next, p)
  BY <1>0, <1>3 DEF IsVoucher
<1>6. ASSUME NEW u \in Live(next.ptt), IsVoucher(next, next.ptt[u].prepaid)
      PROVE  Untouched(x, w, u)
  <2>1. u # t /\ u \in Live(x.ptt) /\ next.ptt[u] = x.ptt[u]
    BY <1>2, <1>4, <1>5, <1>6 DEF Live
  <2>2. x.ptt[u].prepaid \in PrepaidIds /\ x.ptt[u].prepaid # p
    BY <1>5, <1>6, <2>1, RowTypes DEF PttRow
  <2> QED BY <1>0, <1>2, <2>1, <2>2 DEF Untouched
<1> QED BY <1>0, <1>6

LEMMA DeleteTopUpWrites ==
    ASSUME NEW x \in Database, RowsRefer(x), NEW t \in PttIds, t \in Live(x.ptt),
           ~IsVoucher(x, x.ptt[t].prepaid),
           NEW w, w.db = DeleteTopUpDb(x, t), w.ps = {}, w.ts = {}
    PROVE  \A u \in Live(w.db.ptt) : IsVoucher(w.db, w.db.ptt[u].prepaid) => Untouched(x, w, u)
<1>0. PICK next, p : next = w.db /\ p = x.ptt[t].prepaid
  OBVIOUS
<1>1. p \in PrepaidIds
  BY <1>0, RowTypes DEF PttRow
<1>2. /\ next.ptt[t] = NoRow
      /\ \A u \in PttIds : u # t => next.ptt[u] = x.ptt[u]
      /\ \A q \in PrepaidIds : q # p => next.prepaid[q] = x.prepaid[q]
      /\ DOMAIN next.ptt = PttIds /\ DOMAIN x.ptt = PttIds
  BY <1>0, <1>1, RowTypes DEF DeleteTopUpDb
<1>3. next.prepaid[p].type = x.prepaid[p].type
  <2>1. PICK i, r : i = -x.ptt[t].init /\ r = -x.ptt[t].remain
    OBVIOUS
  <2>2. next.prepaid = [x.prepaid EXCEPT ![p] = Booked(@, i, r)]
    BY <1>0, <2>1 DEF DeleteTopUpDb
  <2>3. next.prepaid[p] = Booked(x.prepaid[p], i, r)
    BY <1>1, <2>2, RowTypes
  <2> QED BY <2>3 DEF Booked
<1>5. ~IsVoucher(next, p)
  BY <1>0, <1>3 DEF IsVoucher
<1>6. ASSUME NEW u \in Live(next.ptt), IsVoucher(next, next.ptt[u].prepaid)
      PROVE  Untouched(x, w, u)
  <2>1. u # t /\ u \in Live(x.ptt) /\ next.ptt[u] = x.ptt[u]
    BY <1>2, <1>6 DEF Live
  <2>2. x.ptt[u].prepaid \in PrepaidIds /\ x.ptt[u].prepaid # p
    BY <1>5, <1>6, <2>1, RowTypes DEF PttRow
  <2> QED BY <1>0, <1>2, <2>1, <2>2 DEF Untouched
<1> QED BY <1>0, <1>6

\* A prepaid is deleted with its transactions.
LEMMA DeletePrepaidWrites ==
    ASSUME NEW x \in Database, RowsRefer(x), NEW p \in PrepaidIds,
           NEW w, w.db = DeletePrepaidDb(x, p), w.ps = {}, w.ts = {}
    PROVE  \A u \in Live(w.db.ptt) : Untouched(x, w, u)
<1>0. PICK next : next = w.db
  OBVIOUS
<1>1. ASSUME NEW u \in Live(next.ptt)
      PROVE  Untouched(x, w, u)
  <2>1. /\ u \in Live(x.ptt) /\ next.ptt[u] = x.ptt[u] /\ x.ptt[u].prepaid # p
    BY <1>0, RowTypes DEF DeletePrepaidDb, Live, PttsOf
  <2>2. x.ptt[u].prepaid \in PrepaidIds
    BY <2>1, RowTypes DEF PttRow
  <2>3. next.prepaid[x.ptt[u].prepaid] = x.prepaid[x.ptt[u].prepaid]
    BY <1>0, <2>1, <2>2, RowTypes DEF DeletePrepaidDb
  <2> QED BY <1>0, <2>1, <2>3 DEF Untouched
<1> QED BY <1>0, <1>1

-----------------------------------------------------------------------------
\* The rows a checkout that draws d on prepaid p writes,
Charged(x, next, p, d) ==
    /\ d \in [PttIds -> Nat] /\ Total(d, NPtts) \in Nat
    /\ \A t \in PttIds : d[t] > 0 => t \in PttsOf(x, p)
    /\ \A q \in PrepaidIds : q # p => next.prepaid[q] = x.prepaid[q]
    /\ \A t \in Live(x.ptt) : /\ next.ptt[t].prepaid = x.ptt[t].prepaid
                              /\ next.ptt[t].remain = x.ptt[t].remain - d[t]
    /\ Live(next.ptt) = Live(x.ptt)

LEMMA CheckOutRows ==
    ASSUME NEW x \in Database, RowsRefer(x), NEW p \in PrepaidIds, p \in Live(x.prepaid),
           NEW s \in SaleIds, s \notin Live(x.sale), NEW today \in Nat, NEW qty \in Nat,
           NEW next, next = CheckOutDb(x, p, s, today, qty), NEW d, d = Draws(x, p, today, qty)
    PROVE  Charged(x, next, p, d)
<1>1. /\ d \in [PttIds -> Nat] /\ Total(d, NPtts) \in Nat
      /\ \A t \in PttIds : d[t] > 0 => t \in PttsOf(x, p)
      /\ next.sale = [x.sale EXCEPT ![s] =
            [prepaid |-> p, created |-> today, qty |-> qty, drawn |-> d,
             due |-> qty - Total(d, NPtts)]]
      /\ \A q \in PrepaidIds : q # p => next.prepaid[q] = x.prepaid[q]
      /\ \A t \in Live(x.ptt) : /\ next.ptt[t].prepaid = x.ptt[t].prepaid
                                /\ next.ptt[t].remain = x.ptt[t].remain - d[t]
      /\ Live(next.ptt) = Live(x.ptt)
  BY CheckOutEffect, SMTT(30)
<1> QED BY <1>1 DEF Charged

\* and those the deletion of an order that puts back on prepaid p writes.
Restored(x, next, p, back) ==
    /\ \A q \in PrepaidIds : next.prepaid[q].type = x.prepaid[q].type
    /\ \A q \in PrepaidIds : q # p => next.prepaid[q] = x.prepaid[q]
    /\ \A t \in Live(x.ptt) : /\ next.ptt[t].prepaid = x.ptt[t].prepaid
                              /\ next.ptt[t].remain = x.ptt[t].remain + back[t]
    /\ Live(next.ptt) = Live(x.ptt)

LEMMA RemoveSaleRows ==
    ASSUME NEW x \in Database, RowsRefer(x), NEW s \in SaleIds, s \in Live(x.sale),
           NEW next, next = RemoveSaleDb(x, s), NEW back, back = PutBack(x, s)
    PROVE  Restored(x, next, x.sale[s].prepaid, back)
<1>1. /\ next.sale = [x.sale EXCEPT ![s] = NoRow]
      /\ \A q \in PrepaidIds : next.prepaid[q].type = x.prepaid[q].type
      /\ \A q \in PrepaidIds : q # x.sale[s].prepaid => next.prepaid[q] = x.prepaid[q]
      /\ \A t \in Live(x.ptt) : /\ next.ptt[t].prepaid = x.ptt[t].prepaid
                                /\ next.ptt[t].remain = x.ptt[t].remain + back[t]
      /\ Live(next.ptt) = Live(x.ptt)
  BY RemoveSaleEffect, SMTT(30)
<1> QED BY <1>1 DEF Restored

OpenInStep(x) ==
    \A t \in Live(x.ptt) : IsVoucher(x, x.ptt[t].prepaid) /\ x.ptt[t].active => InStep(x, t)

\* A checkout: if it draws on a voucher's transaction that was open, and so
\* was the voucher; it empties and closes both at once.
LEMMA CheckOutMoves ==
    ASSUME NEW x \in Database, RowsRefer(x), SumsAgree(x), Single(x, x),
           OpenInStep(x),
           NEW p \in PrepaidIds, p \in Live(x.prepaid),
           NEW s \in SaleIds, s \notin Live(x.sale), NEW today \in Nat, NEW qty \in Nat,
           NEW next, next = CheckOutDb(x, p, s, today, qty),
           NEW g, NEW w, w = Write(next, {}, {}, g)
    PROVE  MovesVouchers(x, w, {})
<1>0. w.db = next /\ w.ps = {} /\ w.ts = {}
  BY DEF Write
<1>10. PICK d : d = Draws(x, p, today, qty)
  OBVIOUS
<1>1. /\ d \in [PttIds -> Nat] /\ Total(d, NPtts) \in Nat
      /\ \A t \in PttIds : d[t] > 0 => t \in PttsOf(x, p)
      /\ \A q \in PrepaidIds : q # p => next.prepaid[q] = x.prepaid[q]
      /\ \A t \in Live(x.ptt) : /\ next.ptt[t].prepaid = x.ptt[t].prepaid
                                /\ next.ptt[t].remain = x.ptt[t].remain - d[t]
      /\ Live(next.ptt) = Live(x.ptt)
  <2>1. Charged(x, next, p, d)
    BY <1>10, CheckOutRows
  <2> QED BY <2>1 DEF Charged
<1>2. ASSUME NEW t \in PttIds
      PROVE  next.ptt[t] = IF d[t] = 0 THEN x.ptt[t]
                           ELSE [x.ptt[t] EXCEPT !.remain = @ - d[t],
                                                 !.active = @ /\ x.ptt[t].remain > d[t]]
  BY <1>10 DEF CheckOutDb
<1>3. ASSUME NEW t \in PttIds, d[t] > 0
      PROVE  x.ptt[t].active /\ x.ptt[t].remain > 0
  <2>1. IsUsable(x, p, today, t)
    BY <1>3, <1>10 DEF Draws
  <2> QED BY <2>1 DEF IsUsable
<1> DEFINE left == x.prepaid[p].remain - Total(d, NPtts)
<1>4. next.prepaid[p] = [x.prepaid[p] EXCEPT
            !.remain = left,
            !.active = @ /\ ~(left <= 0 /\ x.prepaid[p].type \in VoucherTypes)]
  BY <1>10, RowTypes DEF CheckOutDb
<1>5. x.prepaid[p] \in PrepaidRow
  BY RowTypes
<1>6. /\ next.prepaid[p].remain = left
      /\ next.prepaid[p].active = (x.prepaid[p].active
            /\ ~(left <= 0 /\ x.prepaid[p].type \in VoucherTypes))
      /\ next.prepaid[p].type = x.prepaid[p].type
  BY <1>4, <1>5 DEF PrepaidRow
<1>7. ASSUME NEW u \in Live(x.ptt), x.ptt[u].prepaid = p, IsVoucher(x, p)
      PROVE  MovesVoucher(x, w, u, FALSE)
  <2>1. /\ u \in PttIds /\ x.ptt[u] \in PttRow /\ PttsOf(x, p) = {u}
        /\ x.prepaid[p].remain = x.ptt[u].remain
    <3>1. PttsRefer(x)
      BY DEF RowsRefer, PttsRefer
    <3> QED BY <1>7, <3>1, VoucherBalance
  <2>2. d[u] \in Nat /\ x.ptt[u].remain \in Int
    BY <1>1, <2>1 DEF PttRow
  <2>3. Total(d, NPtts) = d[u]
    <3>1. \A v \in 1..NPtts : v # u => d[v] = 0
      BY <1>1, <2>1 DEF PttIds
    <3>2. NPtts \in Nat /\ d \in [1..NPtts -> Int] /\ u \in 1..NPtts
      BY <1>1, <2>1, TablesAssumption DEF PttIds
    <3> QED BY <3>1, <3>2, TotalOne
  <2>4. left = x.ptt[u].remain - d[u] /\ left = next.ptt[u].remain
    BY <1>1, <2>1, <2>3
  <2>5. next.ptt[u].prepaid = p
    BY <1>1, <1>7
  <2>6. CASE d[u] = 0
    <3>1. next.ptt[u] = x.ptt[u]
      BY <1>2, <2>1, <2>6
    <3>2. CASE next.prepaid[p] = x.prepaid[p]
      BY <1>0, <2>5, <3>1, <3>2 DEF MovesVoucher, Rewrites, RewritesPtt
    <3>3. CASE next.prepaid[p] # x.prepaid[p]
      <4>1. left <= 0
        <5>1. left = x.prepaid[p].remain
          BY <2>1, <2>2, <2>4, <2>6
        <5>2. ~(left <= 0) => next.prepaid[p] = x.prepaid[p]
          <6> SUFFICES ASSUME ~(left <= 0) PROVE next.prepaid[p] = x.prepaid[p]
            OBVIOUS
          <6>1. next.prepaid[p] = [x.prepaid[p] EXCEPT !.remain = left,
                                                       !.active = x.prepaid[p].active]
            BY <1>4, <1>5 DEF PrepaidRow
          <6> HIDE DEF left
          <6> QED BY <1>5, <5>1, <6>1 DEF PrepaidRow
        <5> QED BY <3>3, <5>2
      <4>2. InStep(next, u)
        BY <2>2, <2>4, <4>1 DEF InStep
      <4>3. ~next.prepaid[p].active
        BY <1>6, <1>7, <4>1 DEF IsVoucher
      <4>4. Rewrites(x, w, p)
        BY <1>0, <3>3 DEF Rewrites
      <4> QED BY <1>0, <2>5, <4>2, <4>3, <4>4 DEF MovesVoucher
    <3> QED BY <3>2, <3>3
  <2>7. CASE d[u] # 0
    <3>1. d[u] > 0 /\ x.ptt[u].active /\ x.ptt[u].remain > 0
      BY <1>3, <2>1, <2>2, <2>7
    <3>2. x.prepaid[p].active = x.ptt[u].active
      BY <1>7, <3>1 DEF OpenInStep, InStep
    <3>3. next.ptt[u].remain > 0 => next.ptt[u].active = x.ptt[u].active
      <4>1. next.ptt[u].remain > 0 => x.ptt[u].remain > d[u]
        BY <2>2, <2>4
      <4> QED BY <1>2, <2>1, <2>7, <4>1 DEF PttRow
    <3>4. next.ptt[u].remain > 0 => next.prepaid[p].active = x.prepaid[p].active
      <4>1. next.ptt[u].remain > 0 => ~(left <= 0)
        BY <2>2, <2>4
      <4> HIDE DEF left
      <4> QED BY <1>5, <1>6, <4>1 DEF PrepaidRow
    <3>5. InStep(next, u)
      BY <2>5, <3>2, <3>3, <3>4 DEF InStep
    <3>6. next.ptt[u].remain # x.ptt[u].remain /\ next.prepaid[p].remain # x.prepaid[p].remain
      BY <1>6, <2>1, <2>2, <2>4, <2>7
    <3>7. Rewrites(x, w, p) /\ RewritesPtt(x, w, u)
      BY <1>0, <3>6 DEF Rewrites, RewritesPtt
    <3> QED BY <1>0, <2>5, <3>5, <3>7 DEF MovesVoucher
  <2> QED BY <2>6, <2>7
<1>8. ASSUME NEW u \in Live(x.ptt), x.ptt[u].prepaid # p
      PROVE  MovesVoucher(x, w, u, FALSE)
  <2>1. u \in PttIds /\ x.ptt[u].prepaid \in PrepaidIds
    BY RowTypes DEF PttRow
  <2>2. d[u] = 0
    BY <1>1, <1>8, <2>1 DEF PttsOf
  <2>3. next.ptt[u] = x.ptt[u]
    BY <1>2, <2>1, <2>2
  <2>4. next.ptt[u].prepaid = x.ptt[u].prepaid
    BY <1>1
  <2>5. next.prepaid[x.ptt[u].prepaid] = x.prepaid[x.ptt[u].prepaid]
    BY <1>1, <1>8, <2>1
  <2> QED BY <1>0, <2>3, <2>4, <2>5 DEF MovesVoucher, Rewrites, RewritesPtt
<1>9. ASSUME NEW u \in Live(next.ptt), IsVoucher(next, next.ptt[u].prepaid)
      PROVE  MovesVoucher(x, w, u, FALSE)
  <2>1. u \in Live(x.ptt) /\ next.ptt[u].prepaid = x.ptt[u].prepaid
    BY <1>1
  <2> QED BY <1>6, <1>7, <1>8, <1>9, <2>1 DEF IsVoucher
<1>11. \A q : (q \in {}) = FALSE
  OBVIOUS
<1> QED BY <1>0, <1>9, <1>11 DEF MovesVouchers

\* Deleting an order opens both rows of a voucher it puts back on.
LEMMA RemoveSaleMoves ==
    ASSUME NEW x \in Database, RowsRefer(x), PaymentsWithinItems(x), Single(x, x),
           NEW s \in SaleIds, s \in Live(x.sale),
           NEW next, next = RemoveSaleDb(x, s),
           NEW g, NEW w, w = Write(next, {}, {}, g)
    PROVE  MovesVouchers(x, w, {})
<1>0. w.db = next /\ w.ps = {} /\ w.ts = {}
  BY DEF Write
<1>10. PICK back, p : back = PutBack(x, s) /\ p = x.sale[s].prepaid
  OBVIOUS
<1>1. /\ back \in [PttIds -> Nat]
      /\ \A t \in PttIds : back[t] > 0 => t \in PttsOf(x, p)
  BY <1>10, PutBackType DEF RowsRefer
<1>2. /\ \A q \in PrepaidIds : next.prepaid[q].type = x.prepaid[q].type
      /\ \A q \in PrepaidIds : q # x.sale[s].prepaid => next.prepaid[q] = x.prepaid[q]
      /\ \A t \in Live(x.ptt) : /\ next.ptt[t].prepaid = x.ptt[t].prepaid
                                /\ next.ptt[t].remain = x.ptt[t].remain + back[t]
      /\ Live(next.ptt) = Live(x.ptt)
  <2>1. Restored(x, next, x.sale[s].prepaid, back)
    BY <1>10, RemoveSaleRows
  <2> QED BY <2>1 DEF Restored
<1>3. ASSUME NEW t \in PttIds
      PROVE  next.ptt[t] = IF back[t] = 0 THEN x.ptt[t]
                           ELSE [x.ptt[t] EXCEPT !.remain = @ + back[t], !.active = TRUE]
  BY <1>10 DEF RemoveSaleDb
<1>4. ASSUME NEW t \in PttIds, back[t] > 0
      PROVE  next.prepaid[p].active = TRUE /\ next.prepaid[p] # x.prepaid[p]
  <2>1. p \in PrepaidIds /\ x.prepaid[p] \in PrepaidRow
    BY <1>1, <1>4, RowTypes DEF PttsOf, RowsRefer
  <2> DEFINE left == x.prepaid[p].remain + Total(back, NPtts)
  <2>2. next.prepaid = [x.prepaid EXCEPT ![p].remain = @ + Total(back, NPtts),
                                         ![p].active = TRUE]
    BY <1>4, <1>10 DEF RemoveSaleDb
  <2>3. next.prepaid[p] = [x.prepaid[p] EXCEPT !.remain = left, !.active = TRUE]
    BY <2>1, <2>2, RowTypes
  <2>4. left # x.prepaid[p].remain
    <3>1. NPtts \in Nat /\ back \in [1..NPtts -> Nat] /\ t \in 1..NPtts
      BY <1>1, TablesAssumption DEF PttIds
    <3>2. Total(back, NPtts) \in Int /\ Total(back, NPtts) >= back[t]
      BY <3>1, TotalBoundsEntry, TotalNonNegative
    <3>3. x.prepaid[p].remain \in Int /\ back[t] \in Nat
      BY <1>1, <2>1 DEF PrepaidRow
    <3>4. PICK n : n = Total(back, NPtts)
      OBVIOUS
    <3> QED BY <1>4, <3>2, <3>3, <3>4
  <2> HIDE DEF left
  <2> QED BY <2>1, <2>3, <2>4 DEF PrepaidRow
<1>5. (\A t \in PttIds : back[t] = 0) => next.prepaid = x.prepaid
  <2>1. (~ \E t \in PttIds : back[t] > 0) => next.prepaid = x.prepaid
    BY <1>10 DEF RemoveSaleDb
  <2> QED BY <2>1
<1>6. ASSUME NEW u \in Live(x.ptt), back[u] # 0
      PROVE  MovesVoucher(x, w, u, FALSE)
  <2>1. u \in PttIds /\ x.ptt[u] \in PttRow /\ back[u] > 0
    BY <1>1, <1>6, RowTypes
  <2>2. x.ptt[u].prepaid = p
    BY <1>1, <2>1 DEF PttsOf
  <2>3. next.ptt[u].active = TRUE /\ next.ptt[u].prepaid = p
    BY <1>3, <1>6, <2>1, <2>2 DEF PttRow
  <2>4. next.ptt[u].remain # x.ptt[u].remain
    <3>1. next.ptt[u].remain = x.ptt[u].remain + back[u]
      BY <1>2
    <3>2. x.ptt[u].remain \in Int /\ back[u] \in Nat
      BY <1>1, <2>1 DEF PttRow
    <3> QED BY <2>1, <3>1, <3>2
  <2>5. Rewrites(x, w, p) /\ RewritesPtt(x, w, u)
    BY <1>0, <1>4, <2>1, <2>4 DEF Rewrites, RewritesPtt
  <2>6. InStep(next, u)
    BY <1>4, <2>1, <2>3 DEF InStep
  <2> QED BY <1>0, <2>3, <2>5, <2>6 DEF MovesVoucher
<1>7. ASSUME NEW u \in Live(x.ptt), back[u] = 0, IsVoucher(x, x.ptt[u].prepaid)
      PROVE  MovesVoucher(x, w, u, FALSE)
  <2>1. u \in PttIds /\ x.ptt[u].prepaid \in PrepaidIds
    BY RowTypes DEF PttRow
  <2>2. next.ptt[u] = x.ptt[u]
    BY <1>3, <1>7, <2>1
  <2>3. next.prepaid[x.ptt[u].prepaid] = x.prepaid[x.ptt[u].prepaid]
    <3>1. CASE x.ptt[u].prepaid # p
      BY <1>2, <1>10, <2>1, <3>1
    <3>2. CASE x.ptt[u].prepaid = p
      <4>1. \A v \in PttsOf(x, p) : v = u
        BY <1>7, <3>2 DEF PttsOf, Single
      <4>2. \A v \in PttIds : back[v] = 0
        BY <1>1, <1>7, <4>1
      <4> QED BY <1>5, <4>2
    <3> QED BY <3>1, <3>2
  <2> QED BY <1>0, <2>2, <2>3 DEF MovesVoucher, Rewrites, RewritesPtt
<1>8. ASSUME NEW u \in Live(next.ptt), IsVoucher(next, next.ptt[u].prepaid)
      PROVE  MovesVoucher(x, w, u, FALSE)
  <2>1. u \in Live(x.ptt) /\ next.ptt[u].prepaid = x.ptt[u].prepaid
    BY <1>2
  <2>2. x.ptt[u].prepaid \in PrepaidIds
    BY <2>1, RowTypes DEF PttRow
  <2>3. IsVoucher(x, x.ptt[u].prepaid)
    BY <1>2, <1>8, <2>1, <2>2 DEF IsVoucher
  <2> QED BY <1>6, <1>7, <2>1, <2>3
<1>11. \A q : (q \in {}) = FALSE
  OBVIOUS
<1> QED BY <1>0, <1>8, <1>11 DEF MovesVouchers

\* The job closes the transaction of a voucher first, and the voucher in a
\* commit of its own if it is open.
Retires(x, retired, closed, v, w) ==
    /\ Live(retired.ptt) = Live(x.ptt) /\ Live(closed.ptt) = Live(x.ptt)
    /\ \A u \in Live(x.ptt) : /\ retired.ptt[u].prepaid = x.ptt[u].prepaid
                              /\ retired.ptt[u].root = x.ptt[u].root
                              /\ closed.ptt[u].prepaid = x.ptt[u].prepaid
                              /\ closed.ptt[u].root = x.ptt[u].root
    /\ \A q \in PrepaidIds : /\ retired.prepaid[q].type = x.prepaid[q].type
                             /\ closed.prepaid[q].type = x.prepaid[q].type
    /\ closed = retired => MovesVouchers(x, v, {})
    /\ closed # retired =>
          /\ MovesVouchers(x, v, {q \in Live(closed.prepaid) : ~closed.prepaid[q].active})
          /\ MovesVouchers(retired, w, {})

LEMMA RetireMoves ==
    ASSUME NEW x \in Database, RowsRefer(x), Single(x, x), NEW t \in PttIds, t \in Live(x.ptt),
           x.ptt[t].active, NEW retired, retired = [x EXCEPT !.ptt[t].active = FALSE],
           NEW closed, closed = ExpireDb(x, t), NEW g,
           NEW v, v = Write(retired, {}, {}, g), NEW w, w = Write(closed, {}, {}, g)
    PROVE  Retires(x, retired, closed, v, w)
<1>0. PICK p, row : p = x.ptt[t].prepaid /\ row = [x.ptt[t] EXCEPT !.active = FALSE]
  OBVIOUS
<1>1. /\ x.ptt[t] \in PttRow
      /\ p \in Live(x.prepaid) /\ p \in PrepaidIds /\ x.prepaid[p] \in PrepaidRow
  BY <1>0, RowTypes DEF RowsRefer
<1>2. /\ row.prepaid = p /\ row.root = x.ptt[t].root /\ row.active = FALSE
      /\ row.remain = x.ptt[t].remain /\ row \in PttRow
  BY <1>0, <1>1 DEF PttRow
<1>3. row # NoRow /\ row # x.ptt[t]
  BY <1>2, TablesAssumption
<1>4. /\ retired.ptt = [x.ptt EXCEPT ![t] = row] /\ retired.prepaid = x.prepaid
  <2>1. x = [prepaid |-> x.prepaid, ptt |-> x.ptt, sale |-> x.sale]
    BY DEF Database
  <2> QED BY <1>0, <2>1
<1>5. closed.ptt = [x.ptt EXCEPT ![t] = row]
  BY <1>0 DEF ExpireDb
<1>6. /\ closed.prepaid[p].type = x.prepaid[p].type /\ closed.prepaid[p] \in PrepaidRow
      /\ x.prepaid[p].type \in VoucherTypes => closed.prepaid[p].active = FALSE
      /\ \A q \in PrepaidIds : q # p => closed.prepaid[q] = x.prepaid[q]
      /\ DOMAIN closed.prepaid = PrepaidIds
  <2> DEFINE open == x.prepaid[p].active /\ x.prepaid[p].type \notin VoucherTypes
             prow == [x.prepaid[p] EXCEPT !.active = open]
  <2>1. closed.prepaid = [x.prepaid EXCEPT ![p] = prow]
    BY <1>0, <1>1, RowTypes DEF ExpireDb
  <2>2. open \in BOOLEAN /\ (x.prepaid[p].type \in VoucherTypes => open = FALSE)
    OBVIOUS
  <2> HIDE DEF open
  <2>3. prow.type = x.prepaid[p].type /\ prow.active = open /\ prow \in PrepaidRow
    BY <1>1, <2>2 DEF PrepaidRow
  <2> HIDE DEF prow
  <2> QED BY <1>1, <2>1, <2>2, <2>3, RowTypes
<1>7. /\ retired.ptt = closed.ptt /\ retired.ptt[t] = row
      /\ \A u \in PttIds : u # t => retired.ptt[u] = x.ptt[u]
      /\ DOMAIN retired.ptt = PttIds /\ DOMAIN x.ptt = PttIds
  BY <1>4, <1>5, RowTypes
<1>8. Live(retired.ptt) = Live(x.ptt) /\ Live(closed.ptt) = Live(x.ptt)
  BY <1>3, <1>7, ZenonT(30) DEF Live
<1>9. ASSUME NEW u \in Live(x.ptt)
      PROVE  /\ retired.ptt[u].prepaid = x.ptt[u].prepaid
             /\ retired.ptt[u].root = x.ptt[u].root
             /\ u \in PttIds /\ x.ptt[u].prepaid \in PrepaidIds
  <2>1. u \in PttIds /\ x.ptt[u] \in PttRow
    BY RowTypes
  <2>2. CASE u = t
    BY <1>0, <1>1, <1>2, <1>7, <2>1, <2>2
  <2>3. CASE u # t
    BY <1>7, <2>1, <2>3 DEF PttRow
  <2> QED BY <2>2, <2>3
<1>10. \A q \in PrepaidIds : /\ retired.prepaid[q].type = x.prepaid[q].type
                             /\ closed.prepaid[q].type = x.prepaid[q].type
  BY <1>4, <1>6
<1>11. /\ v.db = retired /\ v.ps = {} /\ v.ts = {}
       /\ w.db = closed /\ w.ps = {} /\ w.ts = {}
  BY DEF Write
<1>12. ASSUME NEW closing,
              IsVoucher(x, p) /\ x.prepaid[p].active => p \in closing
       PROVE  MovesVouchers(x, v, closing)
  <2>1. ASSUME NEW u \in Live(retired.ptt), IsVoucher(retired, retired.ptt[u].prepaid)
        PROVE  MovesVoucher(x, v, u, retired.ptt[u].prepaid \in closing)
    <3>1. u \in Live(x.ptt) /\ retired.ptt[u].prepaid = x.ptt[u].prepaid
      BY <1>8, <1>9, <2>1
    <3>2. CASE u = t
      <4>1. x.prepaid[p].active => p \in closing
        BY <1>0, <1>4, <1>12, <2>1, <3>1, <3>2 DEF IsVoucher
      <4>2. ~Rewrites(x, v, p) /\ RewritesPtt(x, v, t)
        BY <1>3, <1>4, <1>7, <1>11 DEF Rewrites, RewritesPtt
      <4>3. retired.ptt[t].prepaid = p /\ ~retired.ptt[t].active
            /\ x.ptt[t].remain = retired.ptt[t].remain
        BY <1>2, <1>7
      <4> QED BY <1>11, <3>2, <4>1, <4>2, <4>3 DEF MovesVoucher
    <3>3. CASE u # t
      <4>1. retired.ptt[u] = x.ptt[u]
        BY <1>7, <1>9, <3>1, <3>3
      <4> QED BY <1>4, <1>11, <4>1 DEF MovesVoucher, Rewrites, RewritesPtt
    <3> QED BY <3>2, <3>3
  <2> QED BY <1>11, <2>1 DEF MovesVouchers
<1>13. ASSUME closed = retired
       PROVE  MovesVouchers(x, v, {})
  <2>1. IsVoucher(x, p) => x.prepaid[p].active = FALSE
    BY <1>4, <1>6, <1>13 DEF IsVoucher
  <2> QED BY <1>12, <2>1
<1>14. ASSUME closed # retired
       PROVE  MovesVouchers(x, v, {q \in Live(closed.prepaid) : ~closed.prepaid[q].active})
  <2>1. p \in Live(closed.prepaid)
    BY <1>1, <1>6, TablesAssumption DEF Live
  <2>2. IsVoucher(x, p) => p \in {q \in Live(closed.prepaid) : ~closed.prepaid[q].active}
    BY <1>6, <2>1 DEF IsVoucher
  <2> QED BY <1>12, <2>2
<1>15. ASSUME closed # retired
       PROVE  MovesVouchers(retired, w, {})
  <2>1. ASSUME NEW u \in Live(closed.ptt), IsVoucher(closed, closed.ptt[u].prepaid)
        PROVE  MovesVoucher(retired, w, u, FALSE)
    <3>1. u \in Live(x.ptt) /\ closed.ptt[u].prepaid = x.ptt[u].prepaid
      BY <1>7, <1>8, <1>9, <2>1
    <3>2. x.ptt[u].prepaid \in PrepaidIds
      BY <1>9, <3>1
    <3>3. ~RewritesPtt(retired, w, u)
      BY <1>7, <1>11 DEF RewritesPtt
    <3>4. CASE closed.prepaid[x.ptt[u].prepaid] = retired.prepaid[x.ptt[u].prepaid]
      <4>1. ~Rewrites(retired, w, x.ptt[u].prepaid)
        BY <1>11, <3>4 DEF Rewrites
      <4> QED BY <1>11, <3>1, <3>3, <4>1 DEF MovesVoucher
    <3>5. CASE closed.prepaid[x.ptt[u].prepaid] # retired.prepaid[x.ptt[u].prepaid]
      <4>1. x.ptt[u].prepaid = p
        BY <1>4, <1>6, <3>2, <3>5
      <4>2. IsVoucher(x, p)
        BY <1>6, <2>1, <3>1, <4>1 DEF IsVoucher
      <4>3. u = t
        BY <1>0, <3>1, <4>1, <4>2 DEF Single
      <4>4. closed.ptt[t].active = FALSE /\ closed.prepaid[p].active = FALSE
            /\ closed.ptt[t].prepaid = p
        BY <1>2, <1>6, <1>7, <4>2 DEF IsVoucher
      <4>5. InStep(closed, t)
        BY <4>4 DEF InStep
      <4>6. Rewrites(retired, w, p)
        BY <1>11, <3>5, <4>1 DEF Rewrites
      <4> QED BY <1>11, <4>3, <4>4, <4>5, <4>6 DEF MovesVoucher
    <3> QED BY <3>4, <3>5
  <2>2. \A q : (q \in {}) = FALSE
    OBVIOUS
  <2> QED BY <1>11, <2>1, <2>2 DEF MovesVouchers
<1>16. \A u \in Live(x.ptt) : /\ retired.ptt[u].prepaid = x.ptt[u].prepaid
                              /\ retired.ptt[u].root = x.ptt[u].root
                              /\ closed.ptt[u].prepaid = x.ptt[u].prepaid
                              /\ closed.ptt[u].root = x.ptt[u].root
  BY <1>7, <1>9
<1> QED BY <1>8, <1>10, <1>13, <1>14, <1>15, <1>16 DEF Retires

-----------------------------------------------------------------------------
\* What is stored, of vouchers.
LEMMA StoredVouchers ==
    ASSUME SInv, VInv
    PROVE  /\ db \in Database /\ RowsRefer(db) /\ PaymentsWithinItems(db)
           /\ OnePtt /\ Single(db, db)
           /\ ~overwrote /\ ~torn => SumsAgree(db) /\ OpenInStep(db)
<1>1. db \in Database /\ RowsRefer(db) /\ PaymentsWithinItems(db)
  BY StoredFacts
<1>2. OnePtt /\ Single(db, db)
  BY CopiesAre DEF VInv, OnePtt
<1>3. ASSUME ~overwrote, ~torn
      PROVE  SumsAgree(db) /\ OpenInStep(db)
  <2>1. SumsAgree(db)
    BY <1>3, CopiesAre DEF SInv, BalancesRight
  <2>2. OpenInStep(db)
    BY <1>3 DEF VInv, StepOrMend, Mends, OpenInStep
  <2> QED BY <2>1, <2>2
<1> QED BY <1>1, <1>2, <1>3

\* Tables that keep the transactions of vouchers or drop them.
LEMMA KeepsAlone ==
    ASSUME Single(db, db), NEW next, RowsRefer(db), db \in Database,
           \A t \in Live(next.ptt) :
              IsVoucher(next, next.ptt[t].prepaid) =>
                 /\ t \in Live(db.ptt) /\ next.ptt[t].prepaid = db.ptt[t].prepaid
                 /\ next.ptt[t].root = db.ptt[t].root
                 /\ IsVoucher(db, db.ptt[t].prepaid)
    PROVE  SoldAlone(next)
<1>1. ASSUME NEW t \in Live(next.ptt), IsVoucher(next, next.ptt[t].prepaid)
      PROVE  AloneIn(next, t)
  <2>1. /\ t \in Live(db.ptt) /\ next.ptt[t].prepaid = db.ptt[t].prepaid
        /\ next.ptt[t].root = db.ptt[t].root
        /\ IsVoucher(db, db.ptt[t].prepaid)
    BY <1>1
  <2>2. db.ptt[t].root
    BY <2>1 DEF Single
  <2> QED BY <2>1, <2>2 DEF AloneIn
<1> QED BY <1>1 DEF SoldAlone

\* A commit that leaves each voucher alone or writes both its rows.
LEMMA TouchedMoves ==
    ASSUME SInv, VInv, NEW w,
           \A u \in Live(w.db.ptt) : IsVoucher(w.db, w.db.ptt[u].prepaid) =>
              Untouched(db, w, u) \/ Rewritten(db, w, u)
    PROVE  SoldAlone(w.db) /\ MovesVouchers(db, w, {})
<1>1. db \in Database /\ RowsRefer(db) /\ Single(db, db)
  BY StoredVouchers
<1>2. ASSUME NEW u \in Live(w.db.ptt), IsVoucher(w.db, w.db.ptt[u].prepaid)
      PROVE  /\ u \in Live(db.ptt) /\ w.db.ptt[u].prepaid = db.ptt[u].prepaid
             /\ w.db.ptt[u].root = db.ptt[u].root
             /\ IsVoucher(db, db.ptt[u].prepaid)
             /\ MovesVoucher(db, w, u, FALSE)
  <2>1. CASE Untouched(db, w, u)
    <3>1. /\ u \in Live(db.ptt) /\ u \notin w.ts /\ w.db.ptt[u] = db.ptt[u]
          /\ w.db.ptt[u].prepaid \notin w.ps
          /\ w.db.prepaid[w.db.ptt[u].prepaid] = db.prepaid[w.db.ptt[u].prepaid]
      BY <2>1 DEF Untouched
    <3>2. IsVoucher(db, db.ptt[u].prepaid)
      BY <1>2, <3>1 DEF IsVoucher
    <3>3. MovesVoucher(db, w, u, FALSE)
      BY <3>1 DEF MovesVoucher, Rewrites, RewritesPtt
    <3> QED BY <3>1, <3>2, <3>3
  <2>2. CASE Rewritten(db, w, u)
    BY <2>2 DEF Rewritten, MovesVoucher
  <2> QED BY <1>2, <2>1, <2>2
<1>3. SoldAlone(w.db)
  BY <1>1, <1>2, KeepsAlone
<1>4. \A q : (q \in {}) = FALSE
  OBVIOUS
<1> QED BY <1>2, <1>3, <1>4 DEF MovesVouchers

-----------------------------------------------------------------------------
\* One lemma for each request.  Selling a voucher adds one no copy knows of,
LEMMA AddPrepaidVoucherStep ==
    ASSUME SInv, SInv', VInv, NEW c \in Requests, NEW p \in PrepaidIds, NEW t \in PttIds,
           NEW type \in Types, NEW v \in Amounts, NEW date \in Days, NEW expiry \in Days,
           AddPrepaid(c, p, t, type, v, date, expiry)
    PROVE  VInv'
<1>1. PICK w : w = Write(AddPrepaidDb(db, p, t, type, v, date, expiry), {}, {},
                         [granted EXCEPT ![t] = InitValue(type, v)])
  OBVIOUS
<1>2. /\ w.db = AddPrepaidDb(db, p, t, type, v, date, expiry) /\ w.ps = {} /\ w.ts = {}
  BY <1>1 DEF Write
<1>3. Begin(c, <<w>>) /\ IsFresh("prepaid", p) /\ IsFresh("ptt", t)
  BY <1>1 DEF AddPrepaid
<1>4. /\ v \in Nat /\ date \in Nat /\ expiry \in Nat /\ type \in PrepaidTypes
      /\ p \notin Live(db.prepaid) /\ t \notin Live(db.ptt)
  BY <1>3, Inputs, StoredFacts
<1>5. \A x \in Copies : p \notin Live(x.prepaid)
  BY <1>3, FreshIsNew DEF SInv
<1>6. db \in Database /\ RowsRefer(db) /\ Single(db, db)
  BY StoredVouchers
<1>7. Sells(db, w, p, t)
  BY <1>2, <1>4, <1>6, AddPrepaidWrites
<1>8. ASSUME NEW u \in Live(w.db.ptt), IsVoucher(w.db, w.db.ptt[u].prepaid)
      PROVE  AloneIn(w.db, u) /\ MovesVoucher(db, w, u, FALSE)
  <2>1. CASE Untouched(db, w, u)
    <3>1. /\ u \in Live(db.ptt) /\ u \notin w.ts /\ w.db.ptt[u] = db.ptt[u]
          /\ w.db.ptt[u].prepaid \notin w.ps
          /\ w.db.prepaid[w.db.ptt[u].prepaid] = db.prepaid[w.db.ptt[u].prepaid]
      BY <2>1 DEF Untouched
    <3>2. IsVoucher(db, db.ptt[u].prepaid)
      BY <1>8, <3>1 DEF IsVoucher
    <3>3. db.ptt[u].root
      BY <1>6, <3>1, <3>2 DEF Single
    <3>4. MovesVoucher(db, w, u, FALSE)
      BY <3>1 DEF MovesVoucher, Rewrites, RewritesPtt
    <3> QED BY <3>1, <3>2, <3>3, <3>4 DEF AloneIn
  <2>2. CASE ~Untouched(db, w, u)
    <3>1. /\ w.db.ptt[u].prepaid = p /\ w.db.ptt[u].root /\ PttsOf(w.db, p) = {u}
          /\ Rewrites(db, w, p) /\ RewritesPtt(db, w, u) /\ InStep(w.db, u)
      BY <1>7, <2>2 DEF Sells
    <3>2. AloneIn(w.db, u)
      BY <1>5, <3>1 DEF AloneIn
    <3> QED BY <3>1, <3>2 DEF MovesVoucher
  <2> QED BY <2>1, <2>2
<1>9. SoldAlone(w.db) /\ MovesVouchers(db, w, {})
  <2>1. \A q : (q \in {}) = FALSE
    OBVIOUS
  <2> QED BY <1>8, <2>1 DEF SoldAlone, MovesVouchers
<1> QED BY <1>3, <1>9, BeginOneVouchers

\* a top-up is of a package,
LEMMA TopUpVoucherStep ==
    ASSUME SInv, SInv', VInv, NEW c \in Requests, NEW p \in PrepaidIds, NEW t \in PttIds,
           NEW v \in Amounts, NEW date \in Days, NEW expiry \in Days,
           TopUp(c, p, t, v, date, expiry)
    PROVE  VInv'
<1>1. PICK carried : carried = {u \in PttsOf(db, p) : db.ptt[u].active /\ db.ptt[u].remain > 0}
  OBVIOUS
<1>2. PICK w : w = Write(TopUpDb(db, p, t, v, date, expiry), {}, carried,
                         [granted EXCEPT ![t] = v])
  OBVIOUS
<1>3. w.db = TopUpDb(db, p, t, v, date, expiry) /\ w.ps = {} /\ w.ts = carried
  BY <1>2 DEF Write
<1>4. /\ Begin(c, <<w>>) /\ IsFresh("ptt", t) /\ p \in Live(db.prepaid)
      /\ db.prepaid[p].type \notin VoucherTypes
  BY <1>1, <1>2 DEF TopUp
<1>5. /\ v \in Nat /\ date \in Nat /\ expiry \in Nat /\ t \notin Live(db.ptt)
      /\ db \in Database /\ RowsRefer(db)
  BY <1>4, Inputs, StoredFacts
<1>6. w.ts \subseteq PttsOf(db, p)
  BY <1>1, <1>3
<1>7. \A u \in Live(w.db.ptt) : IsVoucher(w.db, w.db.ptt[u].prepaid) => Untouched(db, w, u)
  BY <1>3, <1>4, <1>5, <1>6, TopUpWrites
<1>8. SoldAlone(w.db) /\ MovesVouchers(db, w, {})
  BY <1>7, TouchedMoves
<1> QED BY <1>4, <1>8, BeginOneVouchers

\* an edit of a prepaid sets both flags to the one on the form,
LEMMA EditPrepaidVoucherStep ==
    ASSUME SInv, SInv', VInv, NEW c \in Requests, NEW p \in PrepaidIds, NEW t \in PttIds,
           NEW v \in Amounts, NEW r \in Remains, NEW active \in BOOLEAN, NEW date \in Days,
           NEW expiry \in Days, EditPrepaid(c, p, t, v, r, active, date, expiry)
    PROVE  VInv'
<1>1. PICK w : w = Write(EditPrepaidDb(db, p, t, v, r, active, date, expiry), {p}, {t},
                         [granted EXCEPT ![t] = r + Total(DrawnOn(db, t), NSales)])
  OBVIOUS
<1>2. /\ w.db = EditPrepaidDb(db, p, t, v, r, active, date, expiry)
      /\ w.ps = {p} /\ w.ts = {t}
  BY <1>1 DEF Write
<1>3. Begin(c, <<w>>) /\ p \in Live(db.prepaid) /\ PttsOf(db, p) = {t}
  BY <1>1 DEF EditPrepaid
<1>4. /\ v \in Nat /\ r \in Nat /\ date \in Nat /\ expiry \in Nat
      /\ db \in Database /\ RowsRefer(db)
  BY Inputs, StoredFacts
<1>5. \A u \in Live(w.db.ptt) : IsVoucher(w.db, w.db.ptt[u].prepaid) =>
         Untouched(db, w, u) \/ Rewritten(db, w, u)
  BY <1>2, <1>3, <1>4, EditPrepaidWrites
<1>6. SoldAlone(w.db) /\ MovesVouchers(db, w, {})
  BY <1>5, TouchedMoves
<1> QED BY <1>3, <1>6, BeginOneVouchers

\* an edit of a top-up is of a package, for it is no root,
LEMMA EditTopUpVoucherStep ==
    ASSUME SInv, SInv', VInv, NEW c \in Requests, NEW t \in PttIds, NEW v \in Amounts,
           NEW r \in Remains, NEW active \in BOOLEAN, NEW date \in Days, NEW expiry \in Days,
           EditTopUp(c, t, v, r, active, date, expiry)
    PROVE  VInv'
<1>1. PICK w : w = Write(EditTopUpDb(db, t, v, r, active, date, expiry), {}, {t},
                         [granted EXCEPT ![t] = r + Total(DrawnOn(db, t), NSales)])
  OBVIOUS
<1>2. /\ w.db = EditTopUpDb(db, t, v, r, active, date, expiry) /\ w.ps = {} /\ w.ts = {t}
  BY <1>1 DEF Write
<1>3. Begin(c, <<w>>) /\ t \in Live(db.ptt) /\ ~db.ptt[t].root
  BY <1>1 DEF EditTopUp
<1>4. /\ v \in Nat /\ r \in Nat /\ date \in Nat /\ expiry \in Nat
      /\ db \in Database /\ RowsRefer(db)
  BY Inputs, StoredFacts
<1>5. ~IsVoucher(db, db.ptt[t].prepaid)
  BY <1>3, StoredVouchers, NoVoucher
<1>6. \A u \in Live(w.db.ptt) : IsVoucher(w.db, w.db.ptt[u].prepaid) => Untouched(db, w, u)
  BY <1>2, <1>3, <1>4, <1>5, EditTopUpWrites
<1>7. SoldAlone(w.db) /\ MovesVouchers(db, w, {})
  BY <1>6, TouchedMoves
<1> QED BY <1>3, <1>7, BeginOneVouchers

\* a prepaid is deleted with what it was sold with,
LEMMA DeletingPrepaidVouchers ==
    ASSUME SInv, SInv', VInv, NEW c \in Requests, NEW p \in PrepaidIds, NEW g,
           Begin(c, <<Write(DeletePrepaidDb(db, p), {}, {}, g)>>)
    PROVE  VInv'
<1>1. PICK w : w = Write(DeletePrepaidDb(db, p), {}, {}, g)
  OBVIOUS
<1>2. w.db = DeletePrepaidDb(db, p) /\ w.ps = {} /\ w.ts = {}
  BY <1>1 DEF Write
<1>3. \A u \in Live(w.db.ptt) : Untouched(db, w, u)
  BY <1>2, StoredFacts, DeletePrepaidWrites
<1>4. SoldAlone(w.db) /\ MovesVouchers(db, w, {})
  BY <1>3, TouchedMoves
<1> QED BY <1>1, <1>4, BeginOneVouchers

\* and a transaction alone only if it is a package's,
LEMMA DeletingTopUpVouchers ==
    ASSUME SInv, SInv', VInv, NEW c \in Requests, NEW t \in PttIds, t \in Live(db.ptt),
           ~db.ptt[t].root \/ \E u \in PttsOf(db, db.ptt[t].prepaid) : u # t, NEW g,
           Begin(c, <<Write(DeleteTopUpDb(db, t), {}, {}, g)>>)
    PROVE  VInv'
<1>1. PICK w : w = Write(DeleteTopUpDb(db, t), {}, {}, g)
  OBVIOUS
<1>2. w.db = DeleteTopUpDb(db, t) /\ w.ps = {} /\ w.ts = {}
  BY <1>1 DEF Write
<1>3. ~IsVoucher(db, db.ptt[t].prepaid)
  BY StoredVouchers, NoVoucher
<1>4. \A u \in Live(w.db.ptt) : IsVoucher(w.db, w.db.ptt[u].prepaid) => Untouched(db, w, u)
  BY <1>2, <1>3, StoredFacts, DeleteTopUpWrites
<1>5. SoldAlone(w.db) /\ MovesVouchers(db, w, {})
  BY <1>4, TouchedMoves
<1> QED BY <1>1, <1>5, BeginOneVouchers

\* with its order too,
LEMMA RemoveOrderVoucherStep ==
    ASSUME SInv, SInv', VInv, NEW c \in Requests, NEW t \in PttIds, RemoveOrder(c, t)
    PROVE  VInv'
<1>1. PICK p : p = db.ptt[t].prepaid
  OBVIOUS
<1>2. t \in Live(db.ptt) /\ p \in PrepaidIds
  BY <1>1, StoredFacts, LiveIn DEF RemoveOrder, RowsRefer
<1>3. \/ Begin(c, <<Write(DeletePrepaidDb(db, p), {}, {}, Forgotten(PttsOf(db, p)))>>)
      \/ /\ \E u \in FirstPtts(db, p) : u # t
         /\ Begin(c, <<Write(DeleteTopUpDb(db, t), {}, {}, Forgotten({t}))>>)
  BY <1>1 DEF RemoveOrder
<1>4. (\E u \in FirstPtts(db, p) : u # t) => \E u \in PttsOf(db, db.ptt[t].prepaid) : u # t
  BY <1>1 DEF FirstPtts
<1> QED BY <1>2, <1>3, <1>4, DeletingPrepaidVouchers, DeletingTopUpVouchers

\* a checkout closes both rows or neither,
LEMMA CheckOutVoucherStep ==
    ASSUME SInv, SInv', VInv, NEW c \in Requests, NEW p \in PrepaidIds, NEW s \in SaleIds,
           NEW qty \in Amounts, CheckOut(c, p, s, qty)
    PROVE  VInv'
<1>1. PICK next, w : /\ next = CheckOutDb(db, p, s, Today, qty)
                     /\ w = Write(next, {}, {}, granted)
  OBVIOUS
<1>2. /\ Begin(c, <<w>>) /\ p \in Live(db.prepaid) /\ IsFresh("sale", s)
  BY <1>1 DEF CheckOut
<1>3. /\ qty \in Nat /\ Today \in Nat /\ s \notin Live(db.sale)
      /\ db \in Database /\ RowsRefer(db) /\ Single(db, db)
  BY <1>2, Inputs, StoredFacts, StoredVouchers
<1>4. w.db = next
  BY <1>1 DEF Write
<1>5. PICK d : d = Draws(db, p, Today, qty)
  OBVIOUS
<1>6. Charged(db, next, p, d) /\ Kept(db, next)
  <2>1. Charged(db, next, p, d)
    BY <1>1, <1>2, <1>3, <1>5, CheckOutRows
  <2>2. Kept(db, next)
    BY <1>1, <1>2, <1>3, CheckOutKeeps
  <2> QED BY <2>1, <2>2
<1>7. SoldAlone(next)
  <2>1. ASSUME NEW t \in Live(next.ptt), IsVoucher(next, next.ptt[t].prepaid)
        PROVE  /\ t \in Live(db.ptt) /\ next.ptt[t].prepaid = db.ptt[t].prepaid
               /\ next.ptt[t].root = db.ptt[t].root
               /\ IsVoucher(db, db.ptt[t].prepaid)
    <3>1. t \in Live(db.ptt) /\ next.ptt[t].prepaid = db.ptt[t].prepaid
      BY <1>6 DEF Charged
    <3>2. t \in PttIds /\ db.ptt[t] \in PttRow /\ db.ptt[t].prepaid \in Live(db.prepaid)
      BY <1>3, <3>1, RowTypes DEF RowsRefer
    <3>3. next.ptt[t] = IF d[t] = 0 THEN db.ptt[t]
                        ELSE [db.ptt[t] EXCEPT !.remain = @ - d[t],
                                               !.active = @ /\ db.ptt[t].remain > d[t]]
      BY <1>1, <1>5, <3>2 DEF CheckOutDb
    <3>4. next.ptt[t].root = db.ptt[t].root
      BY <3>2, <3>3 DEF PttRow
    <3>5. next.ptt[t].prepaid \in Live(next.prepaid)
      BY <1>6, <2>1 DEF Kept, PttsRefer
    <3>6. next.prepaid[db.ptt[t].prepaid].type = db.prepaid[db.ptt[t].prepaid].type
      BY <1>6, <3>1, <3>2, <3>5 DEF Kept, SameRows
    <3> QED BY <2>1, <3>1, <3>4, <3>6 DEF IsVoucher
  <2> QED BY <1>3, <2>1, KeepsAlone
<1>8. ASSUME ~overwrote, ~torn
      PROVE  MovesVouchers(db, w, {})
  <2>1. SumsAgree(db) /\ OpenInStep(db)
    BY <1>8, StoredVouchers
  <2> QED BY <1>1, <1>2, <1>3, <2>1, CheckOutMoves
<1> QED BY <1>2, <1>4, <1>7, <1>8, BeginOneVouchers

\* deleting its order opens both,
LEMMA RemoveSaleVoucherStep ==
    ASSUME SInv, SInv', VInv, NEW c \in Requests, NEW s \in SaleIds, RemoveSale(c, s)
    PROVE  VInv'
<1>1. PICK next, w : next = RemoveSaleDb(db, s) /\ w = Write(next, {}, {}, granted)
  OBVIOUS
<1>2. Begin(c, <<w>>) /\ s \in Live(db.sale)
  BY <1>1 DEF RemoveSale
<1>3. db \in Database /\ RowsRefer(db) /\ PaymentsWithinItems(db) /\ Single(db, db)
  BY StoredVouchers
<1>4. w.db = next
  BY <1>1 DEF Write
<1>5. PICK back : back = PutBack(db, s)
  OBVIOUS
<1>6. Restored(db, next, db.sale[s].prepaid, back)
  BY <1>1, <1>2, <1>3, <1>5, RemoveSaleRows
<1>7. SoldAlone(next)
  <2>1. ASSUME NEW t \in Live(next.ptt), IsVoucher(next, next.ptt[t].prepaid)
        PROVE  /\ t \in Live(db.ptt) /\ next.ptt[t].prepaid = db.ptt[t].prepaid
               /\ next.ptt[t].root = db.ptt[t].root
               /\ IsVoucher(db, db.ptt[t].prepaid)
    <3>1. t \in Live(db.ptt) /\ next.ptt[t].prepaid = db.ptt[t].prepaid
      BY <1>6 DEF Restored
    <3>2. t \in PttIds /\ db.ptt[t] \in PttRow /\ db.ptt[t].prepaid \in PrepaidIds
      BY <1>3, <3>1, RowTypes DEF PttRow
    <3>3. next.ptt[t] = IF back[t] = 0 THEN db.ptt[t]
                        ELSE [db.ptt[t] EXCEPT !.remain = @ + back[t], !.active = TRUE]
      BY <1>1, <1>5, <3>2 DEF RemoveSaleDb
    <3>4. next.ptt[t].root = db.ptt[t].root
      BY <3>2, <3>3 DEF PttRow
    <3>5. next.prepaid[db.ptt[t].prepaid].type = db.prepaid[db.ptt[t].prepaid].type
      BY <1>6, <3>2 DEF Restored
    <3> QED BY <2>1, <3>1, <3>4, <3>5 DEF IsVoucher
  <2> QED BY <1>3, <2>1, KeepsAlone
<1>8. MovesVouchers(db, w, {})
  BY <1>1, <1>2, <1>3, RemoveSaleMoves
<1> QED BY <1>2, <1>4, <1>7, <1>8, BeginOneVouchers

\* Two commits, one after the other.
LEMMA TwoWrites ==
    ASSUME NEW v, NEW w, NEW q, q = <<v>> \o <<w>>
    PROVE  Len(q) = 2 /\ DOMAIN q = 1..2 /\ q[1] = v /\ q[2] = w
<1>1. PICK S : S = {v, w}
  OBVIOUS
<1>2. PICK a, b : a = <<v>> /\ b = <<w>>
  OBVIOUS
<1>3. a \in Seq(S) /\ b \in Seq(S) /\ Len(a) = 1 /\ Len(b) = 1 /\ a[1] = v /\ b[1] = w
  BY <1>1, <1>2
<1>4. PICK m, n : m = Len(a) /\ n = Len(b)
  OBVIOUS
<1>5. /\ a \o b \in Seq(S) /\ Len(a \o b) = m + n
      /\ \A i \in 1..m + n : (a \o b)[i] = IF i <= m THEN a[i] ELSE b[i - m]
  BY <1>3, <1>4, ConcatProperties
<1>6. m = 1 /\ n = 1
  BY <1>3, <1>4
<1>7. q \in Seq(S) /\ Len(q) = 2 /\ q[1] = a[1] /\ q[2] = b[1]
  <2>1. PICK d : d = a \o b
    OBVIOUS
  <2>2. d \in Seq(S) /\ Len(d) = 2 /\ d[1] = a[1] /\ d[2] = b[1]
    BY <1>5, <1>6, <2>1
  <2> QED BY <1>2, <2>1, <2>2
<1>8. DOMAIN q = 1..2
  BY <1>7, LenProperties
<1> QED BY <1>3, <1>7, <1>8

\* and the job may leave its voucher half closed, until it closes it.
LEMMA ExpireVoucherStep ==
    ASSUME SInv, SInv', VInv, NEW c \in Requests, NEW t \in PttIds, Expire(c, t)
    PROVE  VInv'
<1>1. PICK retired, closed, v, w :
         /\ retired = [db EXCEPT !.ptt[t].active = FALSE] /\ closed = ExpireDb(db, t)
         /\ v = Write(retired, {}, {}, granted) /\ w = Write(closed, {}, {}, granted)
  OBVIOUS
<1>2. /\ t \in Live(db.ptt) /\ db.ptt[t].active
      /\ Begin(c, <<v>> \o IF closed = retired THEN <<>> ELSE <<w>>)
  BY <1>1 DEF Expire
<1>3. db \in Database /\ RowsRefer(db) /\ Single(db, db)
  BY StoredVouchers
<1>4. /\ Live(retired.ptt) = Live(db.ptt) /\ Live(closed.ptt) = Live(db.ptt)
      /\ \A u \in Live(db.ptt) : /\ retired.ptt[u].prepaid = db.ptt[u].prepaid
                                 /\ retired.ptt[u].root = db.ptt[u].root
                                 /\ closed.ptt[u].prepaid = db.ptt[u].prepaid
                                 /\ closed.ptt[u].root = db.ptt[u].root
      /\ \A q \in PrepaidIds : /\ retired.prepaid[q].type = db.prepaid[q].type
                               /\ closed.prepaid[q].type = db.prepaid[q].type
      /\ closed = retired => MovesVouchers(db, v, {})
      /\ closed # retired =>
            /\ MovesVouchers(db, v, {q \in Live(closed.prepaid) : ~closed.prepaid[q].active})
            /\ MovesVouchers(retired, w, {})
  <2>1. Retires(db, retired, closed, v, w)
    BY <1>1, <1>2, <1>3, RetireMoves
  <2> QED BY <2>1 DEF Retires
<1>5. v.db = retired /\ w.db = closed
  BY <1>1 DEF Write
<1>6. \A u \in Live(db.ptt) : db.ptt[u].prepaid \in PrepaidIds
  BY <1>3, RowTypes DEF PttRow
<1>7. SoldAlone(retired)
  <2>1. \A u \in Live(retired.ptt) : IsVoucher(retired, retired.ptt[u].prepaid) =>
           /\ u \in Live(db.ptt) /\ retired.ptt[u].prepaid = db.ptt[u].prepaid
           /\ retired.ptt[u].root = db.ptt[u].root
           /\ IsVoucher(db, db.ptt[u].prepaid)
    BY <1>4, <1>6 DEF IsVoucher
  <2> QED BY <1>3, <2>1, KeepsAlone
<1>8. SoldAlone(closed)
  <2>1. \A u \in Live(closed.ptt) : IsVoucher(closed, closed.ptt[u].prepaid) =>
           /\ u \in Live(db.ptt) /\ closed.ptt[u].prepaid = db.ptt[u].prepaid
           /\ closed.ptt[u].root = db.ptt[u].root
           /\ IsVoucher(db, db.ptt[u].prepaid)
    BY <1>4, <1>6 DEF IsVoucher
  <2> QED BY <1>3, <2>1, KeepsAlone
<1>9. CASE closed = retired
  <2>1. <<v>> \o <<>> = <<v>>
    BY <1>2
  <2>2. Begin(c, <<v>>)
    BY <1>2, <1>9, <2>1
  <2> QED BY <1>4, <1>5, <1>7, <1>9, <2>2, BeginOneVouchers
<1>10. CASE closed # retired
  <2>1. PICK q : q = <<v>> \o <<w>>
    OBVIOUS
  <2>2. Len(q) = 2 /\ DOMAIN q = 1..2 /\ q[1] = v /\ q[2] = w
    BY <2>1, TwoWrites
  <2>3. Closing(q) = {p \in Live(closed.prepaid) : ~closed.prepaid[p].active}
    BY <1>5, <2>2 DEF Closing
  <2>4. \A i \in DOMAIN q : q[i].db = retired \/ q[i].db = closed
    BY <1>5, <2>2
  <2>5. VoucherPlans(q)
    <3>1. \A i \in DOMAIN q : SoldAlone(q[i].db)
      BY <1>7, <1>8, <2>4
    <3>2. MovesVouchers(db, q[1], Closing(q)) /\ MovesVouchers(q[1].db, q[2], {})
      BY <1>4, <1>5, <1>10, <2>2, <2>3
    <3>3. \A i \in DOMAIN q : Live(q[i].db.ptt) \subseteq Live(db.ptt)
      BY <1>4, <2>4
    <3> QED BY <3>1, <3>2, <3>3 DEF VoucherPlans
  <2>6. Begin(c, q)
    BY <1>2, <1>10, <2>1
  <2> QED BY <2>5, <2>6, BeginVouchers
<1> QED BY <1>9, <1>10

\* What requests find are vouchers in step.
LEMMA InitVouchers ==
    ASSUME Init
    PROVE  VInv
<1>1. /\ db \in Starts /\ held = [c \in Requests |-> EmptyDatabase]
      /\ todo = [c \in Requests |-> <<>>]
  BY DEF Init
<1>2. VouchersSingle(db) /\ VouchersInStep(db)
  BY <1>1, StartsAssumption
<1>3. \A x \in Copies : x = db \/ x = EmptyDatabase
  <2>1. \A c \in Requests : Planned(c) = {} /\ CopiesOf(c) = {EmptyDatabase}
    BY <1>1 DEF Planned, CopiesOf
  <2> QED BY <2>1, CopiesAre
<1>4. Single(db, db)
  BY <1>2 DEF Single, VouchersSingle, IsVoucher, PttsOf
<1>5. \A x : Single(x, EmptyDatabase) /\ Single(EmptyDatabase, x)
  BY EmptyIsSound DEF Single
<1>6. OnePtt
  BY <1>3, <1>4, <1>5 DEF OnePtt
<1>7. MovesInStep /\ OnlyClosed
  BY <1>1 DEF MovesInStep, OnlyClosed
<1>8. StepOrMend
  BY <1>2 DEF StepOrMend, VouchersInStep, IsVoucher, InStep
<1> QED BY <1>6, <1>7, <1>8 DEF VInv

\* Whatever requests overlap, and however they end.
LEMMA NextVouchers ==
    ASSUME SInv, SInv', VInv, [Next]_vars
    PROVE  VInv'
<1>1. ASSUME NEW c \in Requests, NEW p \in PrepaidIds, NEW t \in PttIds, NEW type \in Types,
             NEW v \in Amounts, NEW date \in Days, NEW expiry \in Days,
             AddPrepaid(c, p, t, type, v, date, expiry)
      PROVE  VInv'
  BY <1>1, AddPrepaidVoucherStep
<1>2. ASSUME NEW c \in Requests, NEW p \in PrepaidIds, NEW t \in PttIds, NEW v \in Amounts,
             NEW date \in Days, NEW expiry \in Days, TopUp(c, p, t, v, date, expiry)
      PROVE  VInv'
  BY <1>2, TopUpVoucherStep
<1>3. ASSUME NEW c \in Requests, NEW p \in PrepaidIds, NEW t \in PttIds, NEW v \in Amounts,
             NEW r \in Remains, NEW active \in BOOLEAN, NEW date \in Days, NEW expiry \in Days,
             EditPrepaid(c, p, t, v, r, active, date, expiry)
      PROVE  VInv'
  BY <1>3, EditPrepaidVoucherStep
<1>4. ASSUME NEW c \in Requests, NEW t \in PttIds, NEW v \in Amounts, NEW r \in Remains,
             NEW active \in BOOLEAN, NEW date \in Days, NEW expiry \in Days,
             EditTopUp(c, t, v, r, active, date, expiry)
      PROVE  VInv'
  BY <1>4, EditTopUpVoucherStep
<1>5. ASSUME NEW c \in Requests, NEW p \in PrepaidIds, DeletePrepaid(c, p)
      PROVE  VInv'
  BY <1>5, DeletingPrepaidVouchers DEF DeletePrepaid
<1>6. ASSUME NEW c \in Requests, NEW t \in PttIds, DeleteTopUp(c, t)
      PROVE  VInv'
  BY <1>6, DeletingTopUpVouchers DEF DeleteTopUp
<1>7. ASSUME NEW c \in Requests, NEW p \in PrepaidIds, NEW s \in SaleIds, NEW qty \in Amounts,
             CheckOut(c, p, s, qty)
      PROVE  VInv'
  BY <1>7, CheckOutVoucherStep
<1>8. ASSUME NEW c \in Requests, NEW s \in SaleIds, RemoveSale(c, s)
      PROVE  VInv'
  BY <1>8, RemoveSaleVoucherStep
<1>9. ASSUME NEW c \in Requests, NEW t \in PttIds, RemoveOrder(c, t)
      PROVE  VInv'
  BY <1>9, RemoveOrderVoucherStep
<1>10. ASSUME NEW c \in Requests, NEW t \in PttIds, Expire(c, t)
       PROVE  VInv'
  BY <1>10, ExpireVoucherStep
<1>11. ASSUME NEW c \in Requests, Commit(c) \/ Fail(c)
       PROVE  VInv'
  BY <1>11, CommitVouchers, FailVouchers
<1>12. CASE UNCHANGED vars
  BY <1>12, IdleVouchers
<1>13. CASE Done
  BY <1>12, <1>13 DEF Done
<1> QED BY <1>1, <1>2, <1>3, <1>4, <1>5, <1>6, <1>7, <1>8, <1>9, <1>10, <1>11, <1>12, <1>13
        DEF Next

-----------------------------------------------------------------------------
\* Every session and every commit still to be made knows at most one
\* transaction of a voucher, and moves it only together with the voucher, or
\* closes it with the voucher to follow.
THEOREM VoucherInvariance == Spec => []VInv
<1>1. Init => VInv
  BY InitVouchers
<1>2. SInv /\ SInv' /\ VInv /\ [Next]_vars => VInv'
  BY NextVouchers
<1> QED BY <1>1, <1>2, Invariance, PTL DEF Spec

\* While no commit wrote over a changed row and no job stopped after closing
\* a transaction, a voucher and its transaction part only between the two
\* commits of the job.
THEOREM VoucherStaysInStep == Spec => []VoucherInStepUnlessTorn
<1>1. VInv => VoucherInStepUnlessTorn
  <2> SUFFICES ASSUME VInv, ~overwrote, ~torn, \A c \in Requests : phase[c] # "half"
               PROVE  VouchersInStep(db)
    BY DEF VoucherInStepUnlessTorn
  <2>1. \A t \in Live(db.ptt) : IsVoucher(db, db.ptt[t].prepaid) => InStep(db, t)
    BY DEF VInv, StepOrMend, Mends
  <2> QED BY <2>1 DEF VouchersInStep, IsVoucher, InStep
<1> QED BY <1>1, VoucherInvariance, PTL
-----------------------------------------------------------------------------
(* A request that overlaps with no other takes a step of PrepaidLedger *)

\* The ledger AloneIsLedger names reads the tables as PrepaidTables does,
LEMMA LedgerReads ==
    /\ Ledger!PrepaidIds = PrepaidIds /\ Ledger!PttIds = PttIds /\ Ledger!SaleIds = SaleIds
    /\ Ledger!Days = Days
    /\ \A f : Ledger!Live(f) = Live(f)
    /\ \A f, i : Ledger!IsNextId(f, i) <=> IsNextId(f, i)
    /\ \A x, p : Ledger!PttsOf(x, p) = PttsOf(x, p) /\ Ledger!FirstPtts(x, p) = FirstPtts(x, p)
    /\ \A x, t : Ledger!IsUsedSinceSold(x, t) <=> IsUsedSinceSold(x, t)
    /\ \A x, p : Ledger!IsUsedPrepaid(x, p) <=> IsUsedPrepaid(x, p)
    /\ \A x : Ledger!PaymentsRefer(x) <=> PaymentsRefer(x)
    /\ \A a, n : Ledger!Total(a, n) = Total(a, n)
    /\ \A x, t : Ledger!DrawnOn(x, t) = DrawnOn(x, t)
    /\ \A type, v : Ledger!InitValue(type, v) = InitValue(type, v)
<1>1. Ledger!PrepaidIds = PrepaidIds /\ Ledger!PttIds = PttIds /\ Ledger!SaleIds = SaleIds
      /\ Ledger!Days = Days
  BY DEF Ledger!PrepaidIds, PrepaidIds, Ledger!PttIds, PttIds, Ledger!SaleIds, SaleIds,
         Ledger!Days, Days
<1>2. \A f : Ledger!Live(f) = Live(f)
  BY DEF Ledger!Live, Live
<1>3. \A f, i : Ledger!IsNextId(f, i) <=> IsNextId(f, i)
  BY <1>2 DEF Ledger!IsNextId, IsNextId
<1>4. \A x, p : Ledger!PttsOf(x, p) = PttsOf(x, p)
  BY <1>2 DEF Ledger!PttsOf, PttsOf
<1>5. \A x, p : Ledger!FirstPtts(x, p) = FirstPtts(x, p)
  BY <1>4 DEF Ledger!FirstPtts, FirstPtts
<1>6. /\ \A x, t : Ledger!IsUsedSinceSold(x, t) <=> IsUsedSinceSold(x, t)
      /\ \A x, p : Ledger!IsUsedPrepaid(x, p) <=> IsUsedPrepaid(x, p)
  <2>1. \A x, t, date : Ledger!IsUsed(x, t, date) <=> IsUsed(x, t, date)
    BY <1>2 DEF Ledger!IsUsed, IsUsed
  <2>2. \A x, t : Ledger!IsUsedSinceSold(x, t) <=> IsUsedSinceSold(x, t)
    BY <2>1 DEF Ledger!IsUsedSinceSold, IsUsedSinceSold
  <2>3. \A x, p : Ledger!IsUsedPrepaid(x, p) <=> IsUsedPrepaid(x, p)
    BY <2>1, <1>4, <1>5 DEF Ledger!IsUsedPrepaid, IsUsedPrepaid
  <2> QED BY <2>2, <2>3
<1>7. \A x : Ledger!PaymentsRefer(x) <=> PaymentsRefer(x)
  BY <1>1, <1>2 DEF Ledger!PaymentsRefer, PaymentsRefer
<1>8. \A a, n : Ledger!Total(a, n) = Total(a, n)
  BY DEF Ledger!Total, Total, Ledger!RunningTotal, RunningTotal
<1>9. \A x, t : Ledger!DrawnOn(x, t) = DrawnOn(x, t)
  BY <1>1, <1>2 DEF Ledger!DrawnOn, DrawnOn
<1>10. \A type, v : Ledger!InitValue(type, v) = InitValue(type, v)
  BY DEF Ledger!InitValue, InitValue
<1> QED BY <1>1, <1>2, <1>3, <1>4, <1>5, <1>6, <1>7, <1>8, <1>9, <1>10

\* and writes them as PrepaidTables does.
LEMMA LedgerWrites ==
    /\ \A x, p, t, type, v, date, expiry :
          Ledger!AddPrepaidDb(x, p, t, type, v, date, expiry)
            = AddPrepaidDb(x, p, t, type, v, date, expiry)
    /\ \A x, p, t, v, date, expiry :
          Ledger!TopUpDb(x, p, t, v, date, expiry) = TopUpDb(x, p, t, v, date, expiry)
    /\ \A x, p, t, v, r, active, date, expiry :
          Ledger!EditPrepaidDb(x, p, t, v, r, active, date, expiry)
            = EditPrepaidDb(x, p, t, v, r, active, date, expiry)
    /\ \A x, t, v, r, active, date, expiry :
          Ledger!EditTopUpDb(x, t, v, r, active, date, expiry)
            = EditTopUpDb(x, t, v, r, active, date, expiry)
    /\ \A x, p : Ledger!DeletePrepaidDb(x, p) = DeletePrepaidDb(x, p)
    /\ \A x, t : Ledger!DeleteTopUpDb(x, t) = DeleteTopUpDb(x, t)
    /\ \A x, p, s, day, qty : Ledger!CheckOutDb(x, p, s, day, qty) = CheckOutDb(x, p, s, day, qty)
    /\ \A x, s : Ledger!RemoveSaleDb(x, s) = RemoveSaleDb(x, s)
    /\ \A x, t : Ledger!ExpireDb(x, t) = ExpireDb(x, t)
<1> USE DEF Ledger!Booked, Booked, Ledger!NewPtt, NewPtt, Ledger!EditedPtt, EditedPtt,
            Ledger!VoucherTypes, VoucherTypes, Ledger!CashTypes, CashTypes
<1>1. ASSUME NEW x, NEW p, NEW t, NEW type, NEW v, NEW date, NEW expiry
      PROVE  Ledger!AddPrepaidDb(x, p, t, type, v, date, expiry)
               = AddPrepaidDb(x, p, t, type, v, date, expiry)
  BY LedgerReads DEF Ledger!AddPrepaidDb, AddPrepaidDb
<1>2. ASSUME NEW x, NEW p, NEW t, NEW v, NEW date, NEW expiry
      PROVE  Ledger!TopUpDb(x, p, t, v, date, expiry) = TopUpDb(x, p, t, v, date, expiry)
  BY LedgerReads DEF Ledger!TopUpDb, TopUpDb
<1>3. ASSUME NEW x, NEW p, NEW t, NEW v, NEW r, NEW active, NEW date, NEW expiry
      PROVE  Ledger!EditPrepaidDb(x, p, t, v, r, active, date, expiry)
               = EditPrepaidDb(x, p, t, v, r, active, date, expiry)
  BY LedgerReads DEF Ledger!EditPrepaidDb, EditPrepaidDb
<1>4. ASSUME NEW x, NEW t, NEW v, NEW r, NEW active, NEW date, NEW expiry
      PROVE  Ledger!EditTopUpDb(x, t, v, r, active, date, expiry)
               = EditTopUpDb(x, t, v, r, active, date, expiry)
  BY LedgerReads DEF Ledger!EditTopUpDb, EditTopUpDb
<1>5. ASSUME NEW x, NEW p PROVE Ledger!DeletePrepaidDb(x, p) = DeletePrepaidDb(x, p)
  BY LedgerReads DEF Ledger!DeletePrepaidDb, DeletePrepaidDb
<1>6. ASSUME NEW x, NEW t PROVE Ledger!DeleteTopUpDb(x, t) = DeleteTopUpDb(x, t)
  BY LedgerReads DEF Ledger!DeleteTopUpDb, DeleteTopUpDb
<1>7. ASSUME NEW x, NEW p, NEW s, NEW day, NEW qty
      PROVE  Ledger!CheckOutDb(x, p, s, day, qty) = CheckOutDb(x, p, s, day, qty)
  <2>1. \A t : Ledger!IsUsable(x, p, day, t) <=> IsUsable(x, p, day, t)
    BY LedgerReads DEF Ledger!IsUsable, IsUsable
  <2>2. \A t, u : Ledger!IsAhead(x, t, u) <=> IsAhead(x, t, u)
    BY DEF Ledger!IsAhead, IsAhead
  <2>3. \A t : Ledger!UsableAhead(x, p, day, t) = UsableAhead(x, p, day, t)
    BY <2>1, <2>2, LedgerReads DEF Ledger!UsableAhead, UsableAhead
  <2>4. Ledger!Draws(x, p, day, qty) = Draws(x, p, day, qty)
    BY <2>1, <2>3, LedgerReads DEF Ledger!Draws, Draws
  <2> QED BY <2>4, LedgerReads DEF Ledger!CheckOutDb, CheckOutDb
<1>8. ASSUME NEW x, NEW s PROVE Ledger!RemoveSaleDb(x, s) = RemoveSaleDb(x, s)
  <2>1. Ledger!PutBack(x, s) = PutBack(x, s)
    BY LedgerReads DEF Ledger!PutBack, PutBack
  <2> QED BY <2>1, LedgerReads DEF Ledger!RemoveSaleDb, RemoveSaleDb
<1>9. ASSUME NEW x, NEW t PROVE Ledger!ExpireDb(x, t) = ExpireDb(x, t)
  BY LedgerReads DEF Ledger!ExpireDb, ExpireDb
<1> QED BY <1>1, <1>2, <1>3, <1>4, <1>5, <1>6, <1>7, <1>8, <1>9

-----------------------------------------------------------------------------
(* What a request that finds tables x, of which staff said g, makes of them *)
Adding(x, g, next, h) ==
    \E p \in PrepaidIds, t \in PttIds, type \in Types, v \in Amounts, date \in Days,
       expiry \in Days :
        /\ IsNextId(x.prepaid, p) /\ IsNextId(x.ptt, t) /\ date <= expiry
        /\ next = AddPrepaidDb(x, p, t, type, v, date, expiry)
        /\ h = [g EXCEPT ![t] = InitValue(type, v)]

ToppingUp(x, g, next, h) ==
    \E p \in PrepaidIds, t \in PttIds, v \in Amounts, date \in Days, expiry \in Days :
        /\ p \in Live(x.prepaid) /\ x.prepaid[p].type \notin VoucherTypes
        /\ IsNextId(x.ptt, t) /\ date <= expiry
        /\ next = TopUpDb(x, p, t, v, date, expiry)
        /\ h = [g EXCEPT ![t] = v]

EditingPrepaid(x, g, next, h) ==
    \E p \in PrepaidIds, t \in PttIds, v \in Amounts, r \in Remains, active \in BOOLEAN,
       date \in Days, expiry \in Days :
        /\ p \in Live(x.prepaid) /\ PttsOf(x, p) = {t} /\ date <= expiry
        /\ next = EditPrepaidDb(x, p, t, v, r, active, date, expiry)
        /\ h = [g EXCEPT ![t] = r + Total(DrawnOn(x, t), NSales)]

EditingTopUp(x, g, next, h) ==
    \E t \in PttIds, v \in Amounts, r \in Remains, active \in BOOLEAN, date \in Days,
       expiry \in Days :
        /\ t \in Live(x.ptt) /\ ~x.ptt[t].root /\ date <= expiry
        /\ next = EditTopUpDb(x, t, v, r, active, date, expiry)
        /\ h = [g EXCEPT ![t] = r + Total(DrawnOn(x, t), NSales)]

DeletingPrepaid(x, g, next, h, p) ==
    /\ next = DeletePrepaidDb(x, p)
    /\ h = [t \in PttIds |-> IF t \in PttsOf(x, p) THEN 0 ELSE g[t]]

DeletingTopUp(x, g, next, h, t) ==
    next = DeleteTopUpDb(x, t) /\ h = [g EXCEPT ![t] = 0]

DeletingUnused(x, g, next, h) ==
    \/ \E p \in PrepaidIds :
          /\ p \in Live(x.prepaid) /\ ~IsUsedPrepaid(x, p)
          /\ DeletingPrepaid(x, g, next, h, p)
    \/ \E t \in PttIds :
          /\ t \in Live(x.ptt) /\ ~x.ptt[t].root /\ ~IsUsedSinceSold(x, t)
          /\ DeletingTopUp(x, g, next, h, t)

DeletingOrder(x, g, next, h) ==
    \E t \in PttIds :
        /\ t \in Live(x.ptt) /\ ~IsUsedSinceSold(x, t)
        /\ \/ /\ t \in FirstPtts(x, x.ptt[t].prepaid)
              /\ DeletingPrepaid(x, g, next, h, x.ptt[t].prepaid)
           \/ /\ \E u \in FirstPtts(x, x.ptt[t].prepaid) : u # t
              /\ DeletingTopUp(x, g, next, h, t)

CheckingOut(x, g, next, h) ==
    /\ \E p \in PrepaidIds, s \in SaleIds, qty \in Amounts :
          /\ p \in Live(x.prepaid) /\ IsNextId(x.sale, s)
          /\ next = CheckOutDb(x, p, s, Today, qty)
    /\ h = g

RemovingSale(x, g, next, h) ==
    /\ \E s \in SaleIds : s \in Live(x.sale) /\ next = RemoveSaleDb(x, s)
    /\ h = g

Expiring(x, g, next, h) ==
    /\ \E t \in PttIds :
          /\ t \in Live(x.ptt) /\ x.ptt[t].active /\ x.ptt[t].expiry < Today
          /\ next = ExpireDb(x, t)
    /\ h = g

Does(x, g, next, h) ==
    \/ Adding(x, g, next, h)
    \/ ToppingUp(x, g, next, h)
    \/ EditingPrepaid(x, g, next, h)
    \/ EditingTopUp(x, g, next, h)
    \/ DeletingUnused(x, g, next, h)
    \/ DeletingOrder(x, g, next, h)
    \/ CheckingOut(x, g, next, h)
    \/ RemovingSale(x, g, next, h)
    \/ Expiring(x, g, next, h)

\* Done to what is stored, it is a step of the ledger.
LEMMA DoesIsLedger ==
    ASSUME granted \in [PttIds -> Int], Does(db, granted, db', granted'), PaymentsRefer(db')
    PROVE  Ledger!Next
<1>0. UNCHANGED Today
  OBVIOUS
<1>1. CASE Adding(db, granted, db', granted')
  BY <1>1, LedgerReads, LedgerWrites DEF Adding, Ledger!Next, Ledger!AddPrepaid, Ledger!IsPeriod
<1>2. CASE ToppingUp(db, granted, db', granted')
  BY <1>2, LedgerReads, LedgerWrites DEF ToppingUp, Ledger!Next, Ledger!TopUp, Ledger!IsPeriod,
     Ledger!VoucherTypes, VoucherTypes
<1>3. CASE EditingPrepaid(db, granted, db', granted')
  <2>1. PICK p \in PrepaidIds, t \in PttIds, v \in Amounts, r \in Remains, active \in BOOLEAN,
             date \in Days, expiry \in Days :
                /\ p \in Live(db.prepaid) /\ PttsOf(db, p) = {t} /\ date <= expiry
                /\ db' = EditPrepaidDb(db, p, t, v, r, active, date, expiry)
                /\ granted' = [granted EXCEPT ![t] = r + Total(DrawnOn(db, t), NSales)]
    BY <1>3 DEF EditingPrepaid
  <2>2. Ledger!EditPrepaid(p, t, v, r, active, date, expiry)
    BY <2>1, LedgerReads, LedgerWrites DEF Ledger!EditPrepaid, Ledger!IsPeriod
  <2> QED BY <2>2, LedgerReads DEF Ledger!Next
<1>4. CASE EditingTopUp(db, granted, db', granted')
  BY <1>4, LedgerReads, LedgerWrites DEF EditingTopUp, Ledger!Next, Ledger!EditTopUp,
     Ledger!IsPeriod
<1>5. CASE DeletingUnused(db, granted, db', granted')
  BY <1>5, LedgerReads, LedgerWrites DEF DeletingUnused, DeletingPrepaid, DeletingTopUp,
     Ledger!Next, Ledger!DeletePrepaid, Ledger!DeleteTopUp
<1>6. CASE DeletingOrder(db, granted, db', granted')
  BY <1>6, LedgerReads, LedgerWrites DEF DeletingOrder, DeletingPrepaid, DeletingTopUp,
     Ledger!Next, Ledger!RemoveOrderOfFirst, Ledger!RemoveOrderOfLater
<1>7. CASE CheckingOut(db, granted, db', granted')
  BY <1>7, LedgerReads, LedgerWrites DEF CheckingOut, Ledger!Next, Ledger!CheckOut
<1>8. CASE RemovingSale(db, granted, db', granted')
  BY <1>8, LedgerReads, LedgerWrites DEF RemovingSale, Ledger!Next, Ledger!RemoveSale
<1>9. CASE Expiring(db, granted, db', granted')
  BY <1>9, LedgerReads, LedgerWrites DEF Expiring, Ledger!Next, Ledger!Expire
<1> QED BY <1>1, <1>2, <1>3, <1>4, <1>5, <1>6, <1>7, <1>8, <1>9 DEF Does

-----------------------------------------------------------------------------
\* A commit that does to the rows read what the ledger does, and writes every
\* transaction of which staff now say something else.
PlansStep(x, g, w) ==
    /\ Does(x, g, w.db, w.granted)
    /\ \A t \in PttIds : w.granted[t] # g[t] => RewritesPtt(x, w, t)

\* What a request with one commit to make found staff to have said of a
\* transaction is what is said of it now, unless others wrote its row since.
GInv ==
    \A c \in Requests : phase[c] = "running" /\ Len(todo[c]) = 1 =>
        \E g \in [PttIds -> Int] :
            /\ \A t \in PttIds : <<"ptt", t>> \notin stale[c] => granted[t] = g[t]
            /\ PlansStep(held[c], g, todo[c][1])

\* A fresh id comes after every one stored.
LEMMA FreshIsNext ==
    ASSUME SInv
    PROVE  /\ \A p : IsFresh("prepaid", p) => IsNextId(db.prepaid, p)
           /\ \A t : IsFresh("ptt", t) => IsNextId(db.ptt, t)
           /\ \A s : IsFresh("sale", s) => IsNextId(db.sale, s)
<1>1. ASSUME NEW table, NEW i, IsFresh(table, i), NEW j \in Live(db[table])
      PROVE  j < i
  BY <1>1 DEF IsFresh, IsKnown, Live
<1>2. db["prepaid"] = db.prepaid /\ db["ptt"] = db.ptt /\ db["sale"] = db.sale
  OBVIOUS
<1>3. ASSUME NEW p, IsFresh("prepaid", p) PROVE IsNextId(db.prepaid, p)
  BY <1>1, <1>2, <1>3 DEF IsNextId
<1>4. ASSUME NEW t, IsFresh("ptt", t) PROVE IsNextId(db.ptt, t)
  BY <1>1, <1>2, <1>4 DEF IsNextId
<1>5. ASSUME NEW s, IsFresh("sale", s) PROVE IsNextId(db.sale, s)
  BY <1>1, <1>2, <1>5 DEF IsNextId
<1> QED BY <1>3, <1>4, <1>5

\* A request that has read and computed one commit, or two.
LEMMA BeginPlans ==
    ASSUME SInv, GInv, NEW c \in Requests, NEW writes, Begin(c, writes),
           Len(writes) = 1 => PlansStep(db, granted, writes[1])
    PROVE  GInv'
<1>1. /\ phase' = [phase EXCEPT ![c] = "running"] /\ held' = [held EXCEPT ![c] = db]
      /\ todo' = [todo EXCEPT ![c] = writes]
      /\ db' = db /\ granted' = granted /\ stale' = stale
  BY DEF Begin
<1>2. /\ phase \in [Requests -> {"waiting", "running", "half", "over"}]
      /\ held \in [Requests -> Database] /\ todo \in [Requests -> Seq(Writes)]
      /\ granted \in [PttIds -> Int]
  BY DEF SInv, TypeOK
<1> SUFFICES ASSUME NEW r \in Requests, phase'[r] = "running", Len(todo'[r]) = 1
             PROVE  \E g \in [PttIds -> Int] :
                       /\ \A t \in PttIds : <<"ptt", t>> \notin stale'[r] => granted'[t] = g[t]
                       /\ PlansStep(held'[r], g, todo'[r][1])
  BY DEF GInv
<1>3. CASE r = c
  <2>1. held'[c] = db /\ todo'[c] = writes
    BY <1>1, <1>2
  <2> QED BY <1>1, <1>2, <1>3, <2>1
<1>4. CASE r # c
  <2>1. held'[r] = held[r] /\ todo'[r] = todo[r] /\ phase'[r] = phase[r]
    BY <1>1, <1>2, <1>4
  <2>2. PICK g \in [PttIds -> Int] :
           /\ \A t \in PttIds : <<"ptt", t>> \notin stale[r] => granted[t] = g[t]
           /\ PlansStep(held[r], g, todo[r][1])
    BY <2>1 DEF GInv
  <2> QED BY <1>1, <2>1, <2>2
<1> QED BY <1>3, <1>4

\* A request that has computed one commit, from what it found.
LEMMA BeginOnePlan ==
    ASSUME SInv, GInv, NEW c \in Requests, NEW next, NEW ps, NEW ts, NEW g,
           Begin(c, <<Write(next, ps, ts, g)>>),
           Does(db, granted, next, g),
           \A t \in PttIds : g[t] # granted[t] => t \in ts \/ next.ptt[t] # db.ptt[t]
    PROVE  GInv'
<1>1. PICK w : w = Write(next, ps, ts, g)
  OBVIOUS
<1>2. w.db = next /\ w.granted = g /\ w.ts = ts
  BY <1>1 DEF Write
<1>3. PlansStep(db, granted, w)
  BY <1>2 DEF PlansStep, RewritesPtt
<1>4. Begin(c, <<w>>) /\ <<w>>[1] = w
  BY <1>1
<1> QED BY <1>3, <1>4, BeginPlans

\* A commit leaves what others found as they found it, or makes it stale.
LEMMA CommitPlans ==
    ASSUME SInv, GInv, NEW c \in Requests, Commit(c)
    PROVE  GInv'
<1>1. /\ todo[c] # <<>>
      /\ \/ phase' = [phase EXCEPT ![c] = "over"]
         \/ phase' = [phase EXCEPT ![c] = "half"]
      /\ \E x : held' = [held EXCEPT ![c] = x]
      /\ \E q : todo' = [todo EXCEPT ![c] = q]
      /\ stale' = [r \in Requests |->
            IF phase'[r] \notin {"running", "half"} THEN {}
            ELSE IF r = c THEN stale[c] \ WrittenRows(c)
            ELSE stale[r] \union WrittenRows(c)]
  BY DEF Commit, Over, Forget
<1>2. /\ phase \in [Requests -> {"waiting", "running", "half", "over"}]
      /\ held \in [Requests -> Database] /\ todo \in [Requests -> Seq(Writes)]
      /\ TypeOK
  BY DEF SInv, TypeOK
<1>3. \A t \in PttIds : t \notin WrittenPtts(c) => granted'[t] = granted[t]
  BY <1>1, <1>2, CommitRows
<1>4. \A t \in PttIds : t \in WrittenPtts(c) => <<"ptt", t>> \in WrittenRows(c)
  BY DEF WrittenRows
<1> SUFFICES ASSUME NEW r \in Requests, phase'[r] = "running", Len(todo'[r]) = 1
             PROVE  \E g \in [PttIds -> Int] :
                       /\ \A t \in PttIds : <<"ptt", t>> \notin stale'[r] => granted'[t] = g[t]
                       /\ PlansStep(held'[r], g, todo'[r][1])
  BY DEF GInv
<1>5. r # c /\ phase[r] = "running"
  BY <1>1, <1>2
<1>6. held'[r] = held[r] /\ todo'[r] = todo[r] /\ stale'[r] = stale[r] \union WrittenRows(c)
  BY <1>1, <1>2, <1>5
<1>7. PICK g \in [PttIds -> Int] :
         /\ \A t \in PttIds : <<"ptt", t>> \notin stale[r] => granted[t] = g[t]
         /\ PlansStep(held[r], g, todo[r][1])
  BY <1>5, <1>6 DEF GInv
<1>8. \A t \in PttIds : <<"ptt", t>> \notin stale'[r] => granted'[t] = g[t]
  BY <1>3, <1>4, <1>6, <1>7
<1> QED BY <1>6, <1>7, <1>8

\* A rollback forgets what the request computed and stores nothing of it.
LEMMA FailPlans ==
    ASSUME SInv, GInv, NEW c \in Requests, Fail(c)
    PROVE  GInv'
<1>1. /\ phase' = [phase EXCEPT ![c] = "over"] /\ held' = [held EXCEPT ![c] = EmptyDatabase]
      /\ todo' = [todo EXCEPT ![c] = <<>>] /\ stale' = [stale EXCEPT ![c] = {}]
      /\ granted' = granted
  BY DEF Fail, Over, Forget
<1>2. /\ phase \in [Requests -> {"waiting", "running", "half", "over"}]
      /\ held \in [Requests -> Database] /\ todo \in [Requests -> Seq(Writes)]
      /\ stale \in [Requests -> SUBSET StoredRows]
  BY DEF SInv, TypeOK
<1> SUFFICES ASSUME NEW r \in Requests, phase'[r] = "running", Len(todo'[r]) = 1
             PROVE  \E g \in [PttIds -> Int] :
                       /\ \A t \in PttIds : <<"ptt", t>> \notin stale'[r] => granted'[t] = g[t]
                       /\ PlansStep(held'[r], g, todo'[r][1])
  BY DEF GInv
<1>3. r # c
  BY <1>1, <1>2
<1>4. /\ phase'[r] = phase[r] /\ held'[r] = held[r] /\ todo'[r] = todo[r]
      /\ stale'[r] = stale[r]
  BY <1>1, <1>2, <1>3
<1>5. PICK g \in [PttIds -> Int] :
         /\ \A t \in PttIds : <<"ptt", t>> \notin stale[r] => granted[t] = g[t]
         /\ PlansStep(held[r], g, todo[r][1])
  BY <1>4 DEF GInv
<1> QED BY <1>1, <1>4, <1>5

-----------------------------------------------------------------------------
(* One lemma for each request *)
\* A sale of a prepaid computes a row of each table;
LEMMA AddPrepaidPlans ==
    ASSUME SInv, GInv, NEW c \in Requests, NEW p \in PrepaidIds, NEW t \in PttIds,
           NEW type \in Types, NEW v \in Amounts, NEW date \in Days, NEW expiry \in Days,
           AddPrepaid(c, p, t, type, v, date, expiry)
    PROVE  GInv'
<1>1. PICK next, g : /\ next = AddPrepaidDb(db, p, t, type, v, date, expiry)
                     /\ g = [granted EXCEPT ![t] = InitValue(type, v)]
  OBVIOUS
<1>2. /\ IsFresh("prepaid", p) /\ IsFresh("ptt", t) /\ date <= expiry
      /\ Begin(c, <<Write(next, {}, {}, g)>>)
  BY <1>1 DEF AddPrepaid
<1>3. IsNextId(db.prepaid, p) /\ IsNextId(db.ptt, t)
  BY <1>2, FreshIsNext
<1>4. Does(db, granted, next, g)
  <2>1. Adding(db, granted, next, g)
    BY <1>1, <1>2, <1>3 DEF Adding
  <2> QED BY <2>1 DEF Does
<1>5. next.ptt[t] # db.ptt[t]
  <2>1. t \notin Live(db.ptt) /\ db \in Database
    BY <1>2, StoredFacts
  <2>2. next.ptt[t] = NewPtt(p, TRUE, InitValue(type, v), date, expiry)
    BY <1>1, <2>1 DEF AddPrepaidDb, Database
  <2>3. NewPtt(p, TRUE, InitValue(type, v), date, expiry) \in PttRow
    <3>1. v \in Nat /\ date \in Nat /\ expiry \in Nat
      BY Inputs
    <3>2. InitValue(type, v) \in Int
      BY <3>1 DEF InitValue
    <3> QED BY <3>1, <3>2 DEF NewPtt, PttRow
  <2> QED BY <2>1, <2>2, <2>3, LiveIn, TablesAssumption
<1>6. \A u \in PttIds : g[u] # granted[u] => next.ptt[u] # db.ptt[u]
  BY <1>1, <1>5, StoredFacts
<1> QED BY <1>2, <1>4, <1>6, BeginOnePlan

\* Tables are the same when every row is.
LEMMA SameTables ==
    ASSUME NEW x \in Database, NEW y \in Database,
           \A p \in PrepaidIds : x.prepaid[p] = y.prepaid[p],
           \A t \in PttIds : x.ptt[t] = y.ptt[t],
           \A s \in SaleIds : x.sale[s] = y.sale[s]
    PROVE  x = y
<1>1. x.prepaid = y.prepaid /\ x.ptt = y.ptt /\ x.sale = y.sale
  BY DEF Database
<1>2. /\ x = [prepaid |-> x.prepaid, ptt |-> x.ptt, sale |-> x.sale]
      /\ y = [prepaid |-> y.prepaid, ptt |-> y.ptt, sale |-> y.sale]
  BY DEF Database
<1> QED BY <1>1, <1>2

\* a top-up computes one transaction more,
LEMMA TopUpPlans ==
    ASSUME SInv, GInv, NEW c \in Requests, NEW p \in PrepaidIds, NEW t \in PttIds,
           NEW v \in Amounts, NEW date \in Days, NEW expiry \in Days,
           TopUp(c, p, t, v, date, expiry)
    PROVE  GInv'
<1>1. PICK next, g, carried : /\ next = TopUpDb(db, p, t, v, date, expiry)
                              /\ g = [granted EXCEPT ![t] = v]
                              /\ carried = {u \in PttsOf(db, p) :
                                              db.ptt[u].active /\ db.ptt[u].remain > 0}
  OBVIOUS
<1>2. /\ IsFresh("ptt", t) /\ p \in Live(db.prepaid) /\ date <= expiry
      /\ db.prepaid[p].type \notin VoucherTypes
      /\ Begin(c, <<Write(next, {}, carried, g)>>)
  BY <1>1 DEF TopUp
<1>3. IsNextId(db.ptt, t)
  BY <1>2, FreshIsNext
<1>4. Does(db, granted, next, g)
  <2>1. ToppingUp(db, granted, next, g)
    BY <1>1, <1>2, <1>3 DEF ToppingUp
  <2> QED BY <2>1 DEF Does
<1>5. next.ptt[t] # db.ptt[t]
  <2>1. t \notin Live(db.ptt) /\ db \in Database
    BY <1>2, StoredFacts
  <2>2. next.ptt[t] = NewPtt(p, FALSE, v, date, expiry)
    BY <1>1 DEF TopUpDb
  <2>3. NewPtt(p, FALSE, v, date, expiry) \in PttRow
    BY Inputs DEF NewPtt, PttRow
  <2> QED BY <2>1, <2>2, <2>3, LiveIn, TablesAssumption
<1>6. \A u \in PttIds : g[u] # granted[u] => next.ptt[u] # db.ptt[u]
  BY <1>1, <1>5, StoredFacts
<1> QED BY <1>2, <1>4, <1>6, BeginOnePlan

\* an edit of a prepaid its two rows,
LEMMA EditPrepaidPlans ==
    ASSUME SInv, GInv, NEW c \in Requests, NEW p \in PrepaidIds, NEW t \in PttIds,
           NEW v \in Amounts, NEW r \in Remains, NEW active \in BOOLEAN, NEW date \in Days,
           NEW expiry \in Days, EditPrepaid(c, p, t, v, r, active, date, expiry)
    PROVE  GInv'
<1>1. PICK next, g : /\ next = EditPrepaidDb(db, p, t, v, r, active, date, expiry)
                     /\ g = [granted EXCEPT ![t] = r + Total(DrawnOn(db, t), NSales)]
  OBVIOUS
<1>2. /\ p \in Live(db.prepaid) /\ PttsOf(db, p) = {t} /\ date <= expiry
      /\ Begin(c, <<Write(next, {p}, {t}, g)>>)
  BY <1>1 DEF EditPrepaid
<1>3. Does(db, granted, next, g)
  <2>1. EditingPrepaid(db, granted, next, g)
    BY <1>1, <1>2 DEF EditingPrepaid
  <2> QED BY <2>1 DEF Does
<1>4. \A u \in PttIds : g[u] # granted[u] => u \in {t}
  BY <1>1, StoredFacts
<1> QED BY <1>2, <1>3, <1>4, BeginOnePlan

\* and an edit of a top-up its transaction and the prepaid.
LEMMA EditTopUpPlans ==
    ASSUME SInv, GInv, NEW c \in Requests, NEW t \in PttIds, NEW v \in Amounts,
           NEW r \in Remains, NEW active \in BOOLEAN, NEW date \in Days, NEW expiry \in Days,
           EditTopUp(c, t, v, r, active, date, expiry)
    PROVE  GInv'
<1>1. PICK next, g : /\ next = EditTopUpDb(db, t, v, r, active, date, expiry)
                     /\ g = [granted EXCEPT ![t] = r + Total(DrawnOn(db, t), NSales)]
  OBVIOUS
<1>2. /\ t \in Live(db.ptt) /\ ~db.ptt[t].root /\ date <= expiry
      /\ Begin(c, <<Write(next, {}, {t}, g)>>)
  BY <1>1 DEF EditTopUp
<1>3. Does(db, granted, next, g)
  <2>1. EditingTopUp(db, granted, next, g)
    BY <1>1, <1>2 DEF EditingTopUp
  <2> QED BY <2>1 DEF Does
<1>4. \A u \in PttIds : g[u] # granted[u] => u \in {t}
  BY <1>1, StoredFacts
<1> QED BY <1>2, <1>3, <1>4, BeginOnePlan

\* Deleting a prepaid removes the rows of what it makes staff forget,
LEMMA DeletingPrepaidPlans ==
    ASSUME SInv, GInv, NEW c \in Requests, NEW p, NEW next, NEW g,
           next = DeletePrepaidDb(db, p), g = Forgotten(PttsOf(db, p)),
           Begin(c, <<Write(next, {}, {}, g)>>),
           DeletingPrepaid(db, granted, next, g, p) => Does(db, granted, next, g)
    PROVE  GInv'
<1>1. DeletingPrepaid(db, granted, next, g, p)
  BY DEF DeletingPrepaid, Forgotten
<1>2. ASSUME NEW u \in PttIds, g[u] # granted[u]
      PROVE  next.ptt[u] # db.ptt[u]
  <2>1. u \in PttsOf(db, p)
    BY <1>2 DEF Forgotten
  <2>2. next.ptt[u] = NoRow
    BY <2>1 DEF DeletePrepaidDb
  <2> QED BY <2>1, <2>2 DEF PttsOf, Live
<1> QED BY <1>1, <1>2, BeginOnePlan

\* and deleting a top-up the row of that one.
LEMMA DeletingTopUpPlans ==
    ASSUME SInv, GInv, NEW c \in Requests, NEW t \in PttIds, t \in Live(db.ptt), NEW next, NEW g,
           next = DeleteTopUpDb(db, t), g = Forgotten({t}),
           Begin(c, <<Write(next, {}, {}, g)>>),
           DeletingTopUp(db, granted, next, g, t) => Does(db, granted, next, g)
    PROVE  GInv'
<1>0. db \in Database /\ granted \in [PttIds -> Int]
  BY StoredFacts
<1>1. g = [granted EXCEPT ![t] = 0]
  BY <1>0 DEF Forgotten
<1>2. DeletingTopUp(db, granted, next, g, t)
  BY <1>1 DEF DeletingTopUp
<1>3. next.ptt[t] = NoRow /\ db.ptt[t] # NoRow
  BY <1>0, LiveIn DEF DeleteTopUpDb, Database
<1>4. \A u \in PttIds : g[u] # granted[u] => next.ptt[u] # db.ptt[u]
  BY <1>0, <1>1, <1>3
<1> QED BY <1>2, <1>4, BeginOnePlan

\* The request that deletes a prepaid does so when no row was used,
LEMMA DeletePrepaidPlans ==
    ASSUME SInv, GInv, NEW c \in Requests, NEW p \in PrepaidIds, DeletePrepaid(c, p)
    PROVE  GInv'
<1>1. PICK next, g : next = DeletePrepaidDb(db, p) /\ g = Forgotten(PttsOf(db, p))
  OBVIOUS
<1>2. /\ p \in Live(db.prepaid) /\ ~IsUsedPrepaid(db, p)
      /\ Begin(c, <<Write(next, {}, {}, g)>>)
  BY <1>1 DEF DeletePrepaid
<1>3. DeletingPrepaid(db, granted, next, g, p) => Does(db, granted, next, g)
  BY <1>2 DEF Does, DeletingUnused
<1> QED BY <1>1, <1>2, <1>3, DeletingPrepaidPlans

\* the one that deletes a top-up when that was not used,
LEMMA DeleteTopUpPlans ==
    ASSUME SInv, GInv, NEW c \in Requests, NEW t \in PttIds, DeleteTopUp(c, t)
    PROVE  GInv'
<1>1. PICK next, g : next = DeleteTopUpDb(db, t) /\ g = Forgotten({t})
  OBVIOUS
<1>2. /\ t \in Live(db.ptt) /\ ~db.ptt[t].root /\ ~IsUsedSinceSold(db, t)
      /\ Begin(c, <<Write(next, {}, {}, g)>>)
  BY <1>1 DEF DeleteTopUp
<1>3. DeletingTopUp(db, granted, next, g, t) => Does(db, granted, next, g)
  BY <1>2 DEF Does, DeletingUnused
<1> QED BY <1>1, <1>2, <1>3, DeletingTopUpPlans

\* and removing the order of a top-up deletes it, or what it is the first of.
LEMMA RemoveOrderPlans ==
    ASSUME SInv, GInv, NEW c \in Requests, NEW t \in PttIds, RemoveOrder(c, t)
    PROVE  GInv'
<1>1. PICK p : p = db.ptt[t].prepaid
  OBVIOUS
<1>2. t \in Live(db.ptt) /\ ~IsUsedSinceSold(db, t)
  BY DEF RemoveOrder
<1>3. CASE /\ t \in FirstPtts(db, p)
           /\ Begin(c, <<Write(DeletePrepaidDb(db, p), {}, {}, Forgotten(PttsOf(db, p)))>>)
  <2>1. PICK next, g : next = DeletePrepaidDb(db, p) /\ g = Forgotten(PttsOf(db, p))
    OBVIOUS
  <2>2. DeletingPrepaid(db, granted, next, g, p) => Does(db, granted, next, g)
    BY <1>1, <1>2, <1>3 DEF Does, DeletingOrder
  <2>3. Begin(c, <<Write(next, {}, {}, g)>>)
    BY <1>3, <2>1
  <2> QED BY <2>1, <2>2, <2>3, DeletingPrepaidPlans
<1>4. CASE /\ \E u \in FirstPtts(db, p) : u # t
           /\ Begin(c, <<Write(DeleteTopUpDb(db, t), {}, {}, Forgotten({t}))>>)
  <2>1. PICK next, g : next = DeleteTopUpDb(db, t) /\ g = Forgotten({t})
    OBVIOUS
  <2>2. DeletingTopUp(db, granted, next, g, t) => Does(db, granted, next, g)
    BY <1>1, <1>2, <1>4 DEF Does, DeletingOrder
  <2>3. Begin(c, <<Write(next, {}, {}, g)>>)
    BY <1>4, <2>1
  <2> QED BY <1>2, <2>1, <2>2, <2>3, DeletingTopUpPlans
<1> QED BY <1>1, <1>3, <1>4 DEF RemoveOrder

\* A checkout computes the balances left and the payments of the item,
LEMMA CheckOutPlans ==
    ASSUME SInv, GInv, NEW c \in Requests, NEW p \in PrepaidIds, NEW s \in SaleIds,
           NEW qty \in Amounts, CheckOut(c, p, s, qty)
    PROVE  GInv'
<1>1. PICK next : next = CheckOutDb(db, p, s, Today, qty)
  OBVIOUS
<1>2. p \in Live(db.prepaid) /\ IsFresh("sale", s) /\ Begin(c, <<Write(next, {}, {}, granted)>>)
  BY <1>1 DEF CheckOut
<1>3. IsNextId(db.sale, s)
  BY <1>2, FreshIsNext
<1>4. CheckingOut(db, granted, next, granted)
  BY <1>1, <1>2, <1>3 DEF CheckingOut
<1>5. Does(db, granted, next, granted)
  BY <1>4 DEF Does
<1> QED BY <1>2, <1>5, BeginOnePlan

\* and the removal of the sale gives them back.
LEMMA RemoveSalePlans ==
    ASSUME SInv, GInv, NEW c \in Requests, NEW s \in SaleIds, RemoveSale(c, s)
    PROVE  GInv'
<1>1. PICK next : next = RemoveSaleDb(db, s)
  OBVIOUS
<1>2. s \in Live(db.sale) /\ Begin(c, <<Write(next, {}, {}, granted)>>)
  BY <1>1 DEF RemoveSale
<1>3. RemovingSale(db, granted, next, granted)
  BY <1>1, <1>2 DEF RemovingSale
<1>4. Does(db, granted, next, granted)
  BY <1>3 DEF Does
<1> QED BY <1>2, <1>4, BeginOnePlan

\* The job commits once for what is no open voucher: that is all it has to do.
LEMMA ExpireLedgerPlans ==
    ASSUME SInv, GInv, NEW c \in Requests, NEW t \in PttIds, Expire(c, t)
    PROVE  GInv'
<1>1. PICK retired, closed : /\ retired = [db EXCEPT !.ptt[t].active = FALSE]
                             /\ closed = ExpireDb(db, t)
  OBVIOUS
<1>2. /\ t \in Live(db.ptt) /\ db.ptt[t].active /\ db.ptt[t].expiry < Today
      /\ Begin(c, <<Write(retired, {}, {}, granted)>>
                     \o IF closed = retired THEN <<>> ELSE <<Write(closed, {}, {}, granted)>>)
  BY <1>1 DEF Expire
<1>3. CASE closed = retired
  <2>1. PICK w : w = Write(retired, {}, {}, granted)
    OBVIOUS
  <2>2. <<w>> \o <<>> = <<w>>
    OBVIOUS
  <2>3. Begin(c, <<Write(retired, {}, {}, granted)>>)
    BY <1>2, <1>3, <2>1, <2>2
  <2>4. Expiring(db, granted, retired, granted)
    BY <1>1, <1>2, <1>3 DEF Expiring
  <2>5. Does(db, granted, retired, granted)
    BY <2>4 DEF Does
  <2> QED BY <2>3, <2>5, BeginOnePlan
<1>4. CASE closed # retired
  <2>1. PICK writes : writes = <<Write(retired, {}, {}, granted)>>
                                  \o <<Write(closed, {}, {}, granted)>>
    OBVIOUS
  <2>2. Len(writes) = 2
    BY <2>1, TwoWrites
  <2>3. Begin(c, writes)
    BY <1>2, <1>4, <2>1
  <2> QED BY <2>2, <2>3, BeginPlans
<1> QED BY <1>3, <1>4

\* No request has computed anything at the start,
LEMMA InitPlans == Init => GInv
BY DEF Init, GInv

\* and each step keeps, for every request, what it found and what staff had
\* said of that.
LEMMA NextPlans ==
    ASSUME SInv, GInv, [Next]_vars
    PROVE  GInv'
<1>1. ASSUME NEW c \in Requests, NEW p \in PrepaidIds, NEW t \in PttIds, NEW type \in Types,
             NEW v \in Amounts, NEW date \in Days, NEW expiry \in Days,
             AddPrepaid(c, p, t, type, v, date, expiry)
      PROVE  GInv'
  BY <1>1, AddPrepaidPlans
<1>2. ASSUME NEW c \in Requests, NEW p \in PrepaidIds, NEW t \in PttIds, NEW v \in Amounts,
             NEW date \in Days, NEW expiry \in Days, TopUp(c, p, t, v, date, expiry)
      PROVE  GInv'
  BY <1>2, TopUpPlans
<1>3. ASSUME NEW c \in Requests, NEW p \in PrepaidIds, NEW t \in PttIds, NEW v \in Amounts,
             NEW r \in Remains, NEW active \in BOOLEAN, NEW date \in Days, NEW expiry \in Days,
             EditPrepaid(c, p, t, v, r, active, date, expiry)
      PROVE  GInv'
  BY <1>3, EditPrepaidPlans
<1>4. ASSUME NEW c \in Requests, NEW t \in PttIds, NEW v \in Amounts, NEW r \in Remains,
             NEW active \in BOOLEAN, NEW date \in Days, NEW expiry \in Days,
             EditTopUp(c, t, v, r, active, date, expiry)
      PROVE  GInv'
  BY <1>4, EditTopUpPlans
<1>5. ASSUME NEW c \in Requests, NEW p \in PrepaidIds, DeletePrepaid(c, p)
      PROVE  GInv'
  BY <1>5, DeletePrepaidPlans
<1>6. ASSUME NEW c \in Requests, NEW t \in PttIds, DeleteTopUp(c, t)
      PROVE  GInv'
  BY <1>6, DeleteTopUpPlans
<1>7. ASSUME NEW c \in Requests, NEW p \in PrepaidIds, NEW s \in SaleIds, NEW qty \in Amounts,
             CheckOut(c, p, s, qty)
      PROVE  GInv'
  BY <1>7, CheckOutPlans
<1>8. ASSUME NEW c \in Requests, NEW s \in SaleIds, RemoveSale(c, s)
      PROVE  GInv'
  BY <1>8, RemoveSalePlans
<1>9. ASSUME NEW c \in Requests, NEW t \in PttIds, RemoveOrder(c, t)
      PROVE  GInv'
  BY <1>9, RemoveOrderPlans
<1>10. ASSUME NEW c \in Requests, NEW t \in PttIds, Expire(c, t)
       PROVE  GInv'
  BY <1>10, ExpireLedgerPlans
<1>11. ASSUME NEW c \in Requests, Commit(c) \/ Fail(c)
       PROVE  GInv'
  BY <1>11, CommitPlans, FailPlans
<1>12. CASE UNCHANGED vars
  BY <1>12 DEF vars, GInv
<1>13. CASE Done
  BY <1>12, <1>13 DEF Done
<1> QED BY <1>1, <1>2, <1>3, <1>4, <1>5, <1>6, <1>7, <1>8, <1>9, <1>10, <1>11, <1>12, <1>13
        DEF Next

-----------------------------------------------------------------------------
\* Whatever the requests of other sessions commit in between, what a request
\* will commit next is what the ledger makes of the tables that request found,
\* and what staff had said then is what they say now unless a row went stale.
THEOREM PlanInvariance == Spec => []GInv
<1>1. Init => GInv
  BY InitPlans
<1>2. SInv /\ GInv /\ [Next]_vars => GInv'
  BY NextPlans
<1> QED BY <1>1, <1>2, Invariance, PTL DEF Spec

\* A commit on rows nobody has written since they were read leaves all of what
\* the request computed, and is what the ledger does.
LEMMA AloneCommits ==
    ASSUME SInv, GInv, NEW c \in Requests, phase[c] = "running", Len(todo[c]) = 1,
           held[c] = db, stale[c] = {}, Commit(c)
    PROVE  Ledger!Next
<1>1. PICK w : w = Head(todo[c])
  OBVIOUS
<1>2. TypeOK /\ todo[c] # <<>> /\ ForeignKeys(db') /\ todo[c] \in Seq(Writes)
      /\ granted \in [PttIds -> Int]
  BY DEF SInv, TypeOK, Commit
<1>3. w = todo[c][1]
  BY <1>1, <1>2
<1>4. PICK g \in [PttIds -> Int] :
         /\ \A t \in PttIds : granted[t] = g[t]
         /\ PlansStep(db, g, w)
  BY <1>3 DEF GInv
<1>5. g = granted
  BY <1>2, <1>4
<1>6. Does(db, granted, w.db, w.granted)
      /\ \A t \in PttIds : w.granted[t] # granted[t] => RewritesPtt(db, w, t)
  BY <1>4, <1>5 DEF PlansStep
<1>7. /\ w.db \in Database /\ w.granted \in [PttIds -> Int] /\ db \in Database /\ db' \in Database
      /\ \A p \in PrepaidIds :
            IF p \in WrittenPrepaids(c) THEN db'.prepaid[p] = w.db.prepaid[p]
            ELSE db'.prepaid[p] = db.prepaid[p] /\ w.db.prepaid[p] = db.prepaid[p]
      /\ \A t \in PttIds :
            IF t \in WrittenPtts(c)
            THEN db'.ptt[t] = w.db.ptt[t] /\ granted'[t] = w.granted[t]
            ELSE /\ db'.ptt[t] = db.ptt[t] /\ granted'[t] = granted[t]
                 /\ w.db.ptt[t] = db.ptt[t]
      /\ \A s \in SaleIds :
            IF w.db.sale[s] # db.sale[s] THEN db'.sale[s] = w.db.sale[s]
            ELSE db'.sale[s] = db.sale[s]
      /\ granted' \in [PttIds -> Int]
  BY <1>1, <1>2, CommitRows
<1>8. db' = w.db
  <2>1. /\ \A p \in PrepaidIds : db'.prepaid[p] = w.db.prepaid[p]
        /\ \A t \in PttIds : db'.ptt[t] = w.db.ptt[t]
        /\ \A s \in SaleIds : db'.sale[s] = w.db.sale[s]
    BY <1>7
  <2> QED BY <1>7, <2>1, SameTables
<1>9. granted' = w.granted
  <2>1. \A t \in PttIds : t \in WrittenPtts(c) <=> RewritesPtt(db, w, t)
    BY <1>1 DEF WrittenPtts, RewritesPtt
  <2>2. \A t \in PttIds : granted'[t] = w.granted[t]
    BY <1>6, <1>7, <2>1
  <2> QED BY <1>7, <2>2
<1>10. PaymentsRefer(db')
  BY <1>2 DEF ForeignKeys
<1>11. Does(db, granted, db', granted')
  BY <1>6, <1>8, <1>9
<1> QED BY <1>2, <1>10, <1>11, DoesIsLedger

\* Only a commit changes what is stored.
LEMMA OnlyCommitsWrite ==
    ASSUME [Next]_vars, db' # db
    PROVE  \E r \in Requests : Commit(r)
<1>1. ASSUME NEW r \in Requests, NEW writes, Begin(r, writes) PROVE db' = db
  BY <1>1 DEF Begin
<1>2. ASSUME NEW r \in Requests, Fail(r) PROVE db' = db
  BY <1>2 DEF Fail
<1>3. ASSUME NEW r \in Requests, NEW p \in PrepaidIds, NEW t \in PttIds,
             NEW type \in Types, NEW v \in Amounts, NEW date \in Days,
             NEW expiry \in Days, AddPrepaid(r, p, t, type, v, date, expiry)
      PROVE  db' = db
  BY <1>1, <1>3 DEF AddPrepaid
<1>4. ASSUME NEW r \in Requests, NEW p \in PrepaidIds, NEW t \in PttIds,
             NEW v \in Amounts, NEW date \in Days, NEW expiry \in Days,
             TopUp(r, p, t, v, date, expiry)
      PROVE  db' = db
  BY <1>1, <1>4 DEF TopUp
<1>5. ASSUME NEW r \in Requests, NEW p \in PrepaidIds, NEW t \in PttIds,
             NEW v \in Amounts, NEW rest \in Remains, NEW active \in BOOLEAN,
             NEW date \in Days, NEW expiry \in Days,
             EditPrepaid(r, p, t, v, rest, active, date, expiry)
      PROVE  db' = db
  BY <1>1, <1>5 DEF EditPrepaid
<1>6. ASSUME NEW r \in Requests, NEW t \in PttIds, NEW v \in Amounts,
             NEW rest \in Remains, NEW active \in BOOLEAN, NEW date \in Days,
             NEW expiry \in Days, EditTopUp(r, t, v, rest, active, date, expiry)
      PROVE  db' = db
  BY <1>1, <1>6 DEF EditTopUp
<1>7. ASSUME NEW r \in Requests, NEW p \in PrepaidIds, DeletePrepaid(r, p)
      PROVE  db' = db
  BY <1>1, <1>7 DEF DeletePrepaid
<1>8. ASSUME NEW r \in Requests, NEW t \in PttIds, DeleteTopUp(r, t)
      PROVE  db' = db
  BY <1>1, <1>8 DEF DeleteTopUp
<1>9. ASSUME NEW r \in Requests, NEW p \in PrepaidIds, NEW s \in SaleIds,
             NEW qty \in Amounts, CheckOut(r, p, s, qty)
      PROVE  db' = db
  BY <1>1, <1>9 DEF CheckOut
<1>10. ASSUME NEW r \in Requests, NEW s \in SaleIds, RemoveSale(r, s)
      PROVE  db' = db
  BY <1>1, <1>10 DEF RemoveSale
<1>11. ASSUME NEW r \in Requests, NEW t \in PttIds, RemoveOrder(r, t)
      PROVE  db' = db
  BY <1>1, <1>11 DEF RemoveOrder
<1>12. ASSUME NEW r \in Requests, NEW t \in PttIds, Expire(r, t)
      PROVE  db' = db
  BY <1>1, <1>12 DEF Expire
<1>13. ASSUME Done \/ UNCHANGED vars PROVE db' = db
  BY <1>13 DEF Done, vars
<1> QED BY <1>2, <1>3, <1>4, <1>5, <1>6, <1>7, <1>8, <1>9, <1>10, <1>11, <1>12, <1>13 DEF Next

\* A request that nobody interferes with takes the step the ledger takes: what
\* is true of the ledger's steps is true of requests that do not overlap.
THEOREM AloneIsLedgerHolds == Spec => AloneIsLedger
<1>1. ASSUME SInv, GInv, [Next]_vars, NEW c \in Requests, phase[c] = "running",
             Len(todo[c]) = 1, held[c] = db, stale[c] = {}, phase'[c] = "over", db' # db
      PROVE  Ledger!Next
  <2>1. PICK r \in Requests : Commit(r)
    BY <1>1, OnlyCommitsWrite
  <2>2. r = c
    <3>1. phase \in [Requests -> {"waiting", "running", "half", "over"}]
      BY <1>1 DEF SInv, TypeOK
    <3>2. \E x : phase' = [phase EXCEPT ![r] = x]
      BY <2>1 DEF Commit, Over
    <3> QED BY <1>1, <3>1, <3>2
  <2> QED BY <1>1, <2>1, <2>2, AloneCommits
<1>2. SInv /\ GInv /\ [Next]_vars =>
        [\A c \in Requests :
           /\ phase[c] = "running" /\ Len(todo[c]) = 1
           /\ held[c] = db /\ stale[c] = {}
           /\ phase'[c] = "over" /\ db' # db
           => Ledger!Next]_vars
  BY <1>1
<1> QED BY <1>2, Invariance, PlanInvariance, PTL DEF Spec, AloneIsLedger
=============================================================================
