---------------------------- MODULE BookingProofs ----------------------------
(***************************************************************************)
(* The three properties of Booking, proved for any number of bookings,     *)
(* rooms, therapists and sessions and for every process time.              *)
(*                                                                         *)
(* The invariant has two halves.  What a request is about to write is      *)
(* judged while the tables are still those it read (WritesAreSound): its   *)
(* commit then leaves the tables as the properties want them.  A request   *)
(* that another has overtaken is not judged: the items and bookings it     *)
(* writes are the ones the properties except.  What remains to be shown of *)
(* such a request is that it cannot take the process time of an item it    *)
(* does not write (ShortAreCovered), and that it writes no item made       *)
(* meanwhile by another request under an id it knows (FreshIsUnknown).     *)
(***************************************************************************)
EXTENDS Booking, FiniteSetTheorems, TLAPS

Status == Blocking \union Released

RowType == [book : Books, room : Rooms \union {NoRoom}, therapist : Therapists,
            start : Int, end : Int, dur : Nat \ {0}, status : Status]

\* A row lasts at least as long as its treatment.
IsRow(row) == row \in RowType /\ row.start + row.dur <= row.end

IsTable(table) ==
    /\ DOMAIN table \subseteq ItemIds
    /\ table = [i \in DOMAIN table |-> table[i]]
    /\ \A i \in DOMAIN table : IsRow(table[i])

AreBooks(f) ==
    /\ DOMAIN f \subseteq Books
    /\ f = [b \in DOMAIN f |-> f[b]]
    /\ \A b \in DOMAIN f : f[b] \in Status

IsWrite(w) ==
    /\ IsTable(w.rows) /\ AreBooks(w.books)
    /\ w.drop \subseteq ItemIds
    /\ w.fresh \subseteq DOMAIN w.rows /\ w.checked \subseteq DOMAIN w.rows
    /\ w.seized \subseteq DOMAIN w.rows

Pending == {s \in Sessions : pending[s] # None}

-----------------------------------------------------------------------------
(* The tables once w is committed, when no other request came between. *)

After(w) == Over(w.rows, Restricted(items, DOMAIN items \ w.drop))

UncheckedBy(w) == (unchecked \ (w.checked \union w.drop)) \union w.seized
GrownBy(w)     == (grown \ (w.checked \union w.drop)) \union w.grown
LeftBy(w)      == (left \ (w.checked \union w.drop)) \union w.left

\* The properties of Booking, of any tables.
Apart(table, un, gr) ==
    \A i, j \in Blocks(table) :
        i # j /\ Overlap(table[i], table[j]) =>
            /\ SameRoom(table[i], table[j]) => {i, j} \intersect un # {}
            /\ table[i].therapist = table[j].therapist =>
                   {i, j} \intersect (un \union gr) # {}

Cleaned(table, un, lf) ==
    \A i, j \in Blocks(table) :
        /\ table[i].book # table[j].book /\ SameRoom(table[i], table[j])
        /\ table[i].start <= table[j].start
        /\ {i, j} \intersect un = {} /\ i \notin lf
        => table[i].start + table[i].dur + ProcessTime <= table[j].start

Follows(table, bks, trn) ==
    \A b \in DOMAIN bks \ trn :
        StatusesOf(table, b) \intersect Open = {} => bks[b] \in Finished(table, b)

-----------------------------------------------------------------------------
(* Process time *)

\* An item with the process time of its own,
Full(x) == x.start + x.dur + ProcessTime <= x.end

\* and one that leaves it to the next of its booking in the room.
Covers(x, y) ==
    /\ y.book = x.book /\ SameRoom(x, y) /\ y.status \in Blocking
    /\ y.start = x.end /\ y.start + ProcessTime <= y.end

\* x and y take the same place, whatever their status.
SameSlot(x, y) ==
    /\ x.book = y.book /\ x.room = y.room
    /\ x.start = y.start /\ x.end = y.end /\ x.dur = y.dur

\* Committing w leaves k where it covers i, of row x, or writes i too, or
\* notes that i is left.
Keeps(w, i, k, x) ==
    k \in DOMAIN w.rows \union w.drop =>
        \/ i \in DOMAIN w.rows \union w.drop \union w.left
        \/ k \in DOMAIN w.rows /\ k \notin w.drop /\ Covers(x, w.rows[k])

\* What w writes over item i leaves it in its slot, and covered as before.
StaysCovered(w, i) ==
    /\ i \in Blocks(items) \ (w.checked \union w.drop)
    /\ SameSlot(w.rows[i], items[i])
    /\ \A k \in DOMAIN items : Covers(items[i], items[k]) =>
           k \notin w.drop /\ (k \in DOMAIN w.rows => Covers(items[i], w.rows[k]))

WrittenCovered(w) ==
    \A i \in Blocks(w.rows) \ w.seized :
        \/ Full(w.rows[i])
        \/ \E k \in w.fresh : Covers(w.rows[i], w.rows[k])
        \/ StaysCovered(w, i)

-----------------------------------------------------------------------------
(* The invariant *)

TablesTyped ==
    /\ IsTable(items) /\ AreBooks(books)
    /\ pending = [s \in Sessions |-> pending[s]]
    /\ behind \in [Sessions -> BOOLEAN]
    /\ \A s \in Pending : IsWrite(pending[s])

\* The ids of new items are no row's, and no other request knows them.
FreshIsUnknown ==
    /\ \A s \in Pending : pending[s].fresh \intersect DOMAIN items = {}
    /\ \A s, t \in Pending :
          s # t => pending[s].fresh \intersect
                       (DOMAIN pending[t].rows \union pending[t].drop) = {}

\* An item stays with its booking.
Owns(w) ==
    /\ \A i \in DOMAIN w.rows \intersect DOMAIN items : w.rows[i].book = items[i].book
    /\ \A i \in w.drop \intersect DOMAIN items : items[i].book \in DOMAIN w.books

WritesOwn == \A s \in Pending : \A w \in {pending[s]} : Owns(w)

\* An item without process time of its own is covered, and no request under
\* way takes the cover from it.
ShortAreCovered ==
    \A i \in Blocks(items) \ (unchecked \union left) :
        \/ Full(items[i])
        \/ \E k \in DOMAIN items :
              /\ Covers(items[i], items[k])
              /\ \A s \in Pending : Keeps(pending[s], i, k, items[i])

\* What committing w now would leave.
IsSound(w) ==
    /\ Apart(After(w), UncheckedBy(w), GrownBy(w))
    /\ Cleaned(After(w), UncheckedBy(w), LeftBy(w))
    /\ Follows(After(w), Over(w.books, books), torn \ DOMAIN w.books)
    /\ WrittenCovered(w)

WritesAreSound ==
    \A s \in Pending : \A w \in {pending[s]} : ~behind[s] => IsSound(w)

IInv ==
    /\ TablesTyped /\ FreshIsUnknown /\ WritesOwn
    /\ SlotsKeptApart /\ CleanedBetweenBookings /\ BookFollowsItems
    /\ ShortAreCovered /\ WritesAreSound

-----------------------------------------------------------------------------
(* Tables *)

\* The rows after w is committed: those it writes, and of the others those it
\* does not drop.
LEMMA AfterFacts ==
    ASSUME NEW w
    PROVE  /\ DOMAIN After(w) = DOMAIN w.rows \union (DOMAIN items \ w.drop)
           /\ \A i \in DOMAIN w.rows : After(w)[i] = w.rows[i]
           /\ \A i \in DOMAIN items \ (w.drop \union DOMAIN w.rows) : After(w)[i] = items[i]
           /\ After(w) = [i \in DOMAIN After(w) |-> After(w)[i]]
<1> DEFINE kept == Restricted(items, DOMAIN items \ w.drop)
<1>1. /\ DOMAIN kept = DOMAIN items \ w.drop
      /\ \A i \in DOMAIN items \ w.drop : kept[i] = items[i]
  BY DEF Restricted
<1> HIDE DEF kept
<1>2. After(w) = Over(w.rows, kept)
  BY DEF After, kept
<1>3. /\ DOMAIN Over(w.rows, kept) = DOMAIN w.rows \union DOMAIN kept
      /\ \A x \in DOMAIN w.rows : Over(w.rows, kept)[x] = w.rows[x]
      /\ \A x \in DOMAIN kept \ DOMAIN w.rows : Over(w.rows, kept)[x] = kept[x]
  BY DEF Over
<1>4. Over(w.rows, kept) = [x \in DOMAIN Over(w.rows, kept) |-> Over(w.rows, kept)[x]]
  BY DEF Over
<1> QED BY <1>1, <1>2, <1>3, <1>4

LEMMA RowFacts ==
    ASSUME NEW table, IsTable(table), NEW i \in DOMAIN table
    PROVE  /\ i \in ItemIds /\ i \in Nat /\ table[i] \in RowType
           /\ table[i].start \in Int /\ table[i].end \in Int
           /\ table[i].dur \in Nat \ {0}
           /\ table[i].start + table[i].dur <= table[i].end
           /\ table[i].book \in Books /\ table[i].status \in Status
BY BookingAssumption DEF IsTable, IsRow, RowType, ItemIds

LEMMA AfterIsTable ==
    ASSUME NEW w, IsWrite(w), IsTable(items)
    PROVE  IsTable(After(w))
<1>1. \A i \in DOMAIN After(w) :
         \/ i \in DOMAIN w.rows /\ After(w)[i] = w.rows[i]
         \/ i \in DOMAIN items /\ After(w)[i] = items[i]
  BY AfterFacts
<1>2. \A i \in DOMAIN After(w) : IsRow(After(w)[i])
  BY <1>1 DEF IsWrite, IsTable
<1>3. DOMAIN After(w) \subseteq ItemIds
  BY <1>1 DEF IsWrite, IsTable
<1>4. After(w) = [i \in DOMAIN After(w) |-> After(w)[i]]
  BY AfterFacts
<1> QED BY <1>2, <1>3, <1>4 DEF IsTable

LEMMA ProcessTimeType == ProcessTime \in Nat /\ ProcessTime > 0
BY BookingAssumption

\* An item that starts after another and does not overlap it, nor what covers
\* it, leaves the room its process time.
LEMMA Cleaning ==
    ASSUME NEW x, NEW y, NEW z, IsRow(x), IsRow(z),
           x.start <= z.start, ~Overlap(x, z),
           Full(x) \/ (Covers(x, y) /\ IsRow(y) /\ ~Overlap(y, z))
    PROVE  x.start + x.dur + ProcessTime <= z.start
<1>1. /\ x.start \in Int /\ x.end \in Int /\ x.dur \in Nat \ {0} /\ x.start + x.dur <= x.end
      /\ z.start \in Int /\ z.end \in Int /\ z.dur \in Nat \ {0} /\ z.start + z.dur <= z.end
  BY DEF IsRow, RowType
<1>2. x.end <= z.start
  BY <1>1 DEF Overlap
<1>3. CASE Full(x)
  BY <1>1, <1>2, <1>3, ProcessTimeType DEF Full
<1>4. CASE Covers(x, y) /\ IsRow(y) /\ ~Overlap(y, z)
  <2>1. /\ y.start \in Int /\ y.end \in Int
        /\ y.start = x.end /\ y.start + ProcessTime <= y.end
    BY <1>4 DEF IsRow, RowType, Covers
  <2>2. y.end <= z.start
    BY <1>1, <1>2, <1>4, <2>1 DEF Overlap
  <2> QED BY <1>1, <2>1, <2>2, ProcessTimeType
<1> QED BY <1>3, <1>4

\* Covering depends on the slot of the item covered only.
LEMMA SameSlotCovered ==
    ASSUME NEW x, NEW y, NEW z, SameSlot(x, y)
    PROVE  (Covers(x, z) <=> Covers(y, z)) /\ (Full(x) <=> Full(y))
BY DEF SameSlot, Covers, Full, SameRoom

-----------------------------------------------------------------------------
(* Initial state *)

LEMMA InitEstablishes == Init => IInv
<1> SUFFICES ASSUME Init PROVE IInv
  OBVIOUS
<1>1. DOMAIN items = {} /\ DOMAIN books = {} /\ Pending = {}
  BY DEF Init, Pending
<1>2. Blocks(items) = {}
  BY <1>1 DEF Blocks
<1>3. TablesTyped
  BY <1>1 DEF TablesTyped, Init, IsTable, AreBooks
<1>4. FreshIsUnknown /\ WritesOwn /\ WritesAreSound
  BY <1>1 DEF FreshIsUnknown, WritesOwn, WritesAreSound
<1>5. SlotsKeptApart /\ CleanedBetweenBookings /\ ShortAreCovered
  BY <1>2 DEF SlotsKeptApart, CleanedBetweenBookings, ShortAreCovered
<1>6. BookFollowsItems
  BY <1>1 DEF BookFollowsItems
<1> QED BY <1>3, <1>4, <1>5, <1>6 DEF IInv

-----------------------------------------------------------------------------
(* New items *)

LEMMA RequestFacts ==
    ASSUME NEW rq \in Requests
    PROVE  /\ Len(rq) \in 1..2 /\ DOMAIN rq = 1..Len(rq)
           /\ \A n \in DOMAIN rq : /\ rq[n].room \in Rooms \union {NoRoom}
                                   /\ rq[n].therapist \in Therapists
                                   /\ rq[n].start \in Int /\ rq[n].dur \in Nat \ {0}
<1>1. rq \in Seq(Wanted) /\ Len(rq) \in 1..2
  BY BookingAssumption
<1>2. DOMAIN rq = 1..Len(rq) /\ \A n \in 1..Len(rq) : rq[n] \in Wanted
  BY <1>1
<1> QED BY <1>1, <1>2 DEF Wanted

\* The times of an item that leaves its process time to another end where the
\* other's begin, and the other's are long enough.
LEMMA TimesFacts ==
    ASSUME NEW rq \in Requests, NEW n \in DOMAIN rq
    PROVE  LET times == TimeDealWith(rq)
           IN  /\ times[n].start \in Int /\ times[n].end \in Int
               /\ times[n].start + rq[n].dur <= times[n].end
               /\ \/ times[n].start + rq[n].dur + ProcessTime <= times[n].end
                  \/ \E m \in DOMAIN rq :
                        /\ rq[m].room = rq[n].room
                        /\ times[m].start = times[n].end
                        /\ times[m].start + ProcessTime <= times[m].end
<1> DEFINE times == TimeDealWith(rq)
           end(m) == rq[m].start + rq[m].dur + ProcessTime
           follows(m, k) == /\ rq[m].room = rq[k].room
                            /\ rq[m].room \in SharedRooms \union {NoRoom}
                            /\ end(m) = rq[k].start
           second(k) == \E m \in DOMAIN rq : follows(m, k)
           first(k) == \E m \in DOMAIN rq : follows(k, m)
<1>1. \A k \in DOMAIN rq :
         /\ times[k].start = rq[k].start - (IF second(k) THEN ProcessTime ELSE 0)
         /\ times[k].end = end(k) - (IF first(k) \/ second(k) THEN ProcessTime ELSE 0)
  BY DEF TimeDealWith
<1>2. \A k \in DOMAIN rq : rq[k].start \in Int /\ rq[k].dur \in Nat \ {0} /\ end(k) \in Int
  BY RequestFacts, ProcessTimeType
<1>3. \A k \in DOMAIN rq : end(k) = rq[k].start + rq[k].dur + ProcessTime
  OBVIOUS
<1>4. \A k, m \in DOMAIN rq : follows(k, m) => rq[m].room = rq[k].room /\ end(k) = rq[m].start
  OBVIOUS
<1>5. \A m \in DOMAIN rq, k \in DOMAIN rq : follows(m, k) => second(k) /\ first(m)
  OBVIOUS
<1>6. first(n) => \E m \in DOMAIN rq : follows(n, m)
  OBVIOUS
<1> HIDE DEF times, end, follows, second, first
<1>7. times[n].start \in Int /\ times[n].end \in Int
  BY <1>1, <1>2, ProcessTimeType
<1>8. times[n].start + rq[n].dur <= times[n].end
  BY <1>1, <1>2, <1>3, ProcessTimeType
<1>9. CASE second(n) \/ ~first(n)
  <2>1. times[n].start + rq[n].dur + ProcessTime <= times[n].end
    BY <1>1, <1>2, <1>3, <1>9, ProcessTimeType
  <2> QED BY <1>7, <1>8, <2>1 DEF times
<1>10. CASE first(n) /\ ~second(n)
  <2>1. PICK m \in DOMAIN rq : follows(n, m)
    BY <1>6, <1>10
  <2>2. second(m) /\ rq[m].room = rq[n].room /\ end(n) = rq[m].start
    BY <1>4, <1>5, <2>1
  <2>3. /\ times[m].start = rq[m].start - ProcessTime
        /\ times[m].end = end(m) - ProcessTime
    BY <1>1, <2>2
  <2>4. times[n].end = end(n) - ProcessTime
    BY <1>1, <1>10
  <2>5. times[m].start = times[n].end
    BY <2>2, <2>3, <2>4
  <2>6. times[m].start + ProcessTime <= times[m].end
    BY <1>2, <1>3, <2>3, ProcessTimeType
  <2> QED BY <1>7, <1>8, <2>2, <2>5, <2>6 DEF times
<1> QED BY <1>9, <1>10

LEMMA PairRanks ==
    ASSUME NEW a \in Nat, NEW b \in Nat, a < b
    PROVE  Rank({a, b}, a) = 1 /\ Rank({a, b}, b) = 2
<1>1. {j \in {a, b} : j <= a} = {a} /\ {j \in {a, b} : j <= b} = {a, b}
  OBVIOUS
<1>2. Cardinality({a}) = 1 /\ IsFiniteSet({a})
  BY FS_Singleton
<1>3. Cardinality({a} \union {b}) = 2
  <2>1. b \notin {a}
    OBVIOUS
  <2> QED BY <1>2, <2>1, FS_AddElement
<1>4. {a} \union {b} = {a, b}
  OBVIOUS
<1> QED BY <1>1, <1>2, <1>3, <1>4 DEF Rank

\* The new items of a request, one or two, are numbered in the order of their
\* ids.
LEMMA Ranks ==
    ASSUME NEW ids \in SUBSET ItemIds, Cardinality(ids) \in 1..2
    PROVE  /\ \A i \in ids : Rank(ids, i) \in 1..Cardinality(ids)
           /\ \A m \in 1..Cardinality(ids) : \E k \in ids : Rank(ids, k) = m
<1>1. IsFiniteSet(ids)
  <2>1. IsFiniteSet(ItemIds)
    BY BookingAssumption, FS_Interval DEF ItemIds
  <2> QED BY <2>1, FS_Subset
<1>2. ids # {}
  BY FS_EmptySet
<1>3. PICK a \in ids : TRUE
  BY <1>2
<1>4. IsFiniteSet(ids \ {a}) /\ Cardinality(ids \ {a}) = Cardinality(ids) - 1
  BY <1>1, FS_RemoveElement
<1>5. CASE Cardinality(ids) = 1
  <2>1. ids \ {a} = {}
    BY <1>4, <1>5, FS_EmptySet
  <2>2. ids = {a} /\ {j \in {a} : j <= a} = {a}
    <3>1. ids = {a}
      BY <2>1, <1>3
    <3>2. a \in Int
      BY <1>3, BookingAssumption DEF ItemIds
    <3> QED BY <3>1, <3>2
  <2>3. Rank(ids, a) = 1
    BY <2>2, FS_Singleton DEF Rank
  <2> QED BY <1>5, <2>2, <2>3
<1>6. CASE Cardinality(ids) = 2
  <2>1. Cardinality(ids \ {a}) = 1
    BY <1>4, <1>6
  <2>2. ids \ {a} # {}
    BY <2>1, FS_EmptySet
  <2>3. PICK b \in ids \ {a} : TRUE
    BY <2>2
  <2>4. IsFiniteSet((ids \ {a}) \ {b}) /\ Cardinality((ids \ {a}) \ {b}) = 0
    BY <1>4, <2>1, FS_RemoveElement
  <2>5. ids = {a, b} /\ a # b /\ ids = {b, a}
    BY <2>4, <1>3, <2>3, FS_EmptySet
  <2>6. a \in Nat /\ b \in Nat
    BY <1>3, <2>3, BookingAssumption DEF ItemIds
  <2>7. CASE a < b
    <3>1. Rank(ids, a) = 1 /\ Rank(ids, b) = 2
      BY <2>5, <2>6, <2>7, PairRanks
    <3> QED BY <1>6, <2>5, <3>1
  <2>8. CASE b < a
    <3>1. Rank(ids, b) = 1 /\ Rank(ids, a) = 2
      BY <2>5, <2>6, <2>8, PairRanks
    <3> QED BY <1>6, <2>5, <3>1
  <2> QED BY <2>5, <2>6, <2>7, <2>8
<1> QED BY <1>5, <1>6

\* The row of the n-th item the page asks for.
NewRow(b, rq, times, n) ==
    [book |-> b, room |-> rq[n].room, therapist |-> rq[n].therapist,
     start |-> times[n].start, end |-> times[n].end, dur |-> rq[n].dur,
     status |-> IF rq[n].room = NoRoom THEN "WAITING" ELSE "CONFIRM"]

LEMMA NewRowFields ==
    ASSUME NEW b, NEW rq, NEW times, NEW n
    PROVE  LET row == NewRow(b, rq, times, n)
           IN  /\ row.book = b /\ row.room = rq[n].room /\ row.therapist = rq[n].therapist
               /\ row.start = times[n].start /\ row.end = times[n].end
               /\ row.dur = rq[n].dur
               /\ row.status = IF rq[n].room = NoRoom THEN "WAITING" ELSE "CONFIRM"
BY DEF NewRow

\* New items are rows of the booking; each has a room and is confirmed, or
\* waits; and each with a room has its process time or is covered by the other.
LEMMA NewItemsFacts ==
    ASSUME NEW b \in Books, NEW rq \in Requests, NEW ids \in SUBSET ItemIds,
           Cardinality(ids) = Len(rq)
    PROVE  LET rows == NewItems(b, rq, ids)
           IN  /\ ids # {} /\ IsTable(rows) /\ DOMAIN rows = ids
               /\ \A i \in ids : /\ rows[i].book = b
                                 /\ rows[i].status \in {"WAITING", "CONFIRM"}
                                 /\ rows[i].status = "WAITING" <=> rows[i].room = NoRoom
               /\ \A i \in ids : rows[i].room # NoRoom =>
                     Full(rows[i]) \/ \E k \in ids : Covers(rows[i], rows[k])
<1> DEFINE rows == NewItems(b, rq, ids)
           times == TimeDealWith(rq)
<1>1. /\ Cardinality(ids) \in 1..2 /\ DOMAIN rq = 1..Cardinality(ids)
      /\ \A i \in ids : Rank(ids, i) \in DOMAIN rq
      /\ \A m \in DOMAIN rq : \E k \in ids : Rank(ids, k) = m
  BY RequestFacts, Ranks
<1>2. ids # {}
  BY <1>1, FS_EmptySet
<1>3. DOMAIN rows = ids /\ rows = [i \in DOMAIN rows |-> rows[i]]
  BY DEF NewItems
<1>4. \A i \in ids : rows[i] = NewRow(b, rq, times, Rank(ids, i))
  BY DEF NewItems, NewRow
<1> HIDE DEF rows, times
<1>5. ASSUME NEW i \in ids
      PROVE  /\ IsRow(rows[i]) /\ rows[i].book = b
             /\ rows[i].status \in {"WAITING", "CONFIRM"}
             /\ rows[i].status = "WAITING" <=> rows[i].room = NoRoom
             /\ rows[i].room # NoRoom =>
                   Full(rows[i]) \/ \E k \in ids : Covers(rows[i], rows[k])
  <2> DEFINE n == Rank(ids, i)
  <2>1. n \in DOMAIN rq
    BY <1>1
  <2>2. /\ rows[i].book = b /\ rows[i].room = rq[n].room
        /\ rows[i].therapist = rq[n].therapist
        /\ rows[i].start = times[n].start /\ rows[i].end = times[n].end
        /\ rows[i].dur = rq[n].dur
        /\ rows[i].status = IF rq[n].room = NoRoom THEN "WAITING" ELSE "CONFIRM"
    BY <1>4, NewRowFields
  <2>3. /\ rq[n].room \in Rooms \union {NoRoom} /\ rq[n].therapist \in Therapists
        /\ rq[n].dur \in Nat \ {0}
    BY <2>1, RequestFacts
  <2>4. /\ times[n].start \in Int /\ times[n].end \in Int
        /\ times[n].start + rq[n].dur <= times[n].end
        /\ \/ times[n].start + rq[n].dur + ProcessTime <= times[n].end
           \/ \E m \in DOMAIN rq :
                 /\ rq[m].room = rq[n].room
                 /\ times[m].start = times[n].end
                 /\ times[m].start + ProcessTime <= times[m].end
    BY <2>1, TimesFacts DEF times
  <2>5. rows[i] \in RowType
    <3>1. {"WAITING", "CONFIRM"} \subseteq Status
      BY DEF Status, Blocking, Released
    <3>2. (IF rq[n].room = NoRoom THEN "WAITING" ELSE "CONFIRM") \in Status
      BY <3>1
    <3>3. rows[i] = NewRow(b, rq, times, n)
      BY <1>4
    <3> HIDE DEF n
    <3> QED BY <2>3, <2>4, <3>2, <3>3 DEF RowType, NewRow
  <2>6. /\ rows[i].status \in {"WAITING", "CONFIRM"}
        /\ rows[i].status = "WAITING" <=> rows[i].room = NoRoom
    BY <2>2
  <2>7. ASSUME rows[i].room # NoRoom, NEW m \in DOMAIN rq,
               rq[m].room = rq[n].room, times[m].start = times[n].end,
               times[m].start + ProcessTime <= times[m].end
        PROVE  \E k \in ids : Covers(rows[i], rows[k])
    <3>1. PICK k \in ids : Rank(ids, k) = m
      BY <1>1, <2>7
    <3>2. /\ rows[k].book = b /\ rows[k].room = rq[m].room
          /\ rows[k].start = times[m].start /\ rows[k].end = times[m].end
          /\ rows[k].status = IF rq[m].room = NoRoom THEN "WAITING" ELSE "CONFIRM"
      <4>1. rows[k] = NewRow(b, rq, times, m)
        BY <1>4, <3>1
      <4> QED BY <4>1, NewRowFields
    <3>3. rows[k].status = "CONFIRM"
      BY <2>2, <2>7, <3>2
    <3>4. Covers(rows[i], rows[k])
      BY <2>2, <2>7, <3>2, <3>3 DEF Covers, SameRoom, Blocking
    <3> QED BY <3>4
  <2>8. rows[i].start + rows[i].dur + ProcessTime <= rows[i].end => Full(rows[i])
    BY DEF Full
  <2> HIDE DEF n
  <2>9. rows[i].room # NoRoom => Full(rows[i]) \/ \E k \in ids : Covers(rows[i], rows[k])
    BY <2>2, <2>4, <2>7, <2>8
  <2>10. IsRow(rows[i])
    BY <2>2, <2>4, <2>5 DEF IsRow
  <2> QED BY <2>2, <2>6, <2>9, <2>10
<1>6. IsTable(rows)
  BY <1>3, <1>5 DEF IsTable
<1> QED BY <1>2, <1>3, <1>5, <1>6 DEF rows

-----------------------------------------------------------------------------
(* What a request would leave *)

\* Adding, editing and moving look at the slots of the items they write.
LooksFirst(w) ==
    /\ w.checked = DOMAIN w.rows /\ w.seized = {}
    /\ \A i \in Blocks(w.rows) :
          \A j \in Blocks(After(w)) \ {i} : ~Clash(After(w)[j], w.rows[i])

\* An item that is written over leaves the items it covers, or their time is
\* noted.
KeepsCovers(w) ==
    \A i \in Blocks(items) \ (unchecked \union left), k \in DOMAIN items :
        Covers(items[i], items[k]) => Keeps(w, i, k, items[i])

\* Row k is released and held what i is moved out by.
HandsOver(w, i, k) ==
    /\ k \in Blocks(items) \ unchecked /\ k \notin Blocks(After(w))
    /\ SameRoom(items[i], items[k]) /\ items[k].start = items[i].end
    /\ w.rows[i].end <= items[k].end

\* Setting a status and cancelling leave the items where they are.
StaysPut(w) ==
    /\ w.checked = {} /\ w.drop = {} /\ DOMAIN w.rows \subseteq DOMAIN items
    /\ \A i \in DOMAIN w.rows :
          /\ w.rows[i].book = items[i].book /\ w.rows[i].room = items[i].room
          /\ w.rows[i].therapist = items[i].therapist
          /\ w.rows[i].start = items[i].start /\ w.rows[i].dur = items[i].dur
    /\ \A i \in Blocks(w.rows) \ w.seized :
          /\ i \in Blocks(items)
          /\ \/ w.rows[i].end = items[i].end
             \/ i \in w.grown /\ \E k \in DOMAIN items : HandsOver(w, i, k)

LEMMA OverlapSymmetric ==
    ASSUME NEW x, NEW y
    PROVE  /\ Overlap(x, y) <=> Overlap(y, x)
           /\ SameRoom(x, y) <=> SameRoom(y, x)
           /\ Clash(x, y) <=> Clash(y, x)
BY DEF Overlap, SameRoom, Clash

\* An item is one that w writes, or one that stays as it is.
LEMMA AfterSplit ==
    ASSUME NEW w, NEW i \in Blocks(After(w))
    PROVE  \/ i \in Blocks(w.rows) /\ After(w)[i] = w.rows[i]
           \/ /\ i \in Blocks(items) /\ After(w)[i] = items[i]
              /\ i \notin DOMAIN w.rows /\ i \notin w.drop
<1>1. i \in DOMAIN After(w) /\ After(w)[i].status \in Blocking
  BY DEF Blocks
<1>2. CASE i \in DOMAIN w.rows
  <2>1. After(w)[i] = w.rows[i]
    BY <1>2, AfterFacts
  <2> QED BY <1>1, <1>2, <2>1 DEF Blocks
<1>3. CASE i \notin DOMAIN w.rows
  <2>1. i \in DOMAIN items /\ i \notin w.drop
    BY <1>1, <1>3, AfterFacts
  <2>2. After(w)[i] = items[i]
    BY <1>3, <2>1, AfterFacts
  <2> QED BY <1>1, <1>3, <2>1, <2>2 DEF Blocks
<1> QED BY <1>2, <1>3

LEMMA LooksFirstApart ==
    ASSUME NEW w, LooksFirst(w), SlotsKeptApart
    PROVE  Apart(After(w), UncheckedBy(w), GrownBy(w))
<1> DEFINE A == After(w)
<1> SUFFICES ASSUME NEW i \in Blocks(A), NEW j \in Blocks(A), i # j, Overlap(A[i], A[j])
             PROVE  /\ SameRoom(A[i], A[j]) => {i, j} \intersect UncheckedBy(w) # {}
                    /\ A[i].therapist = A[j].therapist =>
                           {i, j} \intersect (UncheckedBy(w) \union GrownBy(w)) # {}
  BY DEF Apart
<1> HIDE DEF A
<1>1. CASE i \in Blocks(w.rows) /\ A[i] = w.rows[i]
  <2>1. ~Clash(A[j], A[i])
    BY <1>1 DEF LooksFirst, A
  <2> QED BY <2>1, OverlapSymmetric DEF Clash
<1>2. CASE j \in Blocks(w.rows) /\ A[j] = w.rows[j]
  <2>1. ~Clash(A[i], A[j])
    BY <1>2 DEF LooksFirst, A
  <2> QED BY <2>1 DEF Clash
<1>3. CASE /\ i \in Blocks(items) /\ A[i] = items[i]
           /\ i \notin DOMAIN w.rows /\ i \notin w.drop
           /\ j \in Blocks(items) /\ A[j] = items[j]
           /\ j \notin DOMAIN w.rows /\ j \notin w.drop
  <2>1. /\ SameRoom(A[i], A[j]) => {i, j} \intersect unchecked # {}
        /\ A[i].therapist = A[j].therapist =>
               {i, j} \intersect (unchecked \union grown) # {}
    BY <1>3 DEF SlotsKeptApart
  <2>2. \A n \in {i, j} : /\ n \in unchecked => n \in UncheckedBy(w)
                          /\ n \in grown => n \in GrownBy(w)
    BY <1>3 DEF LooksFirst, UncheckedBy, GrownBy
  <2> QED BY <2>1, <2>2
<1> QED BY <1>1, <1>2, <1>3, AfterSplit DEF A

LEMMA LooksFirstCleaned ==
    ASSUME NEW w, LooksFirst(w), IsWrite(w), IsTable(items),
           CleanedBetweenBookings, ShortAreCovered, KeepsCovers(w),
           \A i \in Blocks(w.rows) :
               Full(w.rows[i]) \/ \E k \in DOMAIN w.rows : Covers(w.rows[i], w.rows[k])
    PROVE  Cleaned(After(w), UncheckedBy(w), LeftBy(w))
<1> DEFINE A == After(w)
<1> SUFFICES ASSUME NEW i \in Blocks(A), NEW j \in Blocks(A),
                    A[i].book # A[j].book, SameRoom(A[i], A[j]), A[i].start <= A[j].start,
                    {i, j} \intersect UncheckedBy(w) = {}, i \notin LeftBy(w)
             PROVE  A[i].start + A[i].dur + ProcessTime <= A[j].start
  BY DEF Cleaned
<1> HIDE DEF A
<1>1. /\ IsTable(A) /\ i \in DOMAIN A /\ j \in DOMAIN A
      /\ IsRow(A[i]) /\ IsRow(A[j]) /\ i # j
  BY AfterIsTable DEF A, IsTable, Blocks
<1>2. \A k \in DOMAIN A : Covers(A[i], A[k]) =>
         /\ k \in Blocks(A) /\ k # j /\ IsRow(A[k]) /\ SameRoom(A[k], A[j])
  BY <1>1 DEF Covers, Blocks, IsTable, SameRoom
<1>3. CASE i \in Blocks(w.rows) /\ A[i] = w.rows[i]
  <2>1. ~Overlap(A[i], A[j])
    <3>1. ~Clash(A[j], A[i])
      BY <1>1, <1>3 DEF LooksFirst, A
    <3> QED BY <3>1, OverlapSymmetric DEF Clash
  <2>2. CASE Full(A[i])
    BY <1>1, <2>1, <2>2, Cleaning
  <2>3. CASE \E k \in DOMAIN w.rows : Covers(A[i], w.rows[k])
    <3>1. PICK k \in DOMAIN w.rows : Covers(A[i], w.rows[k])
      BY <2>3
    <3>2. A[k] = w.rows[k] /\ k \in DOMAIN A
      BY AfterFacts DEF A
    <3>3. /\ Covers(A[i], A[k]) /\ k \in Blocks(A) /\ k # j
          /\ IsRow(A[k]) /\ SameRoom(A[k], A[j])
      BY <1>2, <3>1, <3>2
    <3>4. k \in Blocks(w.rows)
      BY <3>2, <3>3 DEF Blocks
    <3>5. ~Overlap(A[k], A[j])
      <4>1. ~Clash(A[j], A[k])
        BY <3>2, <3>3, <3>4 DEF LooksFirst, A
      <4> QED BY <3>3, <4>1, OverlapSymmetric DEF Clash
    <3> QED BY <1>1, <2>1, <3>3, <3>5, Cleaning
  <2> QED BY <1>3, <2>2, <2>3
<1>4. CASE /\ i \in Blocks(items) /\ A[i] = items[i]
           /\ i \notin DOMAIN w.rows /\ i \notin w.drop
  <2>1. /\ i \notin unchecked /\ i \notin left /\ i \notin w.left
    BY <1>4 DEF LooksFirst, UncheckedBy, LeftBy
  <2>2. CASE j \in Blocks(w.rows) /\ A[j] = w.rows[j]
    <3>1. ~Overlap(A[i], A[j])
      <4>1. ~Clash(A[i], A[j])
        BY <1>1, <2>2 DEF LooksFirst, A
      <4> QED BY <4>1 DEF Clash
    <3>2. CASE Full(A[i])
      BY <1>1, <3>1, <3>2, Cleaning
    <3>3. CASE \E k \in DOMAIN items : Covers(items[i], items[k])
      <4>1. PICK k \in DOMAIN items : Covers(items[i], items[k])
        BY <3>3
      <4>2. Keeps(w, i, k, items[i])
        BY <1>4, <2>1, <4>1 DEF KeepsCovers
      <4>3. k \in DOMAIN A /\ Covers(A[i], A[k])
        <5>1. CASE k \in DOMAIN w.rows
          BY <1>4, <2>1, <4>2, <5>1, AfterFacts DEF Keeps, A
        <5>2. CASE k \notin DOMAIN w.rows
          <6>1. k \notin w.drop
            BY <1>4, <2>1, <4>2, <5>2 DEF Keeps
          <6> QED BY <1>4, <4>1, <5>2, <6>1, AfterFacts DEF A
        <5> QED BY <5>1, <5>2
      <4>4. /\ k \in Blocks(A) /\ k # j /\ IsRow(A[k]) /\ SameRoom(A[k], A[j])
        BY <1>2, <4>3
      <4>5. ~Overlap(A[k], A[j])
        <5>1. ~Clash(A[k], A[j])
          BY <2>2, <4>4 DEF LooksFirst, A
        <5> QED BY <4>4, <5>1 DEF Clash
      <4> QED BY <1>1, <3>1, <4>3, <4>4, <4>5, Cleaning
    <3> QED BY <1>4, <2>1, <3>2, <3>3 DEF ShortAreCovered
  <2>3. CASE /\ j \in Blocks(items) /\ A[j] = items[j]
             /\ j \notin DOMAIN w.rows /\ j \notin w.drop
    <3>1. j \notin unchecked
      BY <2>3 DEF LooksFirst, UncheckedBy
    <3> QED BY <1>4, <2>1, <2>3, <3>1 DEF CleanedBetweenBookings
  <2> QED BY <2>2, <2>3, AfterSplit DEF A
<1> QED BY <1>3, <1>4, AfterSplit DEF A

\* What w leaves of an item that stays put.
LEMMA StaysPutRow ==
    ASSUME NEW w, StaysPut(w), NEW i \in Blocks(After(w)), i \notin w.seized
    PROVE  LET row == After(w)[i]
           IN  /\ i \in Blocks(items)
               /\ row.book = items[i].book /\ row.room = items[i].room
               /\ row.therapist = items[i].therapist
               /\ row.start = items[i].start /\ row.dur = items[i].dur
               /\ \/ row.end = items[i].end
                  \/ /\ i \in w.grown /\ row.end = w.rows[i].end
                     /\ \E k \in DOMAIN items : HandsOver(w, i, k)
<1>1. CASE i \in Blocks(w.rows) /\ After(w)[i] = w.rows[i]
  <2>1. i \in DOMAIN w.rows /\ i \in Blocks(w.rows) \ w.seized
    BY <1>1 DEF Blocks
  <2> QED BY <1>1, <2>1 DEF StaysPut
<1>2. CASE i \in Blocks(items) /\ After(w)[i] = items[i]
  BY <1>2
<1> QED BY <1>1, <1>2, AfterSplit

LEMMA StaysPutCleaned ==
    ASSUME NEW w, StaysPut(w), CleanedBetweenBookings
    PROVE  Cleaned(After(w), UncheckedBy(w), LeftBy(w))
<1> DEFINE A == After(w)
<1> SUFFICES ASSUME NEW i \in Blocks(A), NEW j \in Blocks(A),
                    A[i].book # A[j].book, SameRoom(A[i], A[j]), A[i].start <= A[j].start,
                    {i, j} \intersect UncheckedBy(w) = {}, i \notin LeftBy(w)
             PROVE  A[i].start + A[i].dur + ProcessTime <= A[j].start
  BY DEF Cleaned
<1> HIDE DEF A
<1>1. /\ i \notin unchecked /\ j \notin unchecked /\ i \notin left
      /\ i \notin w.seized /\ j \notin w.seized
  BY DEF StaysPut, UncheckedBy, LeftBy
<1>2. /\ i \in Blocks(items) /\ j \in Blocks(items)
      /\ A[i].book = items[i].book /\ A[i].room = items[i].room
      /\ A[i].start = items[i].start /\ A[i].dur = items[i].dur
      /\ A[j].book = items[j].book /\ A[j].room = items[j].room
      /\ A[j].start = items[j].start
  BY <1>1, StaysPutRow DEF A
<1>3. /\ items[i].book # items[j].book /\ SameRoom(items[i], items[j])
      /\ items[i].start <= items[j].start
  BY <1>2 DEF SameRoom
<1>4. items[i].start + items[i].dur + ProcessTime <= items[j].start
  BY <1>1, <1>2, <1>3 DEF CleanedBetweenBookings
<1> QED BY <1>2, <1>4

\* Of two intervals apart, one moved out into a third that is apart from the
\* other,
LEMMA OneMovedOut ==
    ASSUME NEW s1 \in Int, NEW e1 \in Int, NEW f1 \in Int, NEW c1 \in Int,
           NEW s2 \in Int, NEW e2 \in Int,
           s2 < e2, f1 <= c1, ~(s1 < e2 /\ s2 < e1), ~(e1 < e2 /\ s2 < c1)
    PROVE  ~(s1 < e2 /\ s2 < f1)
OBVIOUS

\* and each moved out into a third and a fourth apart from all.
LEMMA BothMovedOut ==
    ASSUME NEW s1 \in Int, NEW e1 \in Int, NEW f1 \in Int, NEW c1 \in Int,
           NEW s2 \in Int, NEW e2 \in Int, NEW f2 \in Int, NEW c2 \in Int,
           s1 < e1, s2 < e2, e1 < c1, e2 < c2, f1 <= c1, f2 <= c2,
           ~(s1 < e2 /\ s2 < e1), ~(e1 < e2 /\ s2 < c1),
           ~(e2 < e1 /\ s1 < c2), ~(e1 < c2 /\ e2 < c1)
    PROVE  ~(s1 < f2 /\ s2 < f1)
OBVIOUS

\* Two items that stay put are kept apart in their room: what the one before a
\* released item is moved out by is time that item held.
LEMMA StaysPutApart ==
    ASSUME NEW w, StaysPut(w), IsWrite(w), IsTable(items), SlotsKeptApart
    PROVE  Apart(After(w), UncheckedBy(w), GrownBy(w))
<1> DEFINE A == After(w)
<1> SUFFICES ASSUME NEW i \in Blocks(A), NEW j \in Blocks(A), i # j, Overlap(A[i], A[j])
             PROVE  /\ SameRoom(A[i], A[j]) => {i, j} \intersect UncheckedBy(w) # {}
                    /\ A[i].therapist = A[j].therapist =>
                           {i, j} \intersect (UncheckedBy(w) \union GrownBy(w)) # {}
  BY DEF Apart
<1> HIDE DEF A
<1>1. CASE {i, j} \intersect (unchecked \union w.seized) # {}
  BY <1>1 DEF StaysPut, UncheckedBy
<1>2. CASE {i, j} \intersect (unchecked \union w.seized) = {}
  <2>1. /\ i \in Blocks(items) \ unchecked /\ j \in Blocks(items) \ unchecked
        /\ i \notin w.seized /\ j \notin w.seized
    BY <1>2, StaysPutRow DEF A
  <2>2. /\ A[i].room = items[i].room /\ A[i].start = items[i].start
        /\ A[i].therapist = items[i].therapist
        /\ A[j].room = items[j].room /\ A[j].start = items[j].start
        /\ A[j].therapist = items[j].therapist
    BY <2>1, StaysPutRow DEF A
  <2>3. /\ A[i].end = items[i].end \/ (/\ i \in w.grown /\ A[i].end = w.rows[i].end
                                       /\ \E k \in DOMAIN items : HandsOver(w, i, k))
        /\ A[j].end = items[j].end \/ (/\ j \in w.grown /\ A[j].end = w.rows[j].end
                                       /\ \E k \in DOMAIN items : HandsOver(w, j, k))
    BY <2>1, StaysPutRow DEF A
  <2>4. \A a, b \in Blocks(items) \ unchecked :
           a # b /\ SameRoom(items[a], items[b]) => ~Overlap(items[a], items[b])
    BY DEF SlotsKeptApart
  <2>5. \A a \in Blocks(items) :
           /\ items[a].start \in Int /\ items[a].end \in Int /\ items[a].start < items[a].end
    <3> SUFFICES ASSUME NEW a \in Blocks(items)
                 PROVE  /\ items[a].start \in Int /\ items[a].end \in Int
                        /\ items[a].start < items[a].end
      OBVIOUS
    <3>1. /\ items[a].start \in Int /\ items[a].end \in Int /\ items[a].dur \in Nat \ {0}
          /\ items[a].start + items[a].dur <= items[a].end
      BY RowFacts DEF Blocks
    <3> QED BY <3>1
  <2>6. A[i].start < A[j].end /\ A[j].start < A[i].end
    BY DEF Overlap
  <2>7. A[i].end \in Int /\ A[j].end \in Int
    BY AfterIsTable, RowFacts DEF A, Blocks
  <2>8. ASSUME SameRoom(A[i], A[j])
        PROVE  FALSE
    <3>1. SameRoom(items[i], items[j])
      BY <2>2, <2>8 DEF SameRoom
    <3>2. ~Overlap(items[i], items[j])
      BY <2>1, <2>4, <3>1
    <3>3. \A k \in DOMAIN items, a \in {i, j} : HandsOver(w, a, k) =>
             /\ k \in Blocks(items) \ unchecked /\ k # i /\ k # j
             /\ SameRoom(items[k], items[i]) /\ SameRoom(items[k], items[j])
             /\ items[k].start = items[a].end /\ w.rows[a].end <= items[k].end
      BY <3>1 DEF HandsOver, SameRoom, A
    <3>4. \A k \in DOMAIN items, a \in {i, j} : HandsOver(w, a, k) =>
             /\ ~Overlap(items[k], items[i]) /\ ~Overlap(items[k], items[j])
      BY <2>1, <2>4, <3>3
    <3>5. CASE A[i].end = items[i].end /\ A[j].end = items[j].end
      BY <2>2, <2>6, <3>2, <3>5 DEF Overlap
    <3>6. ASSUME NEW k \in DOMAIN items, HandsOver(w, i, k), A[i].end = w.rows[i].end,
                 A[j].end = items[j].end
          PROVE  FALSE
      <4>1. /\ k \in Blocks(items) /\ items[k].start = items[i].end
            /\ A[i].end <= items[k].end
            /\ ~Overlap(items[k], items[i]) /\ ~Overlap(items[k], items[j])
        BY <3>3, <3>4, <3>6
      <4>2. /\ items[i].start \in Int /\ items[i].end \in Int
            /\ items[j].start \in Int /\ items[j].end \in Int
            /\ items[k].end \in Int /\ items[j].start < items[j].end
        BY <2>1, <2>5, <4>1
      <4>3. A[i].end \in Int
        BY <2>7
      <4>4. ~(items[i].start < items[j].end /\ items[j].start < items[i].end)
        BY <3>2 DEF Overlap
      <4>5. ~(items[i].end < items[j].end /\ items[j].start < items[k].end)
        BY <4>1 DEF Overlap
      <4> QED BY <2>2, <2>6, <3>6, <4>1, <4>2, <4>3, <4>4, <4>5, OneMovedOut
    <3>7. ASSUME NEW k \in DOMAIN items, HandsOver(w, j, k), A[j].end = w.rows[j].end,
                 A[i].end = items[i].end
          PROVE  FALSE
      <4>1. /\ k \in Blocks(items) /\ items[k].start = items[j].end
            /\ A[j].end <= items[k].end
            /\ ~Overlap(items[k], items[i]) /\ ~Overlap(items[k], items[j])
        BY <3>3, <3>4, <3>7
      <4>2. /\ items[i].start \in Int /\ items[i].end \in Int
            /\ items[j].start \in Int /\ items[j].end \in Int
            /\ items[k].end \in Int /\ items[i].start < items[i].end
        BY <2>1, <2>5, <4>1
      <4>3. A[j].end \in Int
        BY <2>7
      <4>4. ~(items[j].start < items[i].end /\ items[i].start < items[j].end)
        BY <3>2 DEF Overlap
      <4>5. ~(items[j].end < items[i].end /\ items[i].start < items[k].end)
        BY <4>1 DEF Overlap
      <4> QED BY <2>2, <2>6, <3>7, <4>1, <4>2, <4>3, <4>4, <4>5, OneMovedOut
    <3>8. ASSUME NEW k \in DOMAIN items, HandsOver(w, i, k), A[i].end = w.rows[i].end,
                 NEW l \in DOMAIN items, HandsOver(w, j, l), A[j].end = w.rows[j].end
          PROVE  FALSE
      <4>1. /\ k \in Blocks(items) \ unchecked /\ items[k].start = items[i].end
            /\ A[i].end <= items[k].end /\ SameRoom(items[k], items[i])
            /\ ~Overlap(items[k], items[i]) /\ ~Overlap(items[k], items[j])
        BY <3>3, <3>4, <3>8
      <4>2. /\ l \in Blocks(items) \ unchecked /\ items[l].start = items[j].end
            /\ A[j].end <= items[l].end /\ SameRoom(items[l], items[i])
            /\ ~Overlap(items[l], items[i]) /\ ~Overlap(items[l], items[j])
        BY <3>3, <3>4, <3>8
      <4>3. CASE k = l
        BY <2>1, <2>5, <3>2, <4>1, <4>2, <4>3 DEF Overlap
      <4>4. CASE k # l
        <5>1. SameRoom(items[k], items[l])
          BY <4>1, <4>2 DEF SameRoom
        <5>2. ~Overlap(items[k], items[l])
          BY <2>4, <4>1, <4>2, <4>4, <5>1
        <5>3. /\ items[i].start \in Int /\ items[i].end \in Int
              /\ items[j].start \in Int /\ items[j].end \in Int
              /\ items[k].end \in Int /\ items[l].end \in Int
              /\ items[i].start < items[i].end /\ items[j].start < items[j].end
              /\ items[i].end < items[k].end /\ items[j].end < items[l].end
          BY <2>1, <2>5, <4>1, <4>2
        <5>4. A[i].end \in Int /\ A[j].end \in Int
          BY <2>7
        <5>5. /\ ~(items[i].start < items[j].end /\ items[j].start < items[i].end)
              /\ ~(items[i].end < items[j].end /\ items[j].start < items[k].end)
              /\ ~(items[j].end < items[i].end /\ items[i].start < items[l].end)
              /\ ~(items[i].end < items[l].end /\ items[j].end < items[k].end)
          BY <3>2, <4>1, <4>2, <5>2 DEF Overlap
        <5> QED BY <2>2, <2>6, <4>1, <4>2, <5>3, <5>4, <5>5, BothMovedOut
      <4> QED BY <4>3, <4>4
    <3> QED BY <2>3, <3>5, <3>6, <3>7, <3>8
  <2>9. A[i].therapist = A[j].therapist =>
           {i, j} \intersect (UncheckedBy(w) \union GrownBy(w)) # {}
    <3>1. CASE {i, j} \intersect w.grown # {}
      BY <3>1 DEF GrownBy
    <3>2. CASE {i, j} \intersect w.grown = {}
      <4>1. A[i].end = items[i].end /\ A[j].end = items[j].end
        BY <2>3, <3>2
      <4>2. Overlap(items[i], items[j])
        BY <2>2, <2>6, <4>1 DEF Overlap
      <4>3. items[i].therapist = items[j].therapist =>
               {i, j} \intersect (unchecked \union grown) # {}
        BY <2>1, <4>2 DEF SlotsKeptApart
      <4> QED BY <2>2, <4>3 DEF StaysPut, UncheckedBy, GrownBy
    <3> QED BY <3>1, <3>2
  <2> QED BY <2>8, <2>9
<1> QED BY <1>1, <1>2

-----------------------------------------------------------------------------
(* A booking's status *)

\* A booking none of whose items w writes or drops keeps its statuses.
LEMMA StatusesKept ==
    ASSUME NEW w, IsTable(items), Owns(w), NEW b,
           \A i \in DOMAIN w.rows : w.rows[i].book # b,
           b \notin DOMAIN w.books
    PROVE  StatusesOf(After(w), b) = StatusesOf(items, b)
<1>1. \A i \in ItemsOf(items, b) : i \notin DOMAIN w.rows /\ i \notin w.drop
  BY DEF ItemsOf, Owns
<1>2. \A i \in ItemsOf(items, b) : i \in ItemsOf(After(w), b) /\ After(w)[i] = items[i]
  BY <1>1, AfterFacts DEF ItemsOf
<1>3. ItemsOf(After(w), b) \subseteq ItemsOf(items, b)
  <2> SUFFICES ASSUME NEW i \in ItemsOf(After(w), b) PROVE i \in ItemsOf(items, b)
    OBVIOUS
  <2>1. i \in DOMAIN After(w) /\ After(w)[i].book = b
    BY DEF ItemsOf
  <2>2. i \notin DOMAIN w.rows
    BY <2>1, AfterFacts
  <2>3. i \in DOMAIN items /\ After(w)[i] = items[i]
    BY <2>1, <2>2, AfterFacts
  <2> QED BY <2>1, <2>3 DEF ItemsOf
<1>4. ItemsOf(After(w), b) = ItemsOf(items, b)
  BY <1>2, <1>3
<1> QED BY <1>2, <1>4 DEF StatusesOf

\* Books after w.
LEMMA BooksAfter ==
    ASSUME NEW w
    PROVE  /\ DOMAIN Over(w.books, books) = DOMAIN w.books \union DOMAIN books
           /\ \A b \in DOMAIN w.books : Over(w.books, books)[b] = w.books[b]
           /\ \A b \in DOMAIN books \ DOMAIN w.books : Over(w.books, books)[b] = books[b]
BY DEF Over

\* A request for one booking b leaves the statuses as they should be when it
\* does for b: it names b, and says what became of it or leaves it open.
LEMMA FollowsOne ==
    ASSUME NEW w, IsTable(items), Owns(w), BookFollowsItems, NEW b,
           \A i \in DOMAIN w.rows : w.rows[i].book = b,
           DOMAIN w.books \subseteq {b},
           StatusesOf(After(w), b) \intersect Open = {} =>
               \/ /\ b \in DOMAIN w.books
                  /\ w.books[b] \in Finished(After(w), b)
               \/ StatusesOf(After(w), b) = StatusesOf(items, b)
                  /\ b \notin DOMAIN w.books
    PROVE  Follows(After(w), Over(w.books, books), torn \ DOMAIN w.books)
<1> SUFFICES ASSUME NEW c \in DOMAIN Over(w.books, books) \ (torn \ DOMAIN w.books),
                    StatusesOf(After(w), c) \intersect Open = {}
             PROVE  Over(w.books, books)[c] \in Finished(After(w), c)
  BY DEF Follows
<1>1. ASSUME StatusesOf(After(w), c) = StatusesOf(items, c), c \notin DOMAIN w.books
      PROVE  Over(w.books, books)[c] \in Finished(After(w), c)
  <2>1. c \in DOMAIN books /\ c \notin torn /\ Over(w.books, books)[c] = books[c]
    BY <1>1, BooksAfter
  <2>2. books[c] \in Finished(items, c)
    BY <1>1, <2>1 DEF BookFollowsItems
  <2>3. Finished(After(w), c) = Finished(items, c)
    BY <1>1 DEF Finished, ClosedAs, NotShowAs
  <2> QED BY <2>1, <2>2, <2>3
<1>2. CASE c = b
  <2>1. CASE b \in DOMAIN w.books /\ w.books[b] \in Finished(After(w), b)
    BY <1>2, <2>1, BooksAfter
  <2> QED BY <1>1, <1>2, <2>1
<1>3. CASE c # b
  <2>1. StatusesOf(After(w), c) = StatusesOf(items, c)
    BY <1>3, StatusesKept
  <2> QED BY <1>1, <1>3, <2>1
<1> QED BY <1>2, <1>3

-----------------------------------------------------------------------------
(* The four writes *)

\* What a request needs of the write it starts with.
Starting(w) ==
    /\ IsWrite(w) /\ Owns(w) /\ KeepsCovers(w) /\ IsSound(w)
    /\ w.fresh \intersect DOMAIN items = {}
    /\ (DOMAIN w.rows \ w.fresh) \union w.drop \subseteq DOMAIN items

LEMMA StatusFacts ==
    /\ "WAITING" \notin Blocking /\ "CANCEL" \notin Blocking
    /\ "CONFIRM" \in Blocking /\ "CONFIRM" \in Status /\ "CANCEL" \in Status
    /\ "WAITING" \in Open /\ "CONFIRM" \in Open
    /\ Statuses \subseteq Status
BY BookingAssumption DEF Blocking, Released, Open, Status

LEMMA OnlyFacts ==
    ASSUME NEW x, NEW v
    PROVE  /\ DOMAIN Only(x, v) = {x} /\ Only(x, v)[x] = v
           /\ Only(x, v) = [y \in DOMAIN Only(x, v) |-> Only(x, v)[y]]
BY DEF Only

LEMMA OnlyBook ==
    ASSUME NEW b \in Books, NEW st \in Status
    PROVE  AreBooks(Only(b, st))
BY DEF Only, AreBooks

LEMMA NewWriteFields ==
    ASSUME NEW b, NEW rq, NEW ids, NEW old
    PROVE  LET w == NewWrite(b, rq, ids, old)
           IN  /\ w.rows = NewItems(b, rq, ids) /\ w.fresh = ids /\ w.checked = ids
               /\ w.drop = old /\ w.books = Only(b, "CONFIRM")
               /\ w.seized = {} /\ w.grown = {} /\ w.left = {}
BY DEF NewWrite, Write

LEMMA NewWriteStarts ==
    ASSUME IInv, NEW b \in Books, NEW rq \in Requests, NEW ids \in FreshIds(Len(rq)),
           NEW old \in {{}, ItemsOf(items, b)},
           AllFree(NewItems(b, rq, ids), Restricted(items, DOMAIN items \ old))
    PROVE  Starting(NewWrite(b, rq, ids, old))
<1> DEFINE w == NewWrite(b, rq, ids, old)
           rows == NewItems(b, rq, ids)
           kept == Restricted(items, DOMAIN items \ old)
<1>1. /\ w.rows = rows /\ w.fresh = ids /\ w.checked = ids
      /\ w.drop = old /\ w.books = Only(b, "CONFIRM")
      /\ w.seized = {} /\ w.grown = {} /\ w.left = {}
  BY NewWriteFields
<1>2. /\ ids \in SUBSET ItemIds /\ Cardinality(ids) = Len(rq)
      /\ ids \intersect DOMAIN items = {}
  BY DEF FreshIds
<1>3. /\ ids # {} /\ IsTable(rows) /\ DOMAIN rows = ids
      /\ \A i \in ids : /\ rows[i].book = b
                        /\ rows[i].status \in {"WAITING", "CONFIRM"}
                        /\ rows[i].status = "WAITING" <=> rows[i].room = NoRoom
      /\ \A i \in ids : rows[i].room # NoRoom =>
            Full(rows[i]) \/ \E k \in ids : Covers(rows[i], rows[k])
  BY <1>2, NewItemsFacts
<1>4. /\ old \subseteq DOMAIN items /\ \A i \in old : items[i].book = b
      /\ \A i \in DOMAIN items, k \in old : items[i].book = items[k].book => i \in old
  BY DEF ItemsOf
<1>5. /\ DOMAIN kept = DOMAIN items \ old
      /\ \A i \in DOMAIN kept : kept[i] = items[i]
  BY DEF Restricted
<1>6. IsTable(items) /\ SlotsKeptApart /\ CleanedBetweenBookings /\ BookFollowsItems
      /\ ShortAreCovered
  BY DEF IInv, TablesTyped
<1>7. \A i \in ids : rows[i].status # "WAITING" =>
         ~CheckBlock(kept, i, rows[i]) /\ ~CheckBlock(rows, i, rows[i])
  BY <1>3 DEF AllFree
<1> HIDE DEF w, rows, kept
<1>8. IsWrite(w)
  <2>1. AreBooks(w.books)
    BY <1>1, OnlyBook, StatusFacts
  <2>2. old \subseteq ItemIds
    BY <1>4, <1>6 DEF IsTable
  <2> QED BY <1>1, <1>3, <2>1, <2>2 DEF IsWrite
<1>9. Owns(w)
  <2>1. b \in DOMAIN w.books
    BY <1>1 DEF Only
  <2> QED BY <1>1, <1>2, <1>3, <1>4, <2>1 DEF Owns
<1>10. KeepsCovers(w)
  <2> SUFFICES ASSUME NEW i \in Blocks(items), NEW k \in DOMAIN items,
                      Covers(items[i], items[k]), k \in DOMAIN w.rows \union w.drop
               PROVE  i \in w.drop
    BY DEF KeepsCovers, Keeps
  <2>1. k \in old
    BY <1>1, <1>2, <1>3
  <2>2. i \in DOMAIN items /\ items[i].book = items[k].book
    BY DEF Blocks, Covers
  <2> QED BY <1>1, <1>4, <2>1, <2>2
<1>11. LooksFirst(w)
  <2> SUFFICES ASSUME NEW i \in Blocks(rows), NEW j \in Blocks(After(w)), j # i
               PROVE  ~Clash(After(w)[j], rows[i])
    BY <1>1, <1>3 DEF LooksFirst
  <2>1. i \in ids /\ rows[i].status # "WAITING"
    BY <1>3, StatusFacts DEF Blocks
  <2>2. ~CheckBlock(kept, i, rows[i]) /\ ~CheckBlock(rows, i, rows[i])
    BY <1>7, <2>1
  <2>3. CASE j \in Blocks(rows) /\ After(w)[j] = rows[j]
    BY <2>2, <2>3 DEF CheckBlock
  <2>4. CASE j \in Blocks(items) /\ After(w)[j] = items[j] /\ j \notin old
    <3>1. j \in Blocks(kept) /\ kept[j] = items[j]
      BY <1>5, <2>4 DEF Blocks
    <3> QED BY <2>2, <2>4, <3>1 DEF CheckBlock
  <2> QED BY <1>1, <2>3, <2>4, AfterSplit
<1>12. \A i \in Blocks(rows) : Full(rows[i]) \/ \E k \in ids : Covers(rows[i], rows[k])
  <2> SUFFICES ASSUME NEW i \in Blocks(rows)
               PROVE  Full(rows[i]) \/ \E k \in ids : Covers(rows[i], rows[k])
    OBVIOUS
  <2>1. i \in ids /\ rows[i].status # "WAITING"
    BY <1>3, StatusFacts DEF Blocks
  <2> QED BY <1>3, <2>1
<1>13. WrittenCovered(w)
  BY <1>1, <1>12 DEF WrittenCovered
<1>14. Apart(After(w), UncheckedBy(w), GrownBy(w))
  BY <1>6, <1>11, LooksFirstApart
<1>15. Cleaned(After(w), UncheckedBy(w), LeftBy(w))
  BY <1>1, <1>3, <1>6, <1>8, <1>10, <1>11, <1>12, LooksFirstCleaned
<1>16. Follows(After(w), Over(w.books, books), torn \ DOMAIN w.books)
  <2>1. StatusesOf(After(w), b) \intersect Open # {}
    <3>1. PICK i \in ids : TRUE
      BY <1>3
    <3>2. i \in DOMAIN After(w) /\ After(w)[i] = rows[i]
      <4>1. i \in DOMAIN w.rows
        BY <1>1, <1>3
      <4>2. i \in DOMAIN After(w) /\ After(w)[i] = w.rows[i]
        BY <4>1, AfterFacts
      <4> QED BY <1>1, <4>2
    <3>3. rows[i].status \in StatusesOf(After(w), b)
      BY <1>3, <3>2 DEF StatusesOf, ItemsOf
    <3>4. rows[i].status \in Open
      BY <1>3, StatusFacts
    <3> QED BY <3>3, <3>4
  <2>2. DOMAIN w.books \subseteq {b}
    BY <1>1 DEF Only
  <2>3. \A i \in DOMAIN w.rows : w.rows[i].book = b
    BY <1>1, <1>3
  <2> QED BY <1>6, <1>9, <2>1, <2>2, <2>3, FollowsOne
<1>17. IsSound(w)
  BY <1>13, <1>14, <1>15, <1>16 DEF IsSound
<1>18. /\ w.fresh \intersect DOMAIN items = {}
       /\ (DOMAIN w.rows \ w.fresh) \union w.drop \subseteq DOMAIN items
  BY <1>1, <1>2, <1>3, <1>4
<1>19. Starting(w)
  BY <1>8, <1>9, <1>10, <1>17, <1>18 DEF Starting
<1> QED BY <1>19 DEF w

LEMMA MoveWriteFields ==
    ASSUME NEW i, NEW to
    PROVE  LET w == MoveWrite(i, to)
           IN  /\ w.rows = Only(i, Moved(items[i], to)) /\ w.fresh = {} /\ w.checked = {i}
               /\ w.drop = {} /\ w.books = <<>> /\ w.seized = {} /\ w.grown = {}
               /\ w.left = Previous(items, i) \ Previous(AfterMove(i, to), i)
BY DEF MoveWrite, Write

LEMMA MovedFacts ==
    ASSUME NEW row, IsRow(row), NEW to \in Moves
    PROVE  LET moved == Moved(row, to)
           IN  /\ IsRow(moved) /\ Full(moved)
               /\ moved.book = row.book /\ moved.room = to.room /\ moved.start = to.start
               /\ moved.start + ProcessTime <= moved.end
               /\ moved.status = (IF row.status = "WAITING" THEN "CONFIRM" ELSE row.status)
<1> DEFINE moved == Moved(row, to)
<1>1. /\ row \in RowType /\ row.dur \in Nat \ {0} /\ row.status \in Status
  BY DEF IsRow, RowType
<1>2. to.room \in Rooms /\ to.therapist \in Therapists /\ to.start \in Nat
  BY BookingAssumption
<1>3. /\ moved.book = row.book /\ moved.room = to.room /\ moved.start = to.start
      /\ moved.end = to.start + row.dur + ProcessTime /\ moved.dur = row.dur
      /\ moved.therapist = to.therapist
      /\ moved.status = (IF row.status = "WAITING" THEN "CONFIRM" ELSE row.status)
  BY <1>1 DEF Moved, RowType
<1>4. moved \in RowType
  <2>1. to.start + row.dur + ProcessTime \in Int
    BY <1>1, <1>2, ProcessTimeType
  <2>2. (IF row.status = "WAITING" THEN "CONFIRM" ELSE row.status) \in Status
    BY <1>1, StatusFacts
  <2>3. to.start \in Int
    BY <1>2
  <2> QED BY <1>1, <1>2, <2>1, <2>2, <2>3 DEF Moved, RowType
<1> HIDE DEF moved
<1>5. /\ moved.start + moved.dur + ProcessTime <= moved.end
      /\ moved.start + moved.dur <= moved.end
      /\ moved.start + ProcessTime <= moved.end
  BY <1>1, <1>2, <1>3, ProcessTimeType
<1>6. IsRow(moved) /\ Full(moved)
  BY <1>4, <1>5 DEF IsRow, Full
<1> QED BY <1>3, <1>5, <1>6 DEF moved

LEMMA MoveWriteStarts ==
    ASSUME IInv, NEW x \in DOMAIN items, NEW to \in Moves,
           ~CheckBlock(items, x, Moved(items[x], to))
    PROVE  Starting(MoveWrite(x, to))
<1> DEFINE w == MoveWrite(x, to)
           moved == Moved(items[x], to)
           b == items[x].book
<1>1. /\ w.rows = Only(x, moved) /\ w.fresh = {} /\ w.checked = {x}
      /\ w.drop = {} /\ w.books = <<>> /\ w.seized = {} /\ w.grown = {}
      /\ w.left = Previous(items, x) \ Previous(AfterMove(x, to), x)
  BY MoveWriteFields
<1>2. DOMAIN w.rows = {x} /\ w.rows[x] = moved /\ DOMAIN w.books = {}
  BY <1>1 DEF Only
<1>3. IsTable(items) /\ SlotsKeptApart /\ CleanedBetweenBookings /\ BookFollowsItems
      /\ ShortAreCovered
  BY DEF IInv, TablesTyped
<1>4. /\ IsRow(items[x]) /\ x \in ItemIds
      /\ items[x].start \in Int /\ items[x].end \in Int /\ items[x].start < items[x].end
  <2>1. /\ IsRow(items[x]) /\ x \in ItemIds
    BY <1>3 DEF IsTable
  <2>2. /\ items[x].start \in Int /\ items[x].end \in Int /\ items[x].dur \in Nat \ {0}
        /\ items[x].start + items[x].dur <= items[x].end
    BY <2>1 DEF IsRow, RowType
  <2> QED BY <2>1, <2>2
<1>5. /\ IsRow(moved) /\ Full(moved)
      /\ moved.book = b /\ moved.room = to.room /\ moved.start = to.start
      /\ moved.start + ProcessTime <= moved.end
      /\ moved.status = (IF items[x].status = "WAITING" THEN "CONFIRM" ELSE items[x].status)
  BY <1>4, MovedFacts
<1>6. /\ DOMAIN AfterMove(x, to) = DOMAIN items
      /\ AfterMove(x, to)[x] = moved
      /\ \A i \in DOMAIN items \ {x} : AfterMove(x, to)[i] = items[i]
  BY DEF AfterMove, Over, Only
<1> HIDE DEF w, moved, b
<1>7. IsWrite(w)
  <2>1. w.rows = [i \in DOMAIN w.rows |-> w.rows[i]]
    BY <1>1 DEF Only
  <2>2. IsTable(w.rows)
    BY <1>2, <1>4, <1>5, <2>1 DEF IsTable
  <2>3. AreBooks(w.books)
    BY <1>1, <1>2 DEF AreBooks
  <2> QED BY <1>1, <1>2, <2>2, <2>3 DEF IsWrite
<1>8. Owns(w)
  BY <1>1, <1>2, <1>5 DEF Owns, b
<1>9. KeepsCovers(w)
  <2> SUFFICES ASSUME NEW i \in Blocks(items), NEW k \in DOMAIN items,
                      Covers(items[i], items[k]), k \in DOMAIN w.rows \union w.drop,
                      i \notin w.left
               PROVE  k \in DOMAIN w.rows /\ k \notin w.drop /\ Covers(items[i], w.rows[k])
    BY DEF KeepsCovers, Keeps
  <2>1. k = x /\ k \notin w.drop
    BY <1>1, <1>2
  <2>2. /\ items[x].book = items[i].book /\ SameRoom(items[i], items[x])
        /\ items[x].status \in Blocking /\ items[x].start = items[i].end
    BY <2>1 DEF Covers
  <2>3. i \in DOMAIN items /\ i # x
    BY <1>4, <2>2 DEF Blocks
  <2>4. i \in Previous(items, x)
    BY <2>2, <2>3 DEF Previous, ItemsOf
  <2>5. i \in Previous(AfterMove(x, to), x)
    BY <1>1, <2>4
  <2>6. SameRoom(items[i], moved) /\ items[i].end = moved.start
    BY <1>6, <2>3, <2>5 DEF Previous
  <2>7. moved.status \in Blocking
    BY <1>5, <2>2, StatusFacts
  <2>8. Covers(items[i], moved)
    BY <1>5, <2>2, <2>6, <2>7 DEF Covers, b
  <2> QED BY <1>2, <2>1, <2>8
<1>10. LooksFirst(w)
  <2> SUFFICES ASSUME NEW i \in Blocks(w.rows), NEW j \in Blocks(After(w)), j # i
               PROVE  ~Clash(After(w)[j], w.rows[i])
    BY <1>1, <1>2 DEF LooksFirst
  <2>1. i = x /\ w.rows[i] = moved
    BY <1>2 DEF Blocks
  <2>2. j \in Blocks(items) /\ After(w)[j] = items[j]
    BY <1>2, <2>1, AfterSplit DEF Blocks
  <2> QED BY <2>1, <2>2 DEF CheckBlock, moved
<1>11. \A i \in Blocks(w.rows) : Full(w.rows[i])
  BY <1>2, <1>5 DEF Blocks
<1>12. WrittenCovered(w)
  BY <1>11 DEF WrittenCovered
<1>13. Apart(After(w), UncheckedBy(w), GrownBy(w))
  BY <1>3, <1>10, LooksFirstApart
<1>14. Cleaned(After(w), UncheckedBy(w), LeftBy(w))
  BY <1>3, <1>7, <1>9, <1>10, <1>11, LooksFirstCleaned
<1>15. Follows(After(w), Over(w.books, books), torn \ DOMAIN w.books)
  <2>1. ASSUME StatusesOf(After(w), b) \intersect Open = {}
        PROVE  StatusesOf(After(w), b) = StatusesOf(items, b)
    <3>1. /\ DOMAIN After(w) = DOMAIN items /\ After(w)[x] = moved
          /\ \A i \in DOMAIN items \ {x} : After(w)[i] = items[i]
      <4>1. DOMAIN After(w) = {x} \union (DOMAIN items \ {})
        BY <1>1, <1>2, AfterFacts
      <4>2. x \in DOMAIN w.rows
        BY <1>2
      <4>3. After(w)[x] = moved
        BY <1>2, <4>2, AfterFacts
      <4>4. \A i \in DOMAIN items \ {x} : After(w)[i] = items[i]
        BY <1>1, <1>2, AfterFacts
      <4> QED BY <4>1, <4>3, <4>4
    <3>2. moved.status \notin Open
      BY <1>5, <2>1, <3>1 DEF StatusesOf, ItemsOf
    <3>3. moved.status = items[x].status
      BY <1>5, <3>2, StatusFacts
    <3>4. \A i \in DOMAIN items : /\ After(w)[i].status = items[i].status
                                  /\ After(w)[i].book = items[i].book
      BY <1>5, <3>1, <3>3 DEF b
    <3>5. ItemsOf(After(w), b) = ItemsOf(items, b)
      BY <3>1, <3>4 DEF ItemsOf
    <3>6. \A i \in ItemsOf(items, b) : After(w)[i].status = items[i].status
      BY <3>4 DEF ItemsOf
    <3> QED BY <3>5, <3>6 DEF StatusesOf
  <2>2. \A i \in DOMAIN w.rows : w.rows[i].book = b
    BY <1>2, <1>5
  <2> QED BY <1>2, <1>3, <1>8, <2>1, <2>2, FollowsOne
<1>16. IsSound(w)
  BY <1>12, <1>13, <1>14, <1>15 DEF IsSound
<1>17. /\ w.fresh \intersect DOMAIN items = {}
       /\ (DOMAIN w.rows \ w.fresh) \union w.drop \subseteq DOMAIN items
  BY <1>1, <1>2
<1>18. Starting(w)
  BY <1>7, <1>8, <1>9, <1>16, <1>17 DEF Starting
<1> QED BY <1>18 DEF w

LEMMA CancelWriteFields ==
    ASSUME NEW b
    PROVE  LET w == CancelWrite(b)
           IN  /\ w.rows = [i \in ItemsOf(items, b) |-> [items[i] EXCEPT !.status = "CANCEL"]]
               /\ w.fresh = {} /\ w.checked = {} /\ w.drop = {}
               /\ w.books = Only(b, "CANCEL")
               /\ w.seized = {} /\ w.grown = {} /\ w.left = {}
BY DEF CancelWrite, Write

LEMMA CancelWriteStarts ==
    ASSUME IInv, NEW b \in DOMAIN books
    PROVE  Starting(CancelWrite(b))
<1> DEFINE w == CancelWrite(b)
           own == ItemsOf(items, b)
<1>1. /\ w.rows = [i \in own |-> [items[i] EXCEPT !.status = "CANCEL"]]
      /\ w.fresh = {} /\ w.checked = {} /\ w.drop = {} /\ w.books = Only(b, "CANCEL")
      /\ w.seized = {} /\ w.grown = {} /\ w.left = {}
  BY CancelWriteFields
<1>2. IsTable(items) /\ SlotsKeptApart /\ CleanedBetweenBookings /\ BookFollowsItems
      /\ b \in Books
  BY DEF IInv, TablesTyped, AreBooks
<1>3. own \subseteq DOMAIN items /\ \A i \in DOMAIN items : i \in own <=> items[i].book = b
  BY DEF ItemsOf
<1> HIDE DEF w, own
<1>4. DOMAIN w.rows = own /\ \A i \in own : w.rows[i] = [items[i] EXCEPT !.status = "CANCEL"]
  BY <1>1
<1>5. ASSUME NEW i \in own
      PROVE  /\ IsRow(w.rows[i]) /\ w.rows[i].status = "CANCEL"
             /\ w.rows[i].book = b /\ w.rows[i].book = items[i].book
             /\ w.rows[i].room = items[i].room /\ w.rows[i].therapist = items[i].therapist
             /\ w.rows[i].start = items[i].start /\ w.rows[i].dur = items[i].dur
  <2>1. i \in DOMAIN items /\ items[i].book = b /\ IsRow(items[i])
    BY <1>2, <1>3 DEF IsTable
  <2>2. items[i] \in RowType /\ items[i].start + items[i].dur <= items[i].end
    BY <2>1 DEF IsRow
  <2>3. w.rows[i] = [items[i] EXCEPT !.status = "CANCEL"]
    BY <1>4
  <2>4. w.rows[i] \in RowType
    BY <2>2, <2>3, StatusFacts DEF RowType
  <2>5. /\ w.rows[i].status = "CANCEL" /\ w.rows[i].book = items[i].book
        /\ w.rows[i].room = items[i].room /\ w.rows[i].therapist = items[i].therapist
        /\ w.rows[i].start = items[i].start /\ w.rows[i].dur = items[i].dur
        /\ w.rows[i].end = items[i].end
    BY <2>2, <2>3 DEF RowType
  <2> QED BY <2>1, <2>2, <2>4, <2>5 DEF IsRow
<1>6. Blocks(w.rows) = {}
  BY <1>4, <1>5, StatusFacts DEF Blocks
<1>7. IsWrite(w)
  <2>1. w.rows = [i \in DOMAIN w.rows |-> w.rows[i]]
    BY <1>1
  <2>2. own \subseteq ItemIds
    BY <1>2, <1>3 DEF IsTable
  <2>3. IsTable(w.rows)
    BY <1>4, <1>5, <2>1, <2>2 DEF IsTable
  <2>4. AreBooks(w.books)
    BY <1>1, <1>2, OnlyBook, StatusFacts
  <2> QED BY <1>1, <2>3, <2>4 DEF IsWrite
<1>8. Owns(w)
  BY <1>1, <1>4, <1>5 DEF Owns
<1>9. KeepsCovers(w)
  <2> SUFFICES ASSUME NEW i \in Blocks(items), NEW k \in DOMAIN items,
                      Covers(items[i], items[k]), k \in DOMAIN w.rows \union w.drop
               PROVE  i \in DOMAIN w.rows
    BY DEF KeepsCovers, Keeps
  <2>1. k \in own
    BY <1>1, <1>4
  <2> QED BY <1>3, <1>4, <2>1 DEF Covers, Blocks
<1>10. StaysPut(w)
  BY <1>1, <1>3, <1>4, <1>5, <1>6 DEF StaysPut
<1>11. WrittenCovered(w)
  BY <1>6 DEF WrittenCovered
<1>12. Apart(After(w), UncheckedBy(w), GrownBy(w))
  BY <1>2, <1>7, <1>10, StaysPutApart
<1>13. Cleaned(After(w), UncheckedBy(w), LeftBy(w))
  BY <1>2, <1>10, StaysPutCleaned
<1>14. Follows(After(w), Over(w.books, books), torn \ DOMAIN w.books)
  <2>1. DOMAIN w.books = {b} /\ w.books[b] = "CANCEL"
    BY <1>1 DEF Only
  <2>2. ASSUME NEW i \in ItemsOf(After(w), b)
        PROVE  After(w)[i].status = "CANCEL"
    <3>1. i \in DOMAIN After(w) /\ After(w)[i].book = b
      BY DEF ItemsOf
    <3>2. CASE i \in DOMAIN w.rows
      <4>1. After(w)[i] = w.rows[i]
        BY <3>2, AfterFacts
      <4> QED BY <1>4, <1>5, <3>2, <4>1
    <3>3. CASE i \notin DOMAIN w.rows
      <4>1. i \in DOMAIN items /\ After(w)[i] = items[i]
        BY <3>1, <3>3, AfterFacts
      <4> QED BY <1>3, <1>4, <3>1, <3>3, <4>1
    <3> QED BY <3>2, <3>3
  <2>3. StatusesOf(After(w), b) \subseteq {"CANCEL"}
    BY <2>2 DEF StatusesOf
  <2>4. "CANCEL" \in Finished(After(w), b)
    BY <2>3 DEF ClosedAs, Finished
  <2>5. \A i \in DOMAIN w.rows : w.rows[i].book = b
    BY <1>4, <1>5
  <2> QED BY <1>2, <1>8, <2>1, <2>4, <2>5, FollowsOne
<1>15. IsSound(w)
  BY <1>11, <1>12, <1>13, <1>14 DEF IsSound
<1>16. /\ w.fresh \intersect DOMAIN items = {}
       /\ (DOMAIN w.rows \ w.fresh) \union w.drop \subseteq DOMAIN items
  BY <1>1, <1>3, <1>4
<1>17. Starting(w)
  BY <1>7, <1>8, <1>9, <1>15, <1>16 DEF Starting
<1> QED BY <1>17 DEF w

\* The items of b that stand before one of S.
Longer(b, S, status) ==
    {j \in ItemsOf(items, b) : SetStatus(items, S, status)[j].end > items[j].end}

Seized(b, S, status) ==
    {i \in S : status \in Blocking /\ items[i].status \notin Blocking}
    \union {j \in Longer(b, S, status) : status \in Blocking \/ ~TakesOver(j, S)}

\* A booking whose items stay open is left alone; else it shows what became
\* of them.
Shown(bks, table, b) ==
    \/ StatusesOf(table, b) \intersect Open # {} /\ bks = <<>>
    \/ StatusesOf(table, b) \intersect Open = {} /\ \E x \in Finished(table, b) : bks = Only(b, x)

\* What a menu and the till write when they set the items S to a status.
SetsStatus(w, b, S, status) ==
    LET after == SetStatus(items, S, status)
    IN  /\ w.rows = Restricted(after, S \union Longer(b, S, status))
        /\ w.fresh = {} /\ w.checked = {} /\ w.drop = {}
        /\ Shown(w.books, after, b)
        /\ w.seized = Seized(b, S, status)
        /\ w.grown = Longer(b, S, status) /\ w.left = {}

LEMMA StatusWriteFields ==
    ASSUME NEW b, NEW S, NEW status
    PROVE  SetsStatus(StatusWrite(b, S, status), b, S, status)
<1> DEFINE w == StatusWrite(b, S, status)
           after == SetStatus(items, S, status)
<1>1. /\ w.rows = Restricted(after, S \union Longer(b, S, status))
      /\ w.fresh = {} /\ w.checked = {} /\ w.drop = {}
      /\ w.books = BookStatus(after, b)
      /\ w.seized = Seized(b, S, status)
      /\ w.grown = Longer(b, S, status) /\ w.left = {}
  BY DEF StatusWrite, Write, Longer, Seized
<1>2. Shown(BookStatus(after, b), after, b)
  BY DEF Shown, BookStatus, Finished
<1> QED BY <1>1, <1>2 DEF SetsStatus

LEMMA SetStatusRow ==
    ASSUME IsTable(items), NEW S \in SUBSET DOMAIN items, NEW status \in Status,
           NEW j \in DOMAIN items
    PROVE  LET row == SetStatus(items, S, status)[j]
               moved == \E i \in S : j \in Previous(items, i)
           IN  /\ IsRow(row)
               /\ row.book = items[j].book /\ row.room = items[j].room
               /\ row.therapist = items[j].therapist
               /\ row.start = items[j].start /\ row.dur = items[j].dur
               /\ row.status = (IF j \in S THEN status ELSE items[j].status)
               /\ row.end = (IF moved THEN items[j].end + ProcessTime ELSE items[j].end)
               /\ row.end > items[j].end <=> moved
<1> DEFINE row == SetStatus(items, S, status)[j]
           moved == \E i \in S : j \in Previous(items, i)
           st == IF j \in S THEN status ELSE items[j].status
           en == IF moved THEN items[j].end + ProcessTime ELSE items[j].end
<1>1. items[j] \in RowType /\ items[j].start + items[j].dur <= items[j].end
  BY DEF IsTable, IsRow
<1>2. /\ items[j].start \in Int /\ items[j].end \in Int /\ items[j].dur \in Nat
      /\ items[j].status \in Status
  BY <1>1 DEF RowType
<1>3. row = [items[j] EXCEPT !.status = st, !.end = en]
  BY DEF SetStatus
<1>4. st \in Status
  BY <1>2, StatusFacts
<1> HIDE DEF moved, st
<1>5. en \in Int /\ items[j].end <= en /\ (en > items[j].end <=> moved)
  BY <1>2, ProcessTimeType
<1> HIDE DEF row, en
<1>6. row \in RowType
  BY <1>1, <1>3, <1>4, <1>5 DEF RowType
<1>7. /\ row.book = items[j].book /\ row.room = items[j].room
      /\ row.therapist = items[j].therapist
      /\ row.start = items[j].start /\ row.dur = items[j].dur
      /\ row.status = st /\ row.end = en
  BY <1>1, <1>3 DEF RowType
<1>8. row.start + row.dur <= row.end
  BY <1>1, <1>2, <1>5, <1>7
<1> QED BY <1>5, <1>6, <1>7, <1>8 DEF IsRow, row, st, en, moved

LEMMA NotShowWriteFields ==
    ASSUME IsTable(items), NEW b, NEW S \in SUBSET ItemsOf(items, b), S # {}
    PROVE  SetsStatus(NotShowWrite(b, S), b, S, "NOT_SHOW")
<1> DEFINE w == NotShowWrite(b, S)
           after == SetStatus(items, S, "NOT_SHOW")
<1>1. /\ w.rows = Restricted(after, S \union Longer(b, S, "NOT_SHOW"))
      /\ w.fresh = {} /\ w.checked = {} /\ w.drop = {}
      /\ w.books = NotShowStatus(after, b)
      /\ w.seized = Seized(b, S, "NOT_SHOW")
      /\ w.grown = Longer(b, S, "NOT_SHOW") /\ w.left = {}
  BY DEF NotShowWrite, StatusWrite, Write, Longer, Seized
<1>2. "NOT_SHOW" \in StatusesOf(after, b)
  <2>1. PICK i \in S : i \in DOMAIN items /\ items[i].book = b
    BY DEF ItemsOf
  <2>2. after[i].book = b /\ after[i].status = "NOT_SHOW"
    <3>1. "NOT_SHOW" \in Status /\ S \in SUBSET DOMAIN items
      BY DEF Status, Released, ItemsOf
    <3> QED BY <2>1, <3>1, SetStatusRow
  <2>3. DOMAIN after = DOMAIN items
    BY DEF SetStatus
  <2> QED BY <2>1, <2>2, <2>3 DEF StatusesOf, ItemsOf
<1>3. Shown(NotShowStatus(after, b), after, b)
  BY <1>2 DEF Shown, NotShowStatus, Finished
<1> QED BY <1>1, <1>3 DEF SetsStatus

LEMMA SetsStatusStarts ==
    ASSUME IInv, NEW b \in DOMAIN books, NEW status \in Status,
           NEW S \in SUBSET ItemsOf(items, b), NEW w, SetsStatus(w, b, S, status)
    PROVE  Starting(w)
<1> DEFINE own == ItemsOf(items, b)
           after == SetStatus(items, S, status)
           longer == Longer(b, S, status)
           written == S \union longer
<1>1. /\ w.rows = Restricted(after, written)
      /\ w.fresh = {} /\ w.checked = {} /\ w.drop = {}
      /\ Shown(w.books, after, b) /\ w.seized = Seized(b, S, status)
      /\ w.grown = longer /\ w.left = {}
  BY DEF SetsStatus
<1>2. IsTable(items) /\ SlotsKeptApart /\ CleanedBetweenBookings /\ BookFollowsItems
      /\ b \in Books
  BY DEF IInv, TablesTyped, AreBooks
<1>3. /\ own \subseteq DOMAIN items /\ \A i \in DOMAIN items : i \in own <=> items[i].book = b
      /\ S \in SUBSET DOMAIN items
  BY DEF ItemsOf
<1>4. \A j \in DOMAIN items :
         /\ IsRow(after[j])
         /\ after[j].book = items[j].book /\ after[j].room = items[j].room
         /\ after[j].therapist = items[j].therapist
         /\ after[j].start = items[j].start /\ after[j].dur = items[j].dur
         /\ after[j].status = (IF j \in S THEN status ELSE items[j].status)
         /\ after[j].end = (IF \E i \in S : j \in Previous(items, i)
                            THEN items[j].end + ProcessTime ELSE items[j].end)
         /\ after[j].end > items[j].end <=> \E i \in S : j \in Previous(items, i)
  BY <1>2, <1>3, SetStatusRow
<1>5. DOMAIN after = DOMAIN items
  BY DEF SetStatus
<1>6. \A i \in S : \A j \in Previous(items, i) :
         /\ j \in own /\ j # i /\ SameRoom(items[j], items[i])
         /\ items[j].end = items[i].start
  BY <1>3 DEF Previous, ItemsOf
<1>7. \A j \in DOMAIN items : j \in longer <=> \E i \in S : j \in Previous(items, i)
  BY <1>3, <1>4, <1>6 DEF Longer
<1>8. longer \subseteq own /\ S \subseteq own /\ written \subseteq own
  BY DEF Longer
<1> HIDE DEF own, after, longer
<1>9. DOMAIN w.rows = written /\ \A j \in written : w.rows[j] = after[j]
  BY <1>1, <1>3, <1>5, <1>8 DEF Restricted
<1>10. /\ w.rows = [j \in DOMAIN w.rows |-> w.rows[j]]
  BY <1>1 DEF Restricted
<1>11. /\ \A j \in DOMAIN items :
             /\ after[j].status = (IF j \in S THEN status ELSE items[j].status)
             /\ after[j].end = (IF j \in longer THEN items[j].end + ProcessTime
                                                ELSE items[j].end)
  BY <1>4, <1>7
<1> HIDE DEF written
<1>12. written \subseteq DOMAIN items /\ \A j \in written : items[j].book = b
  BY <1>3, <1>8
<1>13. IsWrite(w)
  <2>1. IsTable(w.rows)
    BY <1>2, <1>4, <1>9, <1>10, <1>12 DEF IsTable
  <2>2. AreBooks(w.books)
    <3>1. CASE w.books = <<>>
      BY <3>1 DEF AreBooks
    <3>2. ASSUME NEW x \in Finished(after, b), w.books = Only(b, x)
          PROVE  AreBooks(w.books)
      <4>1. x \in {"COMPLETE", "RECOVER", "CANCEL", "NOT_SHOW"}
        BY <3>2 DEF Finished, ClosedAs, NotShowAs
      <4>2. x \in Status
        BY <4>1 DEF Status, Blocking, Released
      <4> QED BY <1>2, <3>2, <4>2, OnlyBook
    <3> QED BY <1>1, <3>1, <3>2 DEF Shown
  <2>3. w.seized \subseteq DOMAIN w.rows
    BY <1>1, <1>9 DEF Seized, written, longer
  <2> QED BY <1>1, <2>1, <2>2, <2>3 DEF IsWrite
<1>14. Owns(w)
  BY <1>1, <1>4, <1>9, <1>12 DEF Owns
\* Where the item that covers i is set, i is moved out and written too.
<1>15. \A i, k \in DOMAIN items : Covers(items[i], items[k]) /\ k \in S => i \in longer
  <2> SUFFICES ASSUME NEW i \in DOMAIN items, NEW k \in S, Covers(items[i], items[k])
               PROVE  i \in Previous(items, k)
    BY <1>7
  <2>1. /\ items[k].book = items[i].book /\ SameRoom(items[i], items[k])
        /\ items[k].start = items[i].end
    BY DEF Covers
  <2>2. i # k
    <3>1. items[i].start \in Int /\ items[i].end \in Int /\ items[i].dur \in Nat \ {0}
          /\ items[i].start + items[i].dur <= items[i].end
      BY <1>2, RowFacts
    <3> QED BY <2>1, <3>1
  <2> QED BY <2>1, <2>2 DEF Previous, ItemsOf
\* Where it is moved out itself, it covers i as before.
<1>16. \A i, k \in DOMAIN items :
          Covers(items[i], items[k]) /\ k \in written \ S => Covers(items[i], w.rows[k])
  <2> SUFFICES ASSUME NEW i \in DOMAIN items, NEW k \in written, k \notin S,
                      Covers(items[i], items[k])
               PROVE  Covers(items[i], after[k])
    BY <1>9
  <2>1. k \in DOMAIN items
    BY <1>12
  <2>2. /\ after[k].book = items[k].book /\ after[k].room = items[k].room
        /\ after[k].start = items[k].start /\ after[k].status = items[k].status
    BY <1>4, <2>1
  <2>3. /\ items[k].start \in Int /\ items[k].end \in Int
        /\ items[k].start + ProcessTime <= items[k].end
    BY <1>2, <2>1, RowFacts DEF Covers
  <2>4. after[k].end \in Int /\ items[k].end <= after[k].end
    BY <1>11, <2>1, <2>3, ProcessTimeType
  <2>5. after[k].start + ProcessTime <= after[k].end
    BY <2>2, <2>3, <2>4, ProcessTimeType
  <2> QED BY <2>2, <2>5 DEF Covers, SameRoom
<1>17. KeepsCovers(w)
  <2> SUFFICES ASSUME NEW i \in Blocks(items), NEW k \in DOMAIN items,
                      Covers(items[i], items[k]), k \in DOMAIN w.rows \union w.drop
               PROVE  \/ i \in DOMAIN w.rows
                      \/ k \in DOMAIN w.rows /\ k \notin w.drop /\ Covers(items[i], w.rows[k])
    BY DEF KeepsCovers, Keeps
  <2>1. i \in DOMAIN items /\ k \in written /\ k \notin w.drop
    BY <1>1, <1>9 DEF Blocks
  <2>2. CASE k \in S
    BY <1>9, <1>15, <2>1, <2>2 DEF written
  <2>3. CASE k \notin S
    BY <1>9, <1>16, <2>1, <2>3
  <2> QED BY <2>2, <2>3
\* An item that blocks after and was not seized blocked before.
<1>18. \A i \in Blocks(w.rows) \ w.seized : i \in Blocks(items) /\ i \in written
  <2> SUFFICES ASSUME NEW i \in Blocks(w.rows), i \notin w.seized
               PROVE  i \in Blocks(items) /\ i \in written
    OBVIOUS
  <2>1. i \in written /\ after[i].status \in Blocking
    BY <1>9 DEF Blocks
  <2>2. i \in DOMAIN items
    BY <1>12, <2>1
  <2>3. items[i].status \in Blocking
    BY <1>1, <1>11, <2>1, <2>2 DEF Seized
  <2> QED BY <2>1, <2>2, <2>3 DEF Blocks
<1>19. StaysPut(w)
  <2>1. \A i \in DOMAIN w.rows :
          /\ w.rows[i].book = items[i].book /\ w.rows[i].room = items[i].room
          /\ w.rows[i].therapist = items[i].therapist
          /\ w.rows[i].start = items[i].start /\ w.rows[i].dur = items[i].dur
    BY <1>4, <1>9, <1>12
  <2>2. ASSUME NEW i \in Blocks(w.rows), i \notin w.seized
        PROVE  /\ i \in Blocks(items)
               /\ \/ w.rows[i].end = items[i].end
                  \/ i \in w.grown /\ \E k \in DOMAIN items : HandsOver(w, i, k)
    <3>1. i \in Blocks(items) /\ i \in written /\ i \in DOMAIN items
      BY <1>12, <1>18, <2>2
    <3>2. CASE i \notin longer
      BY <1>9, <1>11, <3>1, <3>2
    <3>3. CASE i \in longer
      <4>1. status \notin Blocking /\ TakesOver(i, S)
        BY <1>1, <2>2, <3>3 DEF Seized, longer
      <4>2. PICK k \in S : /\ i \in Previous(items, k) /\ k \in Blocks(items) \ unchecked
                           /\ items[i].end + ProcessTime <= items[k].end
        BY <4>1 DEF TakesOver
      <4>3. /\ SameRoom(items[i], items[k]) /\ items[k].start = items[i].end
            /\ k \in DOMAIN items /\ k \in written
        BY <1>3, <1>6, <4>2 DEF written
      <4>4. w.rows[i].end <= items[k].end
        BY <1>9, <1>11, <3>1, <3>3, <4>2
      <4>5. k \notin Blocks(After(w))
        <5>1. w.rows[k].status = status /\ k \in DOMAIN w.rows
          BY <1>9, <1>11, <4>3
        <5>2. After(w)[k] = w.rows[k]
          BY <5>1, AfterFacts
        <5> QED BY <4>1, <5>1, <5>2 DEF Blocks
      <4>6. HandsOver(w, i, k)
        BY <4>2, <4>3, <4>4, <4>5 DEF HandsOver
      <4> QED BY <1>1, <3>1, <3>3, <4>3, <4>6
    <3> QED BY <3>2, <3>3
  <2> QED BY <1>1, <1>9, <1>12, <2>1, <2>2 DEF StaysPut
<1>20. WrittenCovered(w)
  <2> SUFFICES ASSUME NEW i \in Blocks(w.rows), i \notin w.seized
               PROVE  Full(w.rows[i]) \/ StaysCovered(w, i)
    BY DEF WrittenCovered
  <2>1. i \in Blocks(items) /\ i \in written /\ i \in DOMAIN items
    BY <1>12, <1>18
  <2>2. /\ w.rows[i].book = items[i].book /\ w.rows[i].room = items[i].room
        /\ w.rows[i].start = items[i].start /\ w.rows[i].dur = items[i].dur
    BY <1>4, <1>9, <2>1
  <2>3. CASE i \in longer
    <3>1. /\ items[i].start \in Int /\ items[i].end \in Int /\ items[i].dur \in Nat
          /\ items[i].start + items[i].dur <= items[i].end
      BY <1>2, <2>1, RowFacts
    <3>2. w.rows[i].end = items[i].end + ProcessTime
      BY <1>9, <1>11, <2>1, <2>3
    <3>3. w.rows[i].start + w.rows[i].dur + ProcessTime <= w.rows[i].end
      BY <2>2, <3>1, <3>2, ProcessTimeType
    <3> QED BY <3>3 DEF Full
  <2>4. CASE i \notin longer
    <3>1. SameSlot(w.rows[i], items[i])
      BY <1>9, <1>11, <2>1, <2>2, <2>4 DEF SameSlot
    <3>2. ASSUME NEW k \in DOMAIN items, Covers(items[i], items[k])
          PROVE  k \notin w.drop /\ (k \in DOMAIN w.rows => Covers(items[i], w.rows[k]))
      BY <1>1, <1>9, <1>15, <1>16, <2>1, <2>4, <3>2
    <3> QED BY <1>1, <2>1, <3>1, <3>2 DEF StaysCovered
  <2> QED BY <2>3, <2>4
<1>21. Apart(After(w), UncheckedBy(w), GrownBy(w))
  BY <1>2, <1>13, <1>19, StaysPutApart
<1>22. Cleaned(After(w), UncheckedBy(w), LeftBy(w))
  BY <1>2, <1>19, StaysPutCleaned
<1>23. Follows(After(w), Over(w.books, books), torn \ DOMAIN w.books)
  <2>1. \A i \in DOMAIN items : /\ After(w)[i].status = after[i].status
                                /\ After(w)[i].book = after[i].book
    <3> SUFFICES ASSUME NEW i \in DOMAIN items
                 PROVE  /\ After(w)[i].status = after[i].status
                        /\ After(w)[i].book = after[i].book
      OBVIOUS
    <3>1. CASE i \in DOMAIN w.rows
      <4>1. After(w)[i] = w.rows[i]
        BY <3>1, AfterFacts
      <4> QED BY <1>9, <3>1, <4>1
    <3>2. CASE i \notin DOMAIN w.rows
      <4>1. After(w)[i] = items[i]
        BY <1>1, <3>2, AfterFacts
      <4>2. i \notin S
        BY <1>9, <3>2 DEF written
      <4> QED BY <1>4, <4>1, <4>2
    <3> QED BY <3>1, <3>2
  <2>2. DOMAIN After(w) = DOMAIN items
    <3>1. DOMAIN After(w) = DOMAIN w.rows \union (DOMAIN items \ w.drop)
      BY AfterFacts
    <3> QED BY <1>1, <1>9, <1>12, <3>1
  <2>3. ItemsOf(After(w), b) = ItemsOf(after, b)
    BY <1>5, <2>1, <2>2 DEF ItemsOf
  <2>4. StatusesOf(After(w), b) = StatusesOf(after, b)
    <3>1. \A i \in ItemsOf(after, b) : After(w)[i].status = after[i].status
      BY <1>5, <2>1 DEF ItemsOf
    <3> QED BY <2>3, <3>1 DEF StatusesOf
  <2>5. Finished(After(w), b) = Finished(after, b)
    BY <2>4 DEF Finished, ClosedAs, NotShowAs
  <2>6. CASE StatusesOf(after, b) \intersect Open # {}
    <3>1. DOMAIN w.books = {}
      BY <1>1, <2>6 DEF Shown
    <3>2. \A i \in DOMAIN w.rows : w.rows[i].book = b
      BY <1>4, <1>9, <1>12
    <3>3. StatusesOf(After(w), b) \intersect Open # {}
      BY <2>4, <2>6
    <3> QED BY <1>2, <1>14, <3>1, <3>2, <3>3, FollowsOne
  <2>7. CASE StatusesOf(after, b) \intersect Open = {}
    <3>1. DOMAIN w.books = {b} /\ w.books[b] \in Finished(after, b)
      BY <1>1, <2>7 DEF Shown, Only
    <3>2. \A i \in DOMAIN w.rows : w.rows[i].book = b
      BY <1>4, <1>9, <1>12
    <3> QED BY <1>2, <1>14, <2>5, <3>1, <3>2, FollowsOne
  <2> QED BY <2>6, <2>7
<1>24. IsSound(w)
  BY <1>20, <1>21, <1>22, <1>23 DEF IsSound
<1>25. /\ w.fresh \intersect DOMAIN items = {}
       /\ (DOMAIN w.rows \ w.fresh) \union w.drop \subseteq DOMAIN items
  BY <1>1, <1>9, <1>12
<1>26. Starting(w)
  BY <1>13, <1>14, <1>17, <1>24, <1>25 DEF Starting
<1> QED BY <1>26

-----------------------------------------------------------------------------
(* Steps *)

\* What the properties and the judgements of writes are about.
Tables == <<items, books, unchecked, grown, left, torn>>

LEMMA SameJudgement ==
    ASSUME UNCHANGED Tables, NEW w
    PROVE  IsSound(w) => IsSound(w)'
<1>1. After(w)' = After(w)
  BY DEF After, Tables
<1>2. /\ UncheckedBy(w)' = UncheckedBy(w) /\ GrownBy(w)' = GrownBy(w)
      /\ LeftBy(w)' = LeftBy(w)
      /\ Over(w.books, books)' = Over(w.books, books) /\ torn' = torn
  BY DEF UncheckedBy, GrownBy, LeftBy, Tables
<1>3. WrittenCovered(w)' = WrittenCovered(w)
  BY DEF WrittenCovered, StaysCovered, Tables
<1> QED BY <1>1, <1>2, <1>3 DEF IsSound

LEMMA SameProperties ==
    ASSUME UNCHANGED Tables, IInv
    PROVE  /\ SlotsKeptApart' /\ CleanedBetweenBookings' /\ BookFollowsItems'
           /\ (IsTable(items) /\ AreBooks(books))'
<1>1. items' = items /\ books' = books /\ unchecked' = unchecked /\ grown' = grown
      /\ left' = left /\ torn' = torn
  BY DEF Tables
<1>2. SlotsKeptApart'
  BY <1>1 DEF IInv, SlotsKeptApart
<1>3. CleanedBetweenBookings'
  BY <1>1 DEF IInv, CleanedBetweenBookings
<1>4. BookFollowsItems'
  BY <1>1 DEF IInv, BookFollowsItems
<1>5. (IsTable(items) /\ AreBooks(books))'
  BY <1>1 DEF IInv, TablesTyped
<1> QED BY <1>2, <1>3, <1>4, <1>5

\* A request starts with a write made from the tables as they are.
LEMMA StartsKeep ==
    ASSUME IInv, NEW s \in Sessions, NEW w, Starts(s, w), Starting(w),
           \A t \in Pending : w.fresh \intersect
                                  (DOMAIN pending[t].rows \union pending[t].drop) = {}
    PROVE  IInv'
<1>1. /\ UNCHANGED Tables /\ items' = items /\ books' = books
      /\ unchecked' = unchecked /\ left' = left
      /\ pending' = [pending EXCEPT ![s] = w] /\ behind' = [behind EXCEPT ![s] = FALSE]
      /\ s \notin Pending
  BY DEF Starts, Tables, Pending
<1>2. /\ pending = [t \in Sessions |-> pending[t]] /\ behind \in [Sessions -> BOOLEAN]
      /\ \A t \in Pending : IsWrite(pending[t])
  BY DEF IInv, TablesTyped
<1>3. /\ pending'[s] = w /\ behind'[s] = FALSE
      /\ \A t \in Sessions \ {s} : pending'[t] = pending[t] /\ behind'[t] = behind[t]
  BY <1>1, <1>2
<1>4. Pending' \subseteq Pending \union {s} /\ \A t \in Pending' \ {s} : t \in Pending
  BY <1>3 DEF Pending
<1>5. \A t \in Pending' : \/ t = s /\ pending'[t] = w
                          \/ t # s /\ t \in Pending /\ pending'[t] = pending[t]
  BY <1>3, <1>4 DEF Pending
<1>6. TablesTyped'
  <2>1. pending' = [t \in Sessions |-> pending'[t]] /\ behind' \in [Sessions -> BOOLEAN]
    BY <1>1, <1>2
  <2>2. \A t \in Pending' : IsWrite(pending'[t])
    BY <1>2, <1>5 DEF Starting
  <2>3. IsTable(items') /\ AreBooks(books')
    BY <1>1 DEF IInv, TablesTyped
  <2> QED BY <2>1, <2>2, <2>3 DEF TablesTyped
<1>7. FreshIsUnknown'
  <2>1. \A t \in Pending : pending[t].fresh \intersect DOMAIN items = {}
    BY DEF IInv, FreshIsUnknown
  <2>2. \A t, u \in Pending : t # u =>
           pending[t].fresh \intersect (DOMAIN pending[u].rows \union pending[u].drop) = {}
    BY DEF IInv, FreshIsUnknown
  <2>3. \A t \in Pending' : pending'[t].fresh \intersect DOMAIN items' = {}
    BY <1>1, <1>5, <2>1 DEF Starting
  <2>4. \A t \in Pending : pending[t].fresh \intersect (DOMAIN w.rows \union w.drop) = {}
    <3> SUFFICES ASSUME NEW t \in Pending, NEW i \in pending[t].fresh,
                        i \in DOMAIN w.rows \union w.drop
                 PROVE  FALSE
      OBVIOUS
    <3>1. i \notin DOMAIN items
      BY <2>1
    <3>2. i \in w.fresh
      BY <3>1 DEF Starting
    <3>3. i \in DOMAIN pending[t].rows
      BY <1>2 DEF IsWrite
    <3> QED BY <3>2, <3>3
  <2>5. ASSUME NEW t \in Pending', NEW u \in Pending', t # u
        PROVE  pending'[t].fresh \intersect (DOMAIN pending'[u].rows \union pending'[u].drop) = {}
    <3>1. CASE t = s
      BY <1>3, <1>5, <2>5, <3>1
    <3>2. CASE u = s
      BY <1>3, <1>5, <2>4, <2>5, <3>2
    <3>3. CASE t # s /\ u # s
      BY <1>5, <2>2, <2>5, <3>3
    <3> QED BY <3>1, <3>2, <3>3
  <2> QED BY <2>3, <2>5 DEF FreshIsUnknown
<1>8. WritesOwn'
  <2> SUFFICES ASSUME NEW t \in Pending', NEW v \in {pending'[t]} PROVE Owns(v)'
    BY DEF WritesOwn
  <2>1. Owns(v)
    BY <1>5 DEF Starting, IInv, WritesOwn
  <2> QED BY <1>1, <2>1 DEF Owns
<1>9. ShortAreCovered'
  <2> SUFFICES ASSUME NEW i \in Blocks(items) \ (unchecked \union left), ~Full(items[i])
               PROVE  \E k \in DOMAIN items :
                         /\ Covers(items[i], items[k])
                         /\ \A t \in Pending' : Keeps(pending'[t], i, k, items[i])
    BY <1>1 DEF ShortAreCovered
  <2>1. PICK k \in DOMAIN items : /\ Covers(items[i], items[k])
                                  /\ \A t \in Pending : Keeps(pending[t], i, k, items[i])
    BY DEF IInv, ShortAreCovered
  <2>2. Keeps(w, i, k, items[i])
    BY <2>1 DEF Starting, KeepsCovers
  <2>3. \A t \in Pending' : Keeps(pending'[t], i, k, items[i])
    BY <1>5, <2>1, <2>2
  <2> QED BY <2>1, <2>3
<1>10. WritesAreSound'
  <2> SUFFICES ASSUME NEW t \in Pending', NEW v \in {pending'[t]}, ~behind'[t]
               PROVE  IsSound(v)'
    BY DEF WritesAreSound
  <2>1. IsSound(v)
    <3>1. CASE t = s /\ v = w
      BY <3>1 DEF Starting
    <3>2. CASE t # s /\ t \in Pending /\ v = pending[t]
      <4>1. ~behind[t] /\ v \in {pending[t]}
        BY <1>3, <3>2 DEF Pending
      <4> QED BY <3>2, <4>1 DEF IInv, WritesAreSound
    <3> QED BY <1>5, <3>1, <3>2
  <2> QED BY <1>1, <2>1, SameJudgement
<1> QED BY <1>1, <1>6, <1>7, <1>8, <1>9, <1>10, SameProperties DEF IInv

\* The tables after a commit, and what the history notes of it.
LEMMA CommitFacts ==
    ASSUME IInv, NEW s \in Sessions, Commit(s)
    PROVE  \E w : /\ w = pending[s] /\ s \in Pending /\ IsWrite(w) /\ StillThere(w)
                  /\ items' = After(w) /\ books' = Over(w.books, books)
                  /\ unchecked' = UncheckedBy(w) \union
                                      (IF behind[s] THEN DOMAIN w.rows ELSE {})
                  /\ grown' = GrownBy(w) /\ left' = LeftBy(w)
                  /\ behind[s] => torn' = torn \union {w.rows[i].book : i \in DOMAIN w.rows}
                                               \union DOMAIN w.books
                  /\ ~behind[s] => torn' = torn \ DOMAIN w.books
                  /\ pending' = [pending EXCEPT ![s] = None]
                  /\ behind' = [t \in Sessions |-> t # s /\ pending[t] # None]
                  /\ Pending' \subseteq Pending \ {s}
                  /\ \A t \in Pending' : pending'[t] = pending[t] /\ behind'[t] = TRUE
<1>1. PICK w : w = pending[s]
  OBVIOUS
<1>2. s \in Pending /\ StillThere(w)
  BY <1>1 DEF Commit, Pending
<1>3. IsWrite(w)
  BY <1>1, <1>2 DEF IInv, TablesTyped
<1>4. items' = After(w) /\ books' = Over(w.books, books)
  BY <1>1 DEF Commit, After
<1>5. /\ unchecked' = UncheckedBy(w) \union (IF behind[s] THEN DOMAIN w.rows ELSE {})
      /\ grown' = GrownBy(w) /\ left' = LeftBy(w)
  BY <1>1 DEF Commit, UncheckedBy, GrownBy, LeftBy
<1>6. /\ behind[s] => torn' = torn \union {w.rows[i].book : i \in DOMAIN w.rows}
                                   \union DOMAIN w.books
      /\ ~behind[s] => torn' = torn \ DOMAIN w.books
  BY <1>1 DEF Commit
<1>7. /\ pending' = [pending EXCEPT ![s] = None]
      /\ behind' = [t \in Sessions |-> t # s /\ pending[t] # None]
  BY DEF Commit
<1>8. pending = [t \in Sessions |-> pending[t]]
  BY DEF IInv, TablesTyped
<1>9. \A t \in Pending' : t # s /\ t \in Pending /\ pending'[t] = pending[t]
                          /\ behind'[t] = TRUE
  BY <1>7, <1>8 DEF Pending
<1> QED BY <1>1, <1>2, <1>3, <1>4, <1>5, <1>6, <1>7, <1>9

\* The rows that a request overtaken by another leaves alone are as they were,
\* and so is what the history says of them.
LEMMA OvertakenRow ==
    ASSUME NEW w, IsWrite(w), NEW i \in Blocks(After(w)),
           i \notin UncheckedBy(w) \union DOMAIN w.rows
    PROVE  /\ i \in Blocks(items) /\ After(w)[i] = items[i]
           /\ i \notin DOMAIN w.rows /\ i \notin w.drop
           /\ i \notin unchecked
           /\ i \in grown => i \in GrownBy(w)
           /\ i \in left => i \in LeftBy(w)
<1>1. /\ i \in Blocks(items) /\ After(w)[i] = items[i]
      /\ i \notin DOMAIN w.rows /\ i \notin w.drop
  BY AfterSplit DEF Blocks
<1>2. i \notin w.checked
  BY <1>1 DEF IsWrite
<1> QED BY <1>1, <1>2 DEF UncheckedBy, GrownBy, LeftBy

LEMMA CommitKeepsApart ==
    ASSUME IInv, NEW s \in Sessions, Commit(s)
    PROVE  SlotsKeptApart'
<1>1. PICK w : /\ w = pending[s] /\ s \in Pending /\ IsWrite(w)
               /\ items' = After(w)
               /\ unchecked' = UncheckedBy(w) \union (IF behind[s] THEN DOMAIN w.rows ELSE {})
               /\ grown' = GrownBy(w)
  BY CommitFacts
<1>2. CASE ~behind[s]
  <2>1. unchecked' = UncheckedBy(w)
    BY <1>1, <1>2
  <2>2. Apart(After(w), UncheckedBy(w), GrownBy(w))
    BY <1>1, <1>2 DEF IInv, WritesAreSound, IsSound
  <2> QED BY <1>1, <2>1, <2>2 DEF Apart, SlotsKeptApart
<1>3. CASE behind[s]
  <2>1. unchecked' = UncheckedBy(w) \union DOMAIN w.rows
    BY <1>1, <1>3
  <2> DEFINE A == After(w)
  <2> SUFFICES ASSUME NEW i \in Blocks(A), NEW j \in Blocks(A), i # j, Overlap(A[i], A[j])
               PROVE  /\ SameRoom(A[i], A[j]) => {i, j} \intersect unchecked' # {}
                      /\ A[i].therapist = A[j].therapist =>
                             {i, j} \intersect (unchecked' \union grown') # {}
    BY <1>1 DEF SlotsKeptApart
  <2>2. CASE {i, j} \intersect unchecked' # {}
    BY <2>2
  <2>3. CASE {i, j} \intersect unchecked' = {}
    <3>1. /\ i \in Blocks(items) /\ A[i] = items[i] /\ i \notin unchecked
          /\ i \in grown => i \in GrownBy(w)
      BY <1>1, <2>1, <2>3, OvertakenRow
    <3>2. /\ j \in Blocks(items) /\ A[j] = items[j] /\ j \notin unchecked
          /\ j \in grown => j \in GrownBy(w)
      BY <1>1, <2>1, <2>3, OvertakenRow
    <3>3. /\ SameRoom(items[i], items[j]) => {i, j} \intersect unchecked # {}
          /\ items[i].therapist = items[j].therapist =>
                 {i, j} \intersect (unchecked \union grown) # {}
      <4> HIDE DEF A
      <4> QED BY <3>1, <3>2 DEF IInv, SlotsKeptApart
    <3> HIDE DEF A
    <3> QED BY <1>1, <3>1, <3>2, <3>3
  <2> QED BY <2>2, <2>3
<1> QED BY <1>2, <1>3

LEMMA CommitKeepsCleaned ==
    ASSUME IInv, NEW s \in Sessions, Commit(s)
    PROVE  CleanedBetweenBookings'
<1>1. PICK w : /\ w = pending[s] /\ s \in Pending /\ IsWrite(w)
               /\ items' = After(w)
               /\ unchecked' = UncheckedBy(w) \union (IF behind[s] THEN DOMAIN w.rows ELSE {})
               /\ left' = LeftBy(w)
  BY CommitFacts
<1>2. CASE ~behind[s]
  <2>1. unchecked' = UncheckedBy(w)
    BY <1>1, <1>2
  <2>2. Cleaned(After(w), UncheckedBy(w), LeftBy(w))
    BY <1>1, <1>2 DEF IInv, WritesAreSound, IsSound
  <2> QED BY <1>1, <2>1, <2>2 DEF Cleaned, CleanedBetweenBookings
<1>3. CASE behind[s]
  <2>1. unchecked' = UncheckedBy(w) \union DOMAIN w.rows
    BY <1>1, <1>3
  <2> DEFINE A == After(w)
  <2> SUFFICES ASSUME NEW i \in Blocks(A), NEW j \in Blocks(A),
                      A[i].book # A[j].book, SameRoom(A[i], A[j]), A[i].start <= A[j].start,
                      {i, j} \intersect unchecked' = {}, i \notin LeftBy(w)
               PROVE  A[i].start + A[i].dur + ProcessTime <= A[j].start
    BY <1>1 DEF CleanedBetweenBookings
  <2>2. /\ i \in Blocks(items) /\ A[i] = items[i] /\ i \notin unchecked
        /\ i \in left => i \in LeftBy(w)
    BY <1>1, <2>1, OvertakenRow
  <2>3. /\ j \in Blocks(items) /\ A[j] = items[j] /\ j \notin unchecked
    BY <1>1, <2>1, OvertakenRow
  <2> HIDE DEF A
  <2>4. i \notin left
    BY <2>2
  <2> QED BY <2>2, <2>3, <2>4 DEF IInv, CleanedBetweenBookings
<1> QED BY <1>2, <1>3

LEMMA CommitKeepsFollowing ==
    ASSUME IInv, NEW s \in Sessions, Commit(s)
    PROVE  BookFollowsItems'
<1>1. PICK w : /\ w = pending[s] /\ s \in Pending /\ IsWrite(w)
               /\ items' = After(w) /\ books' = Over(w.books, books)
               /\ behind[s] => torn' = torn \union {w.rows[i].book : i \in DOMAIN w.rows}
                                            \union DOMAIN w.books
               /\ ~behind[s] => torn' = torn \ DOMAIN w.books
  BY CommitFacts
<1>2. CASE ~behind[s]
  <2>1. Follows(After(w), Over(w.books, books), torn \ DOMAIN w.books)
    BY <1>1, <1>2 DEF IInv, WritesAreSound, IsSound
  <2>2. torn' = torn \ DOMAIN w.books
    BY <1>1, <1>2
  <2> QED BY <1>1, <2>1, <2>2 DEF Follows, BookFollowsItems
<1>3. CASE behind[s]
  <2>1. torn' = torn \union {w.rows[i].book : i \in DOMAIN w.rows} \union DOMAIN w.books
    BY <1>1, <1>3
  <2> SUFFICES ASSUME NEW b \in DOMAIN books', b \notin torn',
                      StatusesOf(After(w), b) \intersect Open = {}
               PROVE  books'[b] \in Finished(After(w), b)
    BY <1>1 DEF BookFollowsItems
  <2>2. /\ b \notin torn /\ b \notin DOMAIN w.books
        /\ \A i \in DOMAIN w.rows : w.rows[i].book # b
    BY <2>1
  <2>3. b \in DOMAIN books /\ books'[b] = books[b]
    BY <1>1, <2>2, BooksAfter
  <2>4. IsTable(items) /\ Owns(w)
    BY <1>1 DEF IInv, TablesTyped, WritesOwn
  <2>5. StatusesOf(After(w), b) = StatusesOf(items, b)
    BY <2>2, <2>4, StatusesKept
  <2>6. books[b] \in Finished(items, b)
    BY <2>2, <2>3, <2>5 DEF IInv, BookFollowsItems
  <2>7. Finished(After(w), b) = Finished(items, b)
    BY <2>5 DEF Finished, ClosedAs, NotShowAs
  <2> QED BY <2>3, <2>6, <2>7
<1> QED BY <1>2, <1>3

\* A cover lasts: where w writes the item that covers i and not i, it covers i
\* still; and where w writes i in its place, what covered i does still.
LEMMA CommitKeepsCovered ==
    ASSUME IInv, NEW s \in Sessions, Commit(s)
    PROVE  ShortAreCovered'
<1>1. PICK w : /\ w = pending[s] /\ s \in Pending /\ IsWrite(w)
               /\ items' = After(w)
               /\ unchecked' = UncheckedBy(w) \union (IF behind[s] THEN DOMAIN w.rows ELSE {})
               /\ left' = LeftBy(w)
               /\ Pending' \subseteq Pending \ {s}
               /\ \A t \in Pending' : pending'[t] = pending[t] /\ behind'[t] = TRUE
  BY CommitFacts
<1> DEFINE A == After(w)
<1> SUFFICES ASSUME NEW i \in Blocks(A), i \notin unchecked', i \notin LeftBy(w), ~Full(A[i])
             PROVE  \E k \in DOMAIN A :
                       /\ Covers(A[i], A[k])
                       /\ \A t \in Pending' : Keeps(pending[t], i, k, A[i])
  BY <1>1 DEF ShortAreCovered
<1> HIDE DEF A
\* The cover that an item had in the tables, if it is left.
<1>2. ASSUME i \in Blocks(items), i \notin unchecked, i \notin left,
             SameSlot(A[i], items[i]),
             \A k \in DOMAIN items :
                 Covers(items[i], items[k]) /\ Keeps(w, i, k, items[i]) =>
                     k \in DOMAIN A /\ Covers(A[i], A[k])
      PROVE  \E k \in DOMAIN A :
                /\ Covers(A[i], A[k])
                /\ \A t \in Pending' : Keeps(pending[t], i, k, A[i])
  <2>1. ~Full(items[i])
    BY <1>2, SameSlotCovered
  <2>2. PICK k \in DOMAIN items : /\ Covers(items[i], items[k])
                                  /\ \A t \in Pending : Keeps(pending[t], i, k, items[i])
    BY <1>2, <2>1 DEF IInv, ShortAreCovered
  <2>3. Keeps(w, i, k, items[i])
    BY <1>1, <2>2
  <2>4. k \in DOMAIN A /\ Covers(A[i], A[k])
    BY <1>2, <2>2, <2>3
  <2>5. \A t \in Pending' : Keeps(pending[t], i, k, A[i])
    <3> SUFFICES ASSUME NEW t \in Pending' PROVE Keeps(pending[t], i, k, A[i])
      OBVIOUS
    <3>1. Keeps(pending[t], i, k, items[i])
      BY <1>1, <2>2
    <3>2. Covers(items[i], pending[t].rows[k]) => Covers(A[i], pending[t].rows[k])
      BY <1>2, SameSlotCovered
    <3> QED BY <3>1, <3>2 DEF Keeps
  <2> QED BY <2>4, <2>5
<1>3. CASE i \notin DOMAIN w.rows
  <2>1. /\ i \in Blocks(items) /\ A[i] = items[i] /\ i \notin w.drop
        /\ i \notin unchecked /\ i \notin left
    <3>1. i \notin UncheckedBy(w) \union DOMAIN w.rows
      BY <1>1, <1>3
    <3> QED BY <1>1, <3>1, OvertakenRow DEF A
  <2>2. SameSlot(A[i], items[i])
    BY <2>1 DEF SameSlot
  <2>3. i \notin w.left
    BY DEF LeftBy
  <2>4. ASSUME NEW k \in DOMAIN items, Covers(items[i], items[k]), Keeps(w, i, k, items[i])
        PROVE  k \in DOMAIN A /\ Covers(A[i], A[k])
    <3>1. CASE k \in DOMAIN w.rows
      <4>1. Covers(items[i], w.rows[k])
        BY <1>3, <2>1, <2>3, <2>4, <3>1 DEF Keeps
      <4>2. k \in DOMAIN A /\ A[k] = w.rows[k]
        BY <3>1, AfterFacts DEF A
      <4> QED BY <2>1, <4>1, <4>2
    <3>2. CASE k \notin DOMAIN w.rows
      <4>1. k \notin w.drop
        BY <1>3, <2>1, <2>3, <2>4, <3>2 DEF Keeps
      <4>2. k \in DOMAIN A /\ A[k] = items[k]
        BY <3>2, <4>1, AfterFacts DEF A
      <4> QED BY <2>1, <2>4, <4>2
    <3> QED BY <3>1, <3>2
  <2> QED BY <1>2, <2>1, <2>2, <2>4
<1>4. CASE i \in DOMAIN w.rows
  <2>1. ~behind[s] /\ i \notin UncheckedBy(w)
    BY <1>1, <1>4
  <2>2. A[i] = w.rows[i] /\ i \in Blocks(w.rows) /\ i \notin w.seized
    <3>1. A[i] = w.rows[i]
      BY <1>4, AfterFacts DEF A
    <3> QED BY <1>4, <2>1, <3>1 DEF Blocks, UncheckedBy
  <2>3. \/ \E k \in w.fresh : Covers(w.rows[i], w.rows[k])
        \/ StaysCovered(w, i)
    <3>1. WrittenCovered(w)
      BY <1>1, <2>1 DEF IInv, WritesAreSound, IsSound
    <3> QED BY <2>2, <3>1 DEF WrittenCovered
  <2>4. CASE \E k \in w.fresh : Covers(w.rows[i], w.rows[k])
    <3>1. PICK k \in w.fresh : Covers(w.rows[i], w.rows[k])
      BY <2>4
    <3>2. k \in DOMAIN w.rows
      BY <1>1 DEF IsWrite
    <3>3. k \in DOMAIN A /\ A[k] = w.rows[k]
      BY <3>2, AfterFacts DEF A
    <3>4. \A t \in Pending' : k \notin DOMAIN pending[t].rows \union pending[t].drop
      <4> SUFFICES ASSUME NEW t \in Pending'
                   PROVE  k \notin DOMAIN pending[t].rows \union pending[t].drop
        OBVIOUS
      <4>1. t \in Pending /\ t # s
        BY <1>1
      <4>2. pending[s].fresh \intersect (DOMAIN pending[t].rows \union pending[t].drop) = {}
        BY <1>1, <4>1 DEF IInv, FreshIsUnknown
      <4> QED BY <1>1, <4>2
    <3>5. \A t \in Pending' : Keeps(pending[t], i, k, A[i])
      BY <3>4 DEF Keeps
    <3> QED BY <2>2, <3>1, <3>3, <3>5
  <2>5. CASE StaysCovered(w, i)
    <3>1. /\ i \in Blocks(items) /\ i \notin w.checked /\ i \notin w.drop
          /\ SameSlot(A[i], items[i])
          /\ \A k \in DOMAIN items : Covers(items[i], items[k]) =>
                 k \notin w.drop /\ (k \in DOMAIN w.rows => Covers(items[i], w.rows[k]))
      BY <2>2, <2>5 DEF StaysCovered
    <3>2. i \notin unchecked /\ i \notin left
      BY <2>1, <3>1 DEF UncheckedBy, LeftBy
    <3>3. ASSUME NEW k \in DOMAIN items, Covers(items[i], items[k])
          PROVE  k \in DOMAIN A /\ Covers(A[i], A[k])
      <4>1. k \notin w.drop /\ (k \in DOMAIN w.rows => Covers(items[i], w.rows[k]))
        BY <3>1, <3>3
      <4>2. CASE k \in DOMAIN w.rows
        <5>1. k \in DOMAIN A /\ A[k] = w.rows[k]
          BY <4>2, AfterFacts DEF A
        <5> QED BY <3>1, <4>1, <4>2, <5>1, SameSlotCovered
      <4>3. CASE k \notin DOMAIN w.rows
        <5>1. k \in DOMAIN A /\ A[k] = items[k]
          BY <4>1, <4>3, AfterFacts DEF A
        <5> QED BY <3>1, <3>3, <5>1, SameSlotCovered
      <4> QED BY <4>2, <4>3
    <3> QED BY <1>2, <3>1, <3>2, <3>3
  <2> QED BY <2>3, <2>4, <2>5
<1> QED BY <1>3, <1>4

LEMMA CommitKeepsIds ==
    ASSUME IInv, NEW s \in Sessions, Commit(s)
    PROVE  TablesTyped' /\ FreshIsUnknown' /\ WritesOwn' /\ WritesAreSound'
<1>1. PICK w : /\ w = pending[s] /\ s \in Pending /\ IsWrite(w) /\ StillThere(w)
               /\ items' = After(w) /\ books' = Over(w.books, books)
               /\ pending' = [pending EXCEPT ![s] = None]
               /\ behind' = [t \in Sessions |-> t # s /\ pending[t] # None]
               /\ Pending' \subseteq Pending \ {s}
               /\ \A t \in Pending' : pending'[t] = pending[t] /\ behind'[t] = TRUE
  BY CommitFacts
<1>2. TablesTyped /\ FreshIsUnknown /\ WritesOwn
  BY DEF IInv
\* A row there is after: one that was, of the same booking, or a fresh one.
<1>3. \A i \in DOMAIN After(w) :
         \/ i \in DOMAIN items /\ After(w)[i].book = items[i].book
         \/ i \in w.fresh
  <2> SUFFICES ASSUME NEW i \in DOMAIN After(w), i \notin w.fresh
               PROVE  i \in DOMAIN items /\ After(w)[i].book = items[i].book
    OBVIOUS
  <2>1. CASE i \in DOMAIN w.rows
    <3>1. i \in DOMAIN items /\ After(w)[i] = w.rows[i]
      BY <1>1, <2>1, AfterFacts DEF StillThere
    <3>2. Owns(w)
      BY <1>1, <1>2 DEF WritesOwn
    <3> QED BY <2>1, <3>1, <3>2 DEF Owns
  <2>2. CASE i \notin DOMAIN w.rows
    <3>1. i \in DOMAIN items /\ i \notin w.drop
      BY <2>2, AfterFacts
    <3>2. After(w)[i] = items[i]
      BY <2>2, <3>1, AfterFacts
    <3> QED BY <3>1, <3>2
  <2> QED BY <2>1, <2>2
<1>4. ASSUME NEW t \in Pending'
      PROVE  /\ pending'[t] = pending[t] /\ t \in Pending /\ t # s
             /\ w.fresh \intersect (DOMAIN pending[t].rows \union pending[t].drop) = {}
             /\ pending[t].fresh \intersect DOMAIN items = {}
             /\ pending[t].fresh \intersect (DOMAIN w.rows \union w.drop) = {}
  BY <1>1, <1>2 DEF FreshIsUnknown
<1>5. TablesTyped'
  <2>1. pending' = [t \in Sessions |-> pending'[t]] /\ behind' \in [Sessions -> BOOLEAN]
    <3>1. pending = [t \in Sessions |-> pending[t]]
      BY <1>2 DEF TablesTyped
    <3>2. pending' = [t \in Sessions |-> pending'[t]]
      BY <1>1, <3>1
    <3>3. \A t \in Sessions : (t # s /\ pending[t] # None) \in BOOLEAN
      OBVIOUS
    <3>4. behind' \in [Sessions -> BOOLEAN]
      BY <1>1, <3>3
    <3> QED BY <3>2, <3>4
  <2>2. \A t \in Pending' : IsWrite(pending'[t])
    BY <1>2, <1>4 DEF TablesTyped
  <2>3. IsTable(items')
    BY <1>1, <1>2, AfterIsTable DEF TablesTyped
  <2>4. AreBooks(books')
    <3>1. AreBooks(w.books) /\ AreBooks(books)
      BY <1>1, <1>2 DEF TablesTyped, IsWrite
    <3> QED BY <1>1, <3>1 DEF AreBooks, Over
  <2> QED BY <2>1, <2>2, <2>3, <2>4 DEF TablesTyped
<1>6. FreshIsUnknown'
  <2>1. ASSUME NEW t \in Pending'
        PROVE  pending'[t].fresh \intersect DOMAIN items' = {}
    <3>1. DOMAIN items' \subseteq DOMAIN w.rows \union DOMAIN items
      BY <1>1, AfterFacts
    <3> QED BY <1>4, <3>1
  <2>2. ASSUME NEW t \in Pending', NEW u \in Pending', t # u
        PROVE  pending'[t].fresh \intersect (DOMAIN pending'[u].rows \union pending'[u].drop) = {}
    BY <1>2, <1>4, <2>2 DEF FreshIsUnknown
  <2> QED BY <2>1, <2>2 DEF FreshIsUnknown
<1>7. WritesOwn'
  <2> SUFFICES ASSUME NEW t \in Pending', NEW v \in {pending'[t]} PROVE Owns(v)'
    BY DEF WritesOwn
  <2>1. v = pending[t] /\ Owns(v)
    BY <1>2, <1>4 DEF WritesOwn
  <2>2. w.fresh \intersect (DOMAIN v.rows \union v.drop) = {}
    BY <1>4, <2>1
  <2>3. \A i \in DOMAIN items' : i \in DOMAIN v.rows \union v.drop =>
           i \in DOMAIN items /\ items'[i].book = items[i].book
    BY <1>1, <1>3, <2>2
  <2> QED BY <2>1, <2>3 DEF Owns
<1>8. WritesAreSound'
  BY <1>1 DEF WritesAreSound
<1> QED BY <1>5, <1>6, <1>7, <1>8

LEMMA CommitKeeps ==
    ASSUME IInv, NEW s \in Sessions, Commit(s)
    PROVE  IInv'
BY CommitKeepsApart, CommitKeepsCleaned, CommitKeepsFollowing, CommitKeepsCovered,
   CommitKeepsIds DEF IInv

\* A request that fails leaves the tables alone and is no longer under way.
LEMMA FailKeeps ==
    ASSUME IInv, NEW s \in Sessions, Fail(s)
    PROVE  IInv'
<1>1. /\ UNCHANGED Tables /\ items' = items /\ books' = books
      /\ unchecked' = unchecked /\ left' = left
      /\ pending' = [pending EXCEPT ![s] = None] /\ behind' = [behind EXCEPT ![s] = FALSE]
  BY DEF Fail, Tables
<1>2. /\ pending = [t \in Sessions |-> pending[t]] /\ behind \in [Sessions -> BOOLEAN]
      /\ \A t \in Pending : IsWrite(pending[t])
  BY DEF IInv, TablesTyped
<1>3. /\ pending'[s] = None
      /\ \A t \in Sessions \ {s} : pending'[t] = pending[t] /\ behind'[t] = behind[t]
  BY <1>1, <1>2
<1>4. \A t \in Pending' : t \in Pending /\ pending'[t] = pending[t] /\ behind'[t] = behind[t]
  BY <1>3 DEF Pending
<1>5. TablesTyped'
  <2>1. pending' = [t \in Sessions |-> pending'[t]] /\ behind' \in [Sessions -> BOOLEAN]
    BY <1>1, <1>2
  <2>2. \A t \in Pending' : IsWrite(pending'[t])
    BY <1>2, <1>4
  <2>3. IsTable(items') /\ AreBooks(books')
    BY <1>1 DEF IInv, TablesTyped
  <2> QED BY <2>1, <2>2, <2>3 DEF TablesTyped
<1>6. FreshIsUnknown'
  <2>1. \A t \in Pending' : pending'[t].fresh \intersect DOMAIN items' = {}
    BY <1>1, <1>4 DEF IInv, FreshIsUnknown
  <2>2. \A t, u \in Pending' : t # u =>
           pending'[t].fresh \intersect (DOMAIN pending'[u].rows \union pending'[u].drop) = {}
    BY <1>4 DEF IInv, FreshIsUnknown
  <2> QED BY <2>1, <2>2 DEF FreshIsUnknown
<1>7. WritesOwn'
  <2> SUFFICES ASSUME NEW t \in Pending', NEW v \in {pending'[t]} PROVE Owns(v)'
    BY DEF WritesOwn
  <2>1. Owns(v)
    BY <1>4 DEF IInv, WritesOwn
  <2> QED BY <1>1, <2>1 DEF Owns
<1>8. ShortAreCovered'
  <2> SUFFICES ASSUME NEW i \in Blocks(items) \ (unchecked \union left), ~Full(items[i])
               PROVE  \E k \in DOMAIN items :
                         /\ Covers(items[i], items[k])
                         /\ \A t \in Pending' : Keeps(pending'[t], i, k, items[i])
    BY <1>1 DEF ShortAreCovered
  <2>1. PICK k \in DOMAIN items : /\ Covers(items[i], items[k])
                                  /\ \A t \in Pending : Keeps(pending[t], i, k, items[i])
    BY DEF IInv, ShortAreCovered
  <2>2. \A t \in Pending' : Keeps(pending'[t], i, k, items[i])
    BY <1>4, <2>1
  <2> QED BY <2>1, <2>2
<1>9. WritesAreSound'
  <2> SUFFICES ASSUME NEW t \in Pending', NEW v \in {pending'[t]}, ~behind'[t]
               PROVE  IsSound(v)'
    BY DEF WritesAreSound
  <2>1. IsSound(v)
    BY <1>4 DEF IInv, WritesAreSound
  <2> QED BY <1>1, <2>1, SameJudgement
<1> QED BY <1>1, <1>5, <1>6, <1>7, <1>8, <1>9, SameProperties DEF IInv

LEMMA Idle ==
    ASSUME IInv, UNCHANGED vars
    PROVE  IInv'
<1>1. /\ UNCHANGED Tables /\ items' = items /\ books' = books
      /\ pending' = pending /\ behind' = behind /\ Pending' = Pending
      /\ unchecked' = unchecked /\ left' = left
  BY DEF vars, Tables, Pending
<1>2. TablesTyped'
  BY <1>1 DEF IInv, TablesTyped
<1>3. FreshIsUnknown'
  BY <1>1 DEF IInv, FreshIsUnknown
<1>4. WritesOwn'
  BY <1>1 DEF IInv, WritesOwn, Owns
<1>5. ShortAreCovered'
  BY <1>1 DEF IInv, ShortAreCovered
<1>6. WritesAreSound'
  <2> SUFFICES ASSUME NEW t \in Pending, NEW v \in {pending[t]}, ~behind[t]
               PROVE  IsSound(v)'
    BY <1>1 DEF WritesAreSound
  <2> QED BY <1>1, SameJudgement DEF IInv, WritesAreSound
<1> QED BY <1>1, <1>2, <1>3, <1>4, <1>5, <1>6, SameProperties DEF IInv

\* Adding and editing give new items ids that nobody knows.
LEMMA CreateKeeps ==
    ASSUME IInv, NEW s \in Sessions, NEW b \in Books, NEW rq \in Requests,
           NEW old \in {{}, ItemsOf(items, b)}, Create(s, b, rq, old)
    PROVE  IInv'
<1>1. PICK ids \in FreshIds(Len(rq)) :
          /\ AllFree(NewItems(b, rq, ids), Restricted(items, DOMAIN items \ old))
          /\ Starts(s, NewWrite(b, rq, ids, old))
  BY DEF Create
<1>2. PICK w : w = NewWrite(b, rq, ids, old)
  OBVIOUS
<1>3. Starting(w) /\ Starts(s, w) /\ w.fresh = ids
  <2>1. Starting(NewWrite(b, rq, ids, old))
    BY <1>1, NewWriteStarts
  <2>2. w.fresh = ids
    BY <1>2, NewWriteFields
  <2> QED BY <1>1, <1>2, <2>1, <2>2
<1>4. \A t \in Pending : ids \intersect (DOMAIN pending[t].rows \union pending[t].drop) = {}
  BY DEF FreshIds, Pending
<1> QED BY <1>3, <1>4, StartsKeep

\* The other requests make no items.
LEMMA UpdateStatusKeeps ==
    ASSUME IInv, NEW s \in Sessions, NEW b \in DOMAIN books, NEW S,
           \/ \E status \in Statuses : UpdateStatus(s, b, S, status)
           \/ CheckOutNotShow(s, b, S)
    PROVE  IInv'
<1>1. ASSUME NEW w, NEW status \in Status, SetsStatus(w, b, S, status),
             S \subseteq ItemsOf(items, b), Starts(s, w)
      PROVE  IInv'
  <2>1. Starting(w)
    BY <1>1, SetsStatusStarts
  <2>2. w.fresh = {}
    BY <1>1 DEF SetsStatus
  <2> QED BY <1>1, <2>1, <2>2, StartsKeep
<1>2. ASSUME NEW status \in Statuses, UpdateStatus(s, b, S, status)
      PROVE  IInv'
  <2>1. status \in Status /\ S \subseteq ItemsOf(items, b)
        /\ Starts(s, StatusWrite(b, S, status))
    BY <1>2, StatusFacts DEF UpdateStatus
  <2> QED BY <1>1, <2>1, StatusWriteFields
<1>3. ASSUME CheckOutNotShow(s, b, S)
      PROVE  IInv'
  <2>1. /\ "NOT_SHOW" \in Status /\ S \subseteq ItemsOf(items, b) /\ S # {}
        /\ Starts(s, NotShowWrite(b, S))
    BY <1>3 DEF CheckOutNotShow, Status, Released
  <2>2. IsTable(items)
    BY DEF IInv, TablesTyped
  <2> QED BY <1>1, <2>1, <2>2, NotShowWriteFields
<1> QED BY <1>2, <1>3

LEMMA CancelKeeps ==
    ASSUME IInv, NEW s \in Sessions, NEW b, Cancel(s, b)
    PROVE  IInv'
<1>1. PICK w : w = CancelWrite(b)
  OBVIOUS
<1>2. b \in DOMAIN books /\ Starts(s, w)
  BY <1>1 DEF Cancel
<1>3. Starting(w) /\ w.fresh = {}
  BY <1>1, <1>2, CancelWriteStarts, CancelWriteFields
<1> QED BY <1>2, <1>3, StartsKeep

LEMMA MoveKeeps ==
    ASSUME IInv, NEW s \in Sessions, NEW i \in DOMAIN items, NEW to \in Moves,
           UpdateBookItem(s, i, to)
    PROVE  IInv'
<1>1. PICK w : w = MoveWrite(i, to)
  OBVIOUS
<1>2. ~CheckBlock(items, i, Moved(items[i], to)) /\ Starts(s, w)
  BY <1>1 DEF UpdateBookItem
<1>3. Starting(w) /\ w.fresh = {}
  BY <1>1, <1>2, MoveWriteStarts, MoveWriteFields
<1> QED BY <1>2, <1>3, StartsKeep

LEMMA NextKeeps ==
    ASSUME IInv, Next
    PROVE  IInv'
<1>1. PICK s \in Sessions :
        \/ \E b \in Books, rq \in Requests : Add(s, b, rq) \/ Edit(s, b, rq)
        \/ \E b \in DOMAIN books :
               \E S \in {{i} : i \in ItemsOf(items, b)} \union {ItemsOf(items, b)} :
                   \/ \E status \in Statuses : UpdateStatus(s, b, S, status)
                   \/ CheckOutNotShow(s, b, S)
        \/ \E b \in Books : Cancel(s, b)
        \/ \E i \in DOMAIN items, to \in Moves : UpdateBookItem(s, i, to)
        \/ Commit(s)
        \/ Fail(s)
  BY DEF Next
<1>2. ASSUME NEW b \in Books, NEW rq \in Requests, Add(s, b, rq) \/ Edit(s, b, rq)
      PROVE  IInv'
  <2>1. Create(s, b, rq, {}) \/ Create(s, b, rq, ItemsOf(items, b))
    BY <1>2 DEF Add, Edit
  <2> QED BY <2>1, CreateKeeps
<1>3. ASSUME NEW b \in DOMAIN books, NEW S,
             \/ \E status \in Statuses : UpdateStatus(s, b, S, status)
             \/ CheckOutNotShow(s, b, S)
      PROVE  IInv'
  BY <1>3, UpdateStatusKeeps
<1>4. ASSUME NEW b \in Books, Cancel(s, b)
      PROVE  IInv'
  BY <1>4, CancelKeeps
<1>5. ASSUME NEW i \in DOMAIN items, NEW to \in Moves, UpdateBookItem(s, i, to)
      PROVE  IInv'
  BY <1>5, MoveKeeps
<1>6. CASE Commit(s)
  BY <1>6, CommitKeeps
<1>7. CASE Fail(s)
  BY <1>7, FailKeeps
<1> QED BY <1>1, <1>2, <1>3, <1>4, <1>5, <1>6, <1>7

-----------------------------------------------------------------------------
(* Theorems *)

\* Whatever requests of adding, editing, moving, cancelling and setting a
\* status overlap (BookServiceImpl.java, BookItemServiceImpl.java), the tables
\* and the writes under way are as IInv says.
THEOREM Invariance == Spec => []IInv
<1>1. IInv /\ [Next]_vars => IInv'
  BY NextKeeps, Idle
<1> QED BY InitEstablishes, <1>1, PTL DEF Spec

\* No room and no therapist is given to two items at one time, but for items
\* that took their slot without a check (BookServiceImpl.java:182-187).
THEOREM SlotsStayApart == Spec => []SlotsKeptApart
<1>1. IInv => SlotsKeptApart
  BY DEF IInv
<1> QED BY Invariance, <1>1, PTL

\* A room keeps its process time between treatments of two bookings, although
\* items of one share it (BookItemServiceImpl.java:851-861).
THEOREM RoomsAreCleaned == Spec => []CleanedBetweenBookings
<1>1. IInv => CleanedBetweenBookings
  BY DEF IInv
<1> QED BY Invariance, <1>1, PTL

\* A booking all of whose items are finished or released shows what became of
\* them (BookServiceImpl.java:385-415), or what the till made of it that charged
\* a guest who did not come (PurchaseOrderServiceImpl.java:543-563), but for
\* overlapping requests.
THEOREM BooksFollow == Spec => []BookFollowsItems
<1>1. IInv => BookFollowsItems
  BY DEF IInv
<1> QED BY Invariance, <1>1, PTL
=============================================================================
