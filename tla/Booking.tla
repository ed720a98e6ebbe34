------------------------------- MODULE Booking -------------------------------
(***************************************************************************)
(* Bookings of treatments: each item of a booking keeps a therapist and a  *)
(* room for a time.  Staff add, edit, move and cancel bookings and set the *)
(* status of items; the till sets COMPLETE when an item is charged, and    *)
(* NOT_SHOW when it charges a guest who did not come.                      *)
(*                                                                         *)
(* A request is two steps: it reads the tables and works out what it will  *)
(* write, and later commits that.  Requests overlap, no row is locked or   *)
(* versioned, and a row is written back whole.  A request that throws      *)
(* writes nothing: it is one that never starts.                            *)
(*                                                                         *)
(* A booking has at most two items, for which the grouping by room of      *)
(* comibeBookItem and comibeBookItemVo is exact, and all treatments need   *)
(* the same process time.  Guests sharing a room, double bookings, staff   *)
(* leave and opening hours are left out.                                   *)
(***************************************************************************)
EXTENDS Integers, FiniteSets, Sequences

CONSTANTS
    Books, NItems,  \* the bookings; bound on the ids of items
    Rooms, Therapists, Sessions,
    SharedRooms,    \* rooms with an id below 128: a Long parsed twice is the
                    \* same object only for these
    Requests,       \* what a booking page may ask for: the items wanted
    Moves,          \* where an item may be dragged to
    Statuses,       \* statuses the pages and the till post
    ProcessTime,    \* what a room needs between two treatments
    MaxChanges,     \* bound on the requests that commit
    NoRoom, None

ItemIds == 1..NItems

Blocking == {"PENDING", "CONFIRM", "CHECKIN_SERVICE", "COMPLETE"}
Open     == {"CONFIRM", "CHECKIN_SERVICE", "WAITING"}
Released == {"WAITING", "CANCEL", "NOT_SHOW", "RECOVER"}

Wanted == [room : Rooms \union {NoRoom}, therapist : Therapists,
           start : Nat, dur : Nat \ {0}]

ASSUME BookingAssumption ==
    /\ NItems \in Nat /\ ProcessTime \in Nat \ {0} /\ MaxChanges \in Nat
    /\ NoRoom \notin Rooms /\ SharedRooms \subseteq Rooms
    /\ Requests \subseteq Seq(Wanted) /\ \A rq \in Requests : Len(rq) \in 1..2
    /\ Moves \subseteq [room : Rooms, therapist : Therapists, start : Nat]
    /\ Statuses \subseteq Blocking \union Released

VARIABLES
    items,      \* the rows of BookItem, by id
    books,      \* the status of each booking that exists
    pending,    \* pending[s]: what the request of s will write, or None
    behind,     \* behind[s]: another request committed since s read
    unchecked,  \* history: items that hold their slot without a check
    grown,      \* history: items whose end was moved out
    left,       \* history: items whose follower in the room was moved away
    torn,       \* history: bookings last written by overlapping requests
    changes     \* history: requests committed

vars == <<items, books, pending, behind, unchecked, grown, left, torn, changes>>

Init ==
    /\ items = <<>> /\ books = <<>>
    /\ pending = [s \in Sessions |-> None]
    /\ behind = [s \in Sessions |-> FALSE]
    /\ unchecked = {} /\ grown = {} /\ left = {} /\ torn = {}
    /\ changes = 0

Write == [rows |-> <<>>, drop |-> {}, fresh |-> {}, books |-> <<>>,
          checked |-> {}, seized |-> {}, grown |-> {}, left |-> {}]

-----------------------------------------------------------------------------
(* Slots *)

Restricted(f, S) == [x \in DOMAIN f \intersect S |-> f[x]]

\* f, and g for what f leaves out.
Over(f, g) ==
    [x \in DOMAIN f \union DOMAIN g |-> IF x \in DOMAIN f THEN f[x] ELSE g[x]]

Only(x, v) == [y \in {x} |-> v]

ItemsOf(table, b) == {i \in DOMAIN table : table[i].book = b}

Blocks(table) == {i \in DOMAIN table : table[i].status \in Blocking}

Overlap(x, y) == x.start < y.end /\ y.start < x.end

SameRoom(x, y) == x.room = y.room /\ x.room # NoRoom

Clash(x, y) == Overlap(x, y) /\ (x.therapist = y.therapist \/ SameRoom(x, y))

\* A mistake the code does not make: only the therapist is looked at.
CheckBlockTherapist(table, i, row) ==
    \E j \in Blocks(table) \ {i} :
        Overlap(table[j], row) /\ table[j].therapist = row.therapist

\* Another blocking item overlaps item i as the request would write it, with
\* its therapist or in its room.
CheckBlock(table, i, row) == \E j \in Blocks(table) \ {i} : Clash(table[j], row)

\* When a booking is entered, items that follow one another in a room share
\* one process time: the first ends without it, the second moves up by it.
TimeDealWith(rq) ==
    LET end(n) == rq[n].start + rq[n].dur + ProcessTime
        follows(m, n) == /\ rq[m].room = rq[n].room
                         /\ rq[m].room \in SharedRooms \union {NoRoom}
                         /\ end(m) = rq[n].start
        back(b) == IF b THEN ProcessTime ELSE 0
    IN  [n \in DOMAIN rq |->
            LET second == \E m \in DOMAIN rq : follows(m, n)
                first  == \E m \in DOMAIN rq : follows(n, m)
            IN  [start |-> rq[n].start - back(second),
                 end   |-> end(n) - back(first \/ second)]]

Rank(ids, i) == Cardinality({j \in ids : j <= i})

\* The items a request for booking b makes of what the page asks for.
NewItems(b, rq, ids) ==
    [i \in ids |->
        LET n == Rank(ids, i)
            t == TimeDealWith(rq)[n]
        IN  [book |-> b, room |-> rq[n].room, therapist |-> rq[n].therapist,
             start |-> t.start, end |-> t.end, dur |-> rq[n].dur,
             status |-> IF rq[n].room = NoRoom THEN "WAITING" ELSE "CONFIRM"]]

\* Ids no row has and no request that is under way knows.
FreshIds(k) ==
    LET known == UNION {LET w == pending[s] IN DOMAIN w.rows \union w.drop :
                            s \in {t \in Sessions : pending[t] # None}}
        free  == ItemIds \ (DOMAIN items \union known)
    IN  {S \in SUBSET free : /\ Cardinality(S) = k
                             /\ \A i \in S : \A j \in free \ S : i < j}

-----------------------------------------------------------------------------
(* Status *)

\* The item just before i in the same room of the same booking.
Previous(table, i) ==
    {p \in ItemsOf(table, table[i].book) \ {i} :
        SameRoom(table[p], table[i]) /\ table[p].end = table[i].start}

\* A mistake the code does not make: the item before keeps its short end.
SetStatusOnly(table, S, status) ==
    [j \in DOMAIN table |->
        [table[j] EXCEPT !.status = IF j \in S THEN status ELSE @]]

\* Setting a status moves out the end of the item just before, whatever the
\* status is.
SetStatus(table, S, status) ==
    [j \in DOMAIN table |->
        [table[j] EXCEPT
            !.status = IF j \in S THEN status ELSE @,
            !.end = IF \E i \in S : j \in Previous(table, i) THEN @ + ProcessTime ELSE @]]

\* Grouping by room reads the room of every item, when there are several.
CanGroup(table, b) ==
    \/ Cardinality(ItemsOf(table, b)) = 1
    \/ \A i \in ItemsOf(table, b) : table[i].room # NoRoom

StatusesOf(table, b) == {table[i].status : i \in ItemsOf(table, b)}

ClosedAs(table, b) ==
    LET S == StatusesOf(table, b)
    IN  CASE "COMPLETE" \in S -> "COMPLETE"
          [] "COMPLETE" \notin S /\ "RECOVER" \in S -> "RECOVER"
          [] OTHER -> "CANCEL"

BookStatus(table, b) ==
    IF StatusesOf(table, b) \intersect Open # {} THEN <<>>
    ELSE Only(b, ClosedAs(table, b))

\* A mistake the code does not make: the booking is not looked at again after
\* the item is set to NOT_SHOW.
NotShowStatusComplete(table, b) ==
    IF StatusesOf(table, b) \intersect Open # {} THEN <<>> ELSE Only(b, "COMPLETE")

\* The till completes an item, and with the last of them the booking, before
\* it sets the item to NOT_SHOW; the booking follows when all items are.
NotShowAs(table, b) ==
    IF StatusesOf(table, b) = {"NOT_SHOW"} THEN "NOT_SHOW" ELSE "COMPLETE"

NotShowStatus(table, b) ==
    IF StatusesOf(table, b) \intersect Open # {} THEN <<>>
    ELSE Only(b, NotShowAs(table, b))

-----------------------------------------------------------------------------
(* Requests *)

Starts(s, write) ==
    /\ pending[s] = None
    /\ changes + Cardinality({t \in Sessions : pending[t] # None}) < MaxChanges
    /\ pending' = [pending EXCEPT ![s] = write]
    /\ behind' = [behind EXCEPT ![s] = FALSE]
    /\ UNCHANGED <<items, books, unchecked, grown, left, torn, changes>>

\* The slots asked for are free: of the items that stay and of each other.
AllFree(new, kept) ==
    \A i \in DOMAIN new :
        new[i].status # "WAITING" => ~CheckBlock(kept, i, new[i]) /\ ~CheckBlock(new, i, new[i])

\* The items of the page take the place of the items `old`.
NewWrite(b, rq, ids, old) ==
    [Write EXCEPT !.rows = NewItems(b, rq, ids), !.fresh = ids, !.checked = ids,
                  !.drop = old, !.books = Only(b, "CONFIRM")]

Create(s, b, rq, old) ==
    \E ids \in FreshIds(Len(rq)) :
        /\ AllFree(NewItems(b, rq, ids), Restricted(items, DOMAIN items \ old))
        /\ Starts(s, NewWrite(b, rq, ids, old))

Add(s, b, rq) ==
    /\ b \notin DOMAIN books
    /\ \A t \in Sessions : pending[t] # None => b \notin DOMAIN pending[t].books
    /\ Create(s, b, rq, {})

\* Editing deletes the items of the booking and makes new ones, whatever
\* became of the old.
Edit(s, b, rq) == b \in DOMAIN books /\ Create(s, b, rq, ItemsOf(items, b))

\* What j is moved out by is the time that the item of S behind it held.
TakesOver(j, S) ==
    \E i \in S :
        /\ j \in Previous(items, i) /\ i \in Blocks(items) \ unchecked
        /\ items[j].end + ProcessTime <= items[i].end

\* The items before those of S get their process time back, at a cost: where
\* nobody held it, it is taken without a look.
StatusWrite(b, S, status) ==
    LET after  == SetStatus(items, S, status)
        longer == {j \in ItemsOf(items, b) : after[j].end > items[j].end}
    IN  [Write EXCEPT
            !.rows = Restricted(after, S \union longer),
            !.books = BookStatus(after, b),
            !.grown = longer,
            !.seized = {i \in S : status \in Blocking /\ items[i].status \notin Blocking}
                       \union {j \in longer : status \in Blocking \/ ~TakesOver(j, S)}]

\* One status for the items S of a booking: a menu, the till, or the list of
\* bookings.  The menus look at the status the page was drawn with, which may
\* be long gone, so the request may post any.
UpdateStatus(s, b, S, status) ==
    /\ S # {} /\ S \subseteq ItemsOf(items, b)
    /\ CanGroup(items, b)
    /\ Starts(s, StatusWrite(b, S, status))

\* The till charges items of a booking to a guest who did not come.
NotShowWrite(b, S) ==
    [StatusWrite(b, S, "NOT_SHOW") EXCEPT
        !.books = NotShowStatus(SetStatus(items, S, "NOT_SHOW"), b)]

CheckOutNotShow(s, b, S) ==
    /\ S # {} /\ S \subseteq ItemsOf(items, b)
    /\ CanGroup(items, b)
    /\ Starts(s, NotShowWrite(b, S))

CancelWrite(b) ==
    [Write EXCEPT
        !.rows = [i \in ItemsOf(items, b) |-> [items[i] EXCEPT !.status = "CANCEL"]],
        !.books = Only(b, "CANCEL")]

Cancel(s, b) == b \in DOMAIN books /\ Starts(s, CancelWrite(b))

\* Dragging an item to another time, room or therapist; a waiting item is
\* confirmed by it.
Moved(row, to) ==
    [row EXCEPT !.room = to.room, !.therapist = to.therapist,
                !.start = to.start, !.end = to.start + row.dur + ProcessTime,
                !.status = IF @ = "WAITING" THEN "CONFIRM" ELSE @]

AfterMove(i, to) == Over(Only(i, Moved(items[i], to)), items)

\* The item behind which it stood keeps its end.
MoveWrite(i, to) ==
    [Write EXCEPT !.rows = Only(i, Moved(items[i], to)), !.checked = {i},
                  !.left = Previous(items, i) \ Previous(AfterMove(i, to), i)]

UpdateBookItem(s, i, to) ==
    /\ ~CheckBlock(items, i, Moved(items[i], to))
    /\ Starts(s, MoveWrite(i, to))

\* What is to be updated or deleted is still there.
StillThere(w) == (DOMAIN w.rows \ w.fresh) \union w.drop \subseteq DOMAIN items

Commit(s) ==
    LET w == pending[s]
    IN  /\ w # None /\ StillThere(w)
        /\ items' = Over(w.rows, Restricted(items, DOMAIN items \ w.drop))
        /\ books' = Over(w.books, books)
        /\ pending' = [pending EXCEPT ![s] = None]
        /\ behind' = [t \in Sessions |-> t # s /\ pending[t] # None]
        /\ unchecked' = (unchecked \ (w.checked \union w.drop))
                        \union w.seized \union (IF behind[s] THEN DOMAIN w.rows ELSE {})
        /\ grown' = (grown \ (w.checked \union w.drop)) \union w.grown
        /\ left' = (left \ (w.checked \union w.drop)) \union w.left
        /\ torn' = LET touched == {w.rows[i].book : i \in DOMAIN w.rows}
                                  \union DOMAIN w.books
                   IN  IF behind[s] THEN torn \union touched ELSE torn \ DOMAIN w.books
        /\ changes' = changes + 1

\* An update of a row that is gone fails, and the request with it.
Fail(s) ==
    /\ pending[s] # None /\ ~StillThere(pending[s])
    /\ pending' = [pending EXCEPT ![s] = None]
    /\ behind' = [behind EXCEPT ![s] = FALSE]
    /\ UNCHANGED <<items, books, unchecked, grown, left, torn, changes>>

Next == \E s \in Sessions :
    \/ \E b \in Books, rq \in Requests : Add(s, b, rq) \/ Edit(s, b, rq)
    \/ \E b \in DOMAIN books :
           \E S \in {{i} : i \in ItemsOf(items, b)} \union {ItemsOf(items, b)} :
               \/ \E status \in Statuses : UpdateStatus(s, b, S, status)
               \/ CheckOutNotShow(s, b, S)
    \/ \E b \in Books : Cancel(s, b)
    \/ \E i \in DOMAIN items, to \in Moves : UpdateBookItem(s, i, to)
    \/ Commit(s)
    \/ Fail(s)

Spec == Init /\ [][Next]_vars

-----------------------------------------------------------------------------
(* Properties *)

TypeOK ==
    /\ DOMAIN items \subseteq ItemIds
    /\ \A i \in DOMAIN items :
        /\ items[i].book \in DOMAIN books /\ items[i].therapist \in Therapists
        /\ items[i].room \in Rooms \union {NoRoom}
        /\ items[i].start < items[i].end
        /\ items[i].status \in Blocking \union Released
    /\ \A b \in DOMAIN books : books[b] \in Blocking \union Released
    /\ unchecked \union grown \union left \subseteq DOMAIN items
    /\ torn \subseteq DOMAIN books /\ changes \in 0..MaxChanges

\* No room is given to two items at one time, and no therapist: add, edit and
\* move look for a free slot (BookServiceImpl.java:182-187).  It fails only
\* for an item that took its slot without a check: written by a request that
\* overlapped another, set back from a released to a blocking status, or moved
\* out into time that the item behind it did not hold; and, for its therapist
\* only, for one moved out into the time of the item released behind it.
SlotsKeptApart ==
    \A i, j \in Blocks(items) :
        i # j /\ Overlap(items[i], items[j]) =>
            /\ SameRoom(items[i], items[j]) => {i, j} \intersect unchecked # {}
            /\ items[i].therapist = items[j].therapist =>
                   {i, j} \intersect (unchecked \union grown) # {}

\* Between treatments of two bookings in one room there is always the process
\* time, although the items of one booking share it and the first of them
\* ends without it: when the last of them is released, the one before it gets
\* its own back (BookItemServiceImpl.java:851-861).  Dragging the last one
\* away does not give it back.
CleanedBetweenBookings ==
    \A i, j \in Blocks(items) :
        /\ items[i].book # items[j].book /\ SameRoom(items[i], items[j])
        /\ items[i].start <= items[j].start
        /\ {i, j} \intersect unchecked = {} /\ i \notin left
        => items[i].start + items[i].dur + ProcessTime <= items[j].start

\* What a booking whose items are all finished or released may show: the till
\* that charged a guest who did not come may have spoken last.
Finished(table, b) ==
    {ClosedAs(table, b)}
    \union (IF "NOT_SHOW" \in StatusesOf(table, b) THEN {NotShowAs(table, b)} ELSE {})

\* A booking whose items are all finished or released shows what became of
\* them (BookServiceImpl.java:385-415, PurchaseOrderServiceImpl.java:543-563),
\* unless overlapping requests finished its items, each having seen the
\* other's still open.
BookFollowsItems ==
    \A b \in DOMAIN books \ torn :
        StatusesOf(items, b) \intersect Open = {} => books[b] \in Finished(items, b)

\* What the comment of BookItemServiceImpl.java:858 says the time processing is
\* for: the item before is moved out for a cancelled item, so the items of one
\* booking that hold a room never overlap in it.
OneBookingKeepsApart ==
    \A i, j \in Blocks(items) :
        i # j /\ items[i].book = items[j].book /\ SameRoom(items[i], items[j])
            => ~Overlap(items[i], items[j])
=============================================================================
