---------------------------- MODULE LoyaltyPoints ----------------------------
(***************************************************************************)
(* The loyalty points of one member: one record per order that earned      *)
(* them, spent oldest first on awards.  Orders are saved, saved again and  *)
(* deleted one at a time; requests that redeem an award overlap with them  *)
(* and with each other: such a request checks the code its page carries,   *)
(* takes the code away, reads the records, and later writes back whole     *)
(* every record it went through.                                           *)
(*                                                                         *)
(* Expiry is a day: points earned on a day are good for LifeTime days.     *)
(***************************************************************************)
EXTENDS Totals

CONSTANTS
    NRows, NOrders, \* bounds on the ids of records and orders
    NPages,         \* bound on the award pages opened
    Requests,       \* requests that redeem an award
    Sessions,       \* the member's logged-in browsers
    Worths,         \* points an order earns
    Prices,         \* points an award costs
    LifeTime,       \* days until points expire
    MaxDay,         \* the days are 0 .. MaxDay
    NoRow

RowIds   == 1..NRows
OrderIds == 1..NOrders
Days     == 0..MaxDay

Row == [order : OrderIds, active : BOOLEAN, earn : Nat, redeemed : Nat,
        date : Days, expiry : Nat]

ASSUME LoyaltyAssumption ==
    /\ NRows \in Nat /\ NOrders \in Nat /\ NPages \in Nat /\ MaxDay \in Nat
    /\ Worths \subseteq Nat /\ Prices \subseteq Nat /\ LifeTime \in Nat
    /\ NoRow \notin Row

VARIABLES
    rows,       \* the records
    orders,     \* the orders that exist
    today,
    code,       \* code[s]: the session s holds the code of its last page
    req,        \* where each request is, and what it read
    opened,     \* history: award pages opened so far
    awards,     \* history: vouchers given out
    paid,       \* history: points the vouchers cost, less those whose record
                \* was started over or deleted since
    overwrote,  \* history: a commit wrote over a record changed since its read
    raced       \* history: two requests passed the check on one code

vars == <<rows, orders, today, code, req, opened, awards, paid, overwrote, raced>>

Idle == [state |-> "idle"]

Init ==
    /\ rows = [i \in RowIds |-> NoRow]
    /\ orders = {}
    /\ today = 0
    /\ code = [s \in Sessions |-> FALSE]
    /\ req = [r \in Requests |-> Idle]
    /\ opened = 0 /\ awards = 0 /\ paid = 0
    /\ overwrote = FALSE /\ raced = FALSE

-----------------------------------------------------------------------------
Live(table) == {i \in RowIds : table[i] # NoRow}

\* No request still knows a record under this id.
IsFresh(i) ==
    /\ \A j \in Live(rows) : j < i
    /\ \A r \in Requests : req[r].state = "read" => i \notin Live(req[r].base)

Remaining(row) == row.earn - row.redeemed

Usable(table, day) == {i \in Live(table) : table[i].active /\ table[i].expiry > day}

\* earnDate ascending; the base DAO's list() appends id descending.
IsAhead(table, i, j) ==
    \/ table[i].date < table[j].date
    \/ table[i].date = table[j].date /\ i > j

RemainLoyaltyPoints(table, day) ==
    Total([i \in RowIds |-> IF i \in Usable(table, day) THEN Remaining(table[i]) ELSE 0],
          NRows)

\* Mutant of Open: records in the order they were entered.
OpenById(table, day, price, i) ==
    price - Total([j \in RowIds |-> IF j \in Usable(table, day) /\ j < i
                                    THEN Remaining(table[j]) ELSE 0], NRows)

\* What is still to be taken when the loop comes to record i: negative when
\* it stopped before.
Open(table, day, price, i) ==
    price - Total([j \in RowIds |-> IF j \in Usable(table, day) /\ IsAhead(table, j, i)
                                    THEN Remaining(table[j]) ELSE 0], NRows)

Visited(table, day, price) ==
    {i \in Usable(table, day) : Open(table, day, price, i) >= 0}

\* Mutant of Spent: what was taken before is forgotten.
SpentAfresh(table, day, price, i) ==
    LET open == Open(table, day, price, i)
    IN  IF open >= Remaining(table[i])
        THEN [table[i] EXCEPT !.redeemed = table[i].earn, !.active = FALSE]
        ELSE [table[i] EXCEPT !.redeemed = open]

\* Record i after the loop went through it.
Spent(table, day, price, i) ==
    LET open == Open(table, day, price, i)
    IN  IF open >= Remaining(table[i])
        THEN [table[i] EXCEPT !.redeemed = table[i].earn, !.active = FALSE]
        ELSE [table[i] EXCEPT !.redeemed = @ + open]

RowsOf(o) == {i \in Live(rows) : rows[i].order = o}

ActiveRowsOf(o) == {i \in RowsOf(o) : rows[i].active}

\* The active record of the order that the lookup returns first.
FirstRow(o) ==
    {i \in ActiveRowsOf(o) : \A j \in ActiveRowsOf(o) : j = i \/ IsAhead(rows, i, j)}

Earned(o, v, date) ==
    [order |-> o, active |-> TRUE, earn |-> v, redeemed |-> 0,
     date |-> date, expiry |-> date + LifeTime]

-----------------------------------------------------------------------------
\* An order is saved and earns its points.
Earn(o, i, v, date) ==
    /\ o \notin orders /\ \A p \in orders : p < o
    /\ IsFresh(i)
    /\ date <= today
    /\ orders' = orders \union {o}
    /\ rows' = [rows EXCEPT ![i] = Earned(o, v, date)]
    /\ UNCHANGED <<today, code, req, opened, awards, paid, overwrote, raced>>

\* An order is saved again (a prepaid is edited, an order of the app is paid):
\* its active record starts over,
EarnAgain(o, i, v, date) ==
    /\ o \in orders
    /\ i \in FirstRow(o)
    /\ date <= today
    /\ rows' = [rows EXCEPT ![i] = Earned(o, v, date)]
    /\ paid' = paid - rows[i].redeemed
    /\ UNCHANGED <<orders, today, code, req, opened, awards, overwrote, raced>>

\* Mutant of EarnAnew: saving again always adds a record.
EarnAnewAlways(o, i, v, date) ==
    /\ o \in orders
    /\ IsFresh(i)
    /\ date <= today
    /\ rows' = [rows EXCEPT ![i] = Earned(o, v, date)]
    /\ UNCHANGED <<orders, today, code, req, opened, awards, paid, overwrote, raced>>

\* and where none is active it gets a new one.
EarnAnew(o, i, v, date) ==
    /\ o \in orders
    /\ FirstRow(o) = {}
    /\ IsFresh(i)
    /\ date <= today
    /\ rows' = [rows EXCEPT ![i] = Earned(o, v, date)]
    /\ UNCHANGED <<orders, today, code, req, opened, awards, paid, overwrote, raced>>

\* Deleting an order deletes its records, spent or not.
RemoveOrder(o) ==
    /\ o \in orders
    /\ orders' = orders \ {o}
    /\ rows' = [i \in RowIds |-> IF i \in RowsOf(o) THEN NoRow ELSE rows[i]]
    /\ paid' = paid - Total([i \in RowIds |-> IF i \in RowsOf(o)
                                              THEN rows[i].redeemed ELSE 0], NRows)
    /\ UNCHANGED <<today, code, req, opened, awards, overwrote, raced>>

-----------------------------------------------------------------------------
\* The page of awards puts a new code into the session and into its forms.
ToMyLoyalty(s) ==
    /\ opened < NPages
    /\ opened' = opened + 1
    /\ code' = [code EXCEPT ![s] = TRUE]
    /\ UNCHANGED <<rows, orders, today, req, awards, paid, overwrote, raced>>

\* A click on an award of that page: the code of the form is the session's.
\* (A request with any other code changes nothing.)
CheckCode(r, s, price) ==
    /\ req[r].state = "idle"
    /\ code[s]
    /\ req' = [req EXCEPT ![r] = [state |-> "checked", session |-> s, price |-> price]]
    /\ raced' = (raced \/ \E q \in Requests : req[q].state = "checked" /\ req[q].session = s)
    /\ UNCHANGED <<rows, orders, today, code, opened, awards, paid, overwrote>>

\* Mutant of Redeem: the code stays.
RedeemKeepsCode(r) ==
    /\ req[r].state = "checked"
    /\ code' = code
    /\ req' = [req EXCEPT ![r] =
         LET remain == RemainLoyaltyPoints(rows, today)
         IN  IF req[r].price <= remain /\ remain > 0
             THEN [state |-> "read", base |-> rows, day |-> today, price |-> req[r].price]
             ELSE Idle]
    /\ UNCHANGED <<rows, orders, today, opened, awards, paid, overwrote, raced>>

\* The code is taken out of the session and the transaction begins.  Without
\* enough points there is no voucher, and the method fails on it.
Redeem(r) ==
    /\ req[r].state = "checked"
    /\ code' = [code EXCEPT ![req[r].session] = FALSE]
    /\ req' = [req EXCEPT ![r] =
         LET remain == RemainLoyaltyPoints(rows, today)
         IN  IF req[r].price <= remain /\ remain > 0
             THEN [state |-> "read", base |-> rows, day |-> today, price |-> req[r].price]
             ELSE Idle]
    /\ UNCHANGED <<rows, orders, today, opened, awards, paid, overwrote, raced>>

\* The records it went through are written whole; one that is gone by then
\* fails the commit.
Commit(r) ==
    /\ req[r].state = "read"
    /\ LET base == req[r].base
           seen == Visited(base, req[r].day, req[r].price)
       IN  /\ seen \subseteq Live(rows)
           /\ rows' = [i \in RowIds |-> IF i \in seen
                                        THEN Spent(base, req[r].day, req[r].price, i)
                                        ELSE rows[i]]
           /\ overwrote' = (overwrote \/ \E i \in seen : rows[i] # base[i])
    /\ awards' = awards + 1
    /\ paid' = paid + req[r].price
    /\ req' = [req EXCEPT ![r] = Idle]
    /\ UNCHANGED <<orders, today, code, opened, raced>>

\* An award of goods, a failed mail or shop lookup, a lost connection.
Fail(r) ==
    /\ req[r].state = "read"
    /\ req' = [req EXCEPT ![r] = Idle]
    /\ UNCHANGED <<rows, orders, today, code, opened, awards, paid, overwrote, raced>>

NextDay ==
    /\ today < MaxDay
    /\ today' = today + 1
    /\ UNCHANGED <<rows, orders, code, req, opened, awards, paid, overwrote, raced>>

Next ==
    \/ \E o \in OrderIds, i \in RowIds, v \in Worths, date \in Days : Earn(o, i, v, date)
    \/ \E o \in OrderIds, i \in RowIds, v \in Worths, date \in Days : EarnAgain(o, i, v, date)
    \/ \E o \in OrderIds, i \in RowIds, v \in Worths, date \in Days : EarnAnew(o, i, v, date)
    \/ \E o \in OrderIds : RemoveOrder(o)
    \/ \E s \in Sessions : ToMyLoyalty(s)
    \/ \E r \in Requests, s \in Sessions, price \in Prices : CheckCode(r, s, price)
    \/ \E r \in Requests : Redeem(r)
    \/ \E r \in Requests : Commit(r)
    \/ \E r \in Requests : Fail(r)
    \/ NextDay

Spec == Init /\ [][Next]_vars

-----------------------------------------------------------------------------
(***************************************************************************)
(* Properties                                                              *)
(***************************************************************************)
TypeOK ==
    /\ rows \in [RowIds -> Row \union {NoRow}]
    /\ orders \subseteq OrderIds
    /\ today \in Days
    /\ code \in [Sessions -> BOOLEAN]
    /\ opened \in Nat /\ awards \in Nat /\ paid \in Int
    /\ overwrote \in BOOLEAN /\ raced \in BOOLEAN

\* Every point a voucher cost is on a record as redeemed, once, until saving
\* the order again or deleting it forgets it: only a commit over a record
\* that was changed since its read can give a voucher for nothing.
PointsAccounted ==
    ~overwrote =>
        paid = Total([i \in RowIds |-> IF i \in Live(rows) THEN rows[i].redeemed ELSE 0],
                     NRows)

\* An order has one record with points left to spend, however often it is
\* saved, redeemed from and saved again, unless a commit overwrote a record.
OneActiveRecord ==
    ~overwrote => \A o \in OrderIds : \A i, j \in ActiveRowsOf(o) : i = j

\* A page gives one award, unless two clicks passed the check together: the
\* code is looked at in one step and taken away in another.
OneAwardPerPage == ~raced => awards <= opened

\* An award is paid from the oldest points the member had when the request
\* read them: a record is only touched when every older usable one is used up.
OldestPointsFirst ==
    [][awards' > awards =>
         \E r \in Requests :
           /\ req[r].state = "read" /\ req'[r] = Idle
           /\ \A i, j \in RowIds :
                /\ i \in Usable(req[r].base, req[r].day)
                /\ j \in Usable(req[r].base, req[r].day)
                /\ IsAhead(req[r].base, i, j)
                /\ rows'[j] # rows[j]
                => Remaining(rows'[i]) = 0]_vars
=============================================================================
