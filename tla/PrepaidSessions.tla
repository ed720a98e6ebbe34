--------------------------- MODULE PrepaidSessions ---------------------------
(***************************************************************************)
(* The requests of PrepaidLedger when they overlap.  A request reads its   *)
(* rows into a Hibernate session that stays open until it is over          *)
(* (OpenSessionInView for a web request, OpenSessionQuartzJobBean for the  *)
(* job), computes on what it read, and writes whole rows back when its     *)
(* service call commits.  There is no version column and nothing locks a   *)
(* row that is only read.  What the database and Hibernate do refuse is a  *)
(* write to a row that is gone, and a row left referring to nothing.       *)
(***************************************************************************)
EXTENDS PrepaidTables, Sequences

CONSTANTS
    Requests,   \* each is handled once
    Starts,     \* the databases they find
    Types, Amounts, Remains, MaxDay,   \* as in PrepaidLedger
    Today

Days == 0..MaxDay

ASSUME SessionsAssumption ==
    /\ Types \subseteq PrepaidTypes
    /\ Amounts \subseteq Nat \ {0}
    /\ Remains \subseteq Nat
    /\ MaxDay \in Nat
    /\ Today \in Days

\* Any databases that requests handled one at a time leave: these are
\* invariants of PrepaidLedger.
ASSUME StartsAssumption ==
    /\ Starts \subseteq Database
    /\ \A d \in Starts : /\ RowsRefer(d) /\ SumsAgree(d) /\ NothingNegative(d)
                         /\ PaymentsWithinItems(d) /\ VouchersSingle(d) /\ VouchersInStep(d)

VARIABLES
    db,         \* what is committed
    granted,    \* history, as in PrepaidLedger
    phase,      \* of each request
    held,       \* the rows in its session, as it last knew them stored
    todo,       \* the commits it has yet to make
    stale,      \* history: the rows of it that others have written since
    overwrote,  \* history: a commit wrote over such a row
    torn,       \* history: a request stopped after the first of its commits
    refunds     \* history: how often the sale was refunded

vars == <<db, granted, phase, held, todo, stale, overwrote, torn, refunds>>

\* The same tables, one request at a time.
Ledger == INSTANCE PrepaidLedger WITH today <- Today

Init ==
    /\ db \in Starts
    /\ granted = [t \in PttIds |->
         IF t \in Live(db.ptt) THEN db.ptt[t].remain + Total(DrawnOn(db, t), NSales) ELSE 0]
    /\ phase = [c \in Requests |-> "waiting"]
    /\ held = [c \in Requests |-> EmptyDatabase]
    /\ todo = [c \in Requests |-> <<>>]
    /\ stale = [c \in Requests |-> {}]
    /\ overwrote = FALSE
    /\ torn = FALSE
    /\ refunds = [s \in SaleIds |-> 0]

\* One commit: the session's rows after it, the rows it stamps with
\* lastUpdated and so writes even if nothing else changed, and what staff said.
Write(d, ps, ts, g) == [db |-> d, ps |-> ps, ts |-> ts, granted |-> g]

Begin(c, writes) ==
    /\ phase[c] = "waiting"
    /\ phase' = [phase EXCEPT ![c] = "running"]
    /\ held' = [held EXCEPT ![c] = db]
    /\ todo' = [todo EXCEPT ![c] = writes]
    /\ UNCHANGED <<db, granted, stale, overwrote, torn, refunds>>

\* Ids come from auto-increment columns: greater than any that is stored or
\* that a request still knows of.
IsKnown(table, i) ==
    \/ i \in Live(db[table])
    \/ \E c \in Requests : \/ i \in Live(held[c][table])
                          \/ \E k \in DOMAIN todo[c] : i \in Live(todo[c][k].db[table])

IsFresh(table, i) ==
    LET known == {j \in DOMAIN db[table] : IsKnown(table, j)}
    IN  /\ \A j \in known : j < i
        /\ i = 1 \/ i - 1 \in known

-----------------------------------------------------------------------------
AddPrepaid(c, p, t, type, v, date, expiry) ==
    /\ IsFresh("prepaid", p) /\ IsFresh("ptt", t)
    /\ date <= expiry
    /\ Begin(c, <<Write(AddPrepaidDb(db, p, t, type, v, date, expiry), {}, {},
                        [granted EXCEPT ![t] = InitValue(type, v)])>>)

\* Mutant of TopUp: also for vouchers.
TopUpAny(c, p, t, v, date, expiry) ==
    /\ p \in Live(db.prepaid)
    /\ IsFresh("ptt", t)
    /\ date <= expiry
    /\ LET carried == {u \in PttsOf(db, p) : db.ptt[u].active /\ db.ptt[u].remain > 0}
       IN  Begin(c, <<Write(TopUpDb(db, p, t, v, date, expiry), {}, carried,
                            [granted EXCEPT ![t] = v])>>)

TopUp(c, p, t, v, date, expiry) ==
    /\ p \in Live(db.prepaid)
    /\ db.prepaid[p].type \notin VoucherTypes
    /\ IsFresh("ptt", t)
    /\ date <= expiry
    /\ LET carried == {u \in PttsOf(db, p) : db.ptt[u].active /\ db.ptt[u].remain > 0}
       IN  Begin(c, <<Write(TopUpDb(db, p, t, v, date, expiry), {}, carried,
                            [granted EXCEPT ![t] = v])>>)

EditPrepaid(c, p, t, v, r, active, date, expiry) ==
    /\ p \in Live(db.prepaid)
    /\ PttsOf(db, p) = {t}
    /\ date <= expiry
    /\ Begin(c, <<Write(EditPrepaidDb(db, p, t, v, r, active, date, expiry), {p}, {t},
                        [granted EXCEPT ![t] = r + Total(DrawnOn(db, t), NSales)])>>)

EditTopUp(c, t, v, r, active, date, expiry) ==
    /\ t \in Live(db.ptt)
    /\ ~db.ptt[t].root
    /\ date <= expiry
    /\ Begin(c, <<Write(EditTopUpDb(db, t, v, r, active, date, expiry), {}, {t},
                        [granted EXCEPT ![t] = r + Total(DrawnOn(db, t), NSales)])>>)

Forgotten(ts) == [t \in PttIds |-> IF t \in ts THEN 0 ELSE granted[t]]

\* The controller looks for payments, then calls the service.
DeletePrepaid(c, p) ==
    /\ p \in Live(db.prepaid)
    /\ ~IsUsedPrepaid(db, p)
    /\ Begin(c, <<Write(DeletePrepaidDb(db, p), {}, {}, Forgotten(PttsOf(db, p)))>>)

DeleteTopUp(c, t) ==
    /\ t \in Live(db.ptt)
    /\ ~db.ptt[t].root
    /\ ~IsUsedSinceSold(db, t)
    /\ Begin(c, <<Write(DeleteTopUpDb(db, t), {}, {}, Forgotten({t}))>>)

CheckOut(c, p, s, qty) ==
    /\ p \in Live(db.prepaid)
    /\ IsFresh("sale", s)
    /\ Begin(c, <<Write(CheckOutDb(db, p, s, Today, qty), {}, {}, granted)>>)

RemoveSale(c, s) ==
    /\ s \in Live(db.sale)
    /\ Begin(c, <<Write(RemoveSaleDb(db, s), {}, {}, granted)>>)

RemoveOrder(c, t) ==
    /\ t \in Live(db.ptt)
    /\ ~IsUsedSinceSold(db, t)
    /\ LET p == db.ptt[t].prepaid
       IN  \/ /\ t \in FirstPtts(db, p)
              /\ Begin(c, <<Write(DeletePrepaidDb(db, p), {}, {}, Forgotten(PttsOf(db, p)))>>)
           \/ /\ \E u \in FirstPtts(db, p) : u # t
              /\ Begin(c, <<Write(DeleteTopUpDb(db, t), {}, {}, Forgotten({t}))>>)

\* The job saves the transaction and, for a voucher still active, the prepaid:
\* two service calls, two commits.
Expire(c, t) ==
    /\ t \in Live(db.ptt)
    /\ db.ptt[t].active
    /\ db.ptt[t].expiry < Today
    /\ LET retired == [db EXCEPT !.ptt[t].active = FALSE]
           closed  == ExpireDb(db, t)
       IN  Begin(c, <<Write(retired, {}, {}, granted)>>
                    \o IF closed = retired THEN <<>> ELSE <<Write(closed, {}, {}, granted)>>)

-----------------------------------------------------------------------------
\* Mutant of WrittenPrepaids: a changed balance is not noticed.
WrittenPrepaidsStamped(c) == Head(todo[c]).ps

WrittenPrepaids(c) ==
    LET w == Head(todo[c])
    IN  w.ps \union {p \in PrepaidIds : w.db.prepaid[p] # held[c].prepaid[p]}

WrittenPtts(c) ==
    LET w == Head(todo[c])
    IN  w.ts \union {t \in PttIds : w.db.ptt[t] # held[c].ptt[t]}

WrittenSales(c) == {s \in SaleIds : Head(todo[c]).db.sale[s] # held[c].sale[s]}

\* Mutant of RowsPresent: a row that is gone is not missed.
RowsPresentUnchecked(c) == todo[c] # <<>>

\* An update or a delete of a row that is gone fails the transaction.
RowsPresent(c) ==
    /\ WrittenPrepaids(c) \intersect Live(held[c].prepaid) \subseteq Live(db.prepaid)
    /\ WrittenPtts(c) \intersect Live(held[c].ptt) \subseteq Live(db.ptt)
    /\ WrittenSales(c) \intersect Live(held[c].sale) \subseteq Live(db.sale)

\* Mutant of ForeignKeys: none on payments.
ForeignKeysOfPtts(d) == \A t \in Live(d.ptt) : d.ptt[t].prepaid \in Live(d.prepaid)

ForeignKeys(d) ==
    /\ PaymentsRefer(d)
    /\ \A t \in Live(d.ptt) : d.ptt[t].prepaid \in Live(d.prepaid)

Over(c) == [phase EXCEPT ![c] = "over"]
Forget(c) ==
    /\ held' = [held EXCEPT ![c] = EmptyDatabase]
    /\ todo' = [todo EXCEPT ![c] = <<>>]

WrittenRows(c) == ({"prepaid"} \X WrittenPrepaids(c)) \union ({"ptt"} \X WrittenPtts(c))

\* The rows written replace the rows stored, whatever happened to them since.
Commit(c) ==
    /\ todo[c] # <<>>
    /\ RowsPresent(c)
    /\ LET w == Head(todo[c])
       IN  /\ db' = [prepaid |-> [p \in PrepaidIds |->
                                    IF p \in WrittenPrepaids(c) THEN w.db.prepaid[p]
                                    ELSE db.prepaid[p]],
                     ptt     |-> [t \in PttIds |->
                                    IF t \in WrittenPtts(c) THEN w.db.ptt[t] ELSE db.ptt[t]],
                     sale    |-> [s \in SaleIds |->
                                    IF s \in WrittenSales(c) THEN w.db.sale[s] ELSE db.sale[s]]]
           /\ granted' = [t \in PttIds |->
                            IF t \in WrittenPtts(c) THEN w.granted[t] ELSE granted[t]]
           /\ IF Len(todo[c]) = 1
              THEN phase' = Over(c) /\ Forget(c)
              ELSE /\ phase' = [phase EXCEPT ![c] = "half"]
                   /\ held' = [held EXCEPT ![c] = w.db]
                   /\ todo' = [todo EXCEPT ![c] = Tail(@)]
    /\ ForeignKeys(db')
    /\ overwrote' = (overwrote \/ WrittenRows(c) \intersect stale[c] # {})
    /\ stale' = [r \in Requests |->
         IF phase'[r] \notin {"running", "half"} THEN {}
         ELSE IF r = c THEN stale[c] \ WrittenRows(c)
         ELSE stale[r] \union WrittenRows(c)]
    /\ refunds' = [s \in SaleIds |->
         IF s \notin WrittenSales(c) THEN refunds[s]
         ELSE IF db'.sale[s] = NoRow THEN refunds[s] + 1 ELSE 0]
    /\ UNCHANGED torn

\* Rolled back, by the database, by an exception or because the server stopped.
Fail(c) ==
    /\ todo[c] # <<>>
    /\ phase' = Over(c) /\ Forget(c)
    /\ torn' = (torn \/ phase[c] = "half")
    /\ stale' = [stale EXCEPT ![c] = {}]
    /\ UNCHANGED <<db, granted, overwrote, refunds>>

Done == (\A c \in Requests : phase[c] = "over") /\ UNCHANGED vars

Next ==
    \/ \E c \in Requests :
         \/ \E p \in PrepaidIds, t \in PttIds, type \in Types, v \in Amounts,
               date \in Days, expiry \in Days : AddPrepaid(c, p, t, type, v, date, expiry)
         \/ \E p \in PrepaidIds, t \in PttIds, v \in Amounts, date \in Days, expiry \in Days :
               TopUp(c, p, t, v, date, expiry)
         \/ \E p \in PrepaidIds, t \in PttIds, v \in Amounts, r \in Remains, active \in BOOLEAN,
               date \in Days, expiry \in Days :
               EditPrepaid(c, p, t, v, r, active, date, expiry)
         \/ \E t \in PttIds, v \in Amounts, r \in Remains, active \in BOOLEAN,
               date \in Days, expiry \in Days : EditTopUp(c, t, v, r, active, date, expiry)
         \/ \E p \in PrepaidIds : DeletePrepaid(c, p)
         \/ \E t \in PttIds : DeleteTopUp(c, t)
         \/ \E p \in PrepaidIds, s \in SaleIds, qty \in Amounts : CheckOut(c, p, s, qty)
         \/ \E s \in SaleIds : RemoveSale(c, s)
         \/ \E t \in PttIds : RemoveOrder(c, t)
         \/ \E t \in PttIds : Expire(c, t)
         \/ Commit(c)
         \/ Fail(c)
    \/ Done

Spec == Init /\ [][Next]_vars

-----------------------------------------------------------------------------
(***************************************************************************)
(* Properties                                                              *)
(***************************************************************************)
\* Balances can only go wrong through a commit that wrote over a row changed
\* since it was read: a check of the row's version at that one place would
\* keep every balance equal to its parts, and every amount of cash accounted
\* for, whatever overlaps and whichever request fails.
RightUnlessOverwritten ==
    ~overwrote => SumsAgree(db) /\ CashAdds(db, granted) /\ NothingNegative(db)

\* A sale is refunded at most once, even if two requests delete its order.
RefundedOnce == \A s \in SaleIds : refunds[s] <= 1

\* However requests overlap, no transaction is taken below zero: each draws on
\* what it read, and that was a balance some request left.
NoPttOverdrawn == \A t \in Live(db.ptt) : db.ptt[t].remain >= 0

\* A transaction found unused and then deleted is not one that a checkout has
\* redeemed in between, nor is a deleted prepaid topped up.
StoredRowsRefer == RowsRefer(db)

\* A request that nobody interferes with takes the step the ledger takes.
AloneIsLedger ==
    [][\A c \in Requests :
         /\ phase[c] = "running" /\ Len(todo[c]) = 1
         /\ held[c] = db /\ stale[c] = {}
         /\ phase'[c] = "over" /\ db' # db
         => Ledger!Next]_vars

\* A voucher and its transaction part only while the job is between its two
\* commits, or because it never made the second, or by an overwrite.
VoucherInStepUnlessTorn ==
    VouchersInStep(db) \/ overwrote \/ torn \/ \E c \in Requests : phase[c] = "half"
=============================================================================
