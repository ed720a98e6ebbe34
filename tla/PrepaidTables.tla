---------------------------- MODULE PrepaidTables ----------------------------
(***************************************************************************)
(* The three tables behind a prepaid package or voucher, and what each     *)
(* service method of PrepaidServiceImpl and PurchaseOrderServiceImpl       *)
(* writes to them.  A method is an operator from the database it reads to  *)
(* the database it leaves; PrepaidLedger runs the methods one at a time,   *)
(* PrepaidSessions runs them in overlapping transactions.                  *)
(*                                                                         *)
(*   prepaid  the package or voucher a member holds                        *)
(*   ptt      its top-up transactions, one per purchase, oldest first      *)
(*   sale     purchase orders paid (partly) by a prepaid: one item each,   *)
(*            with the payments that redeem top-up transactions            *)
(*                                                                         *)
(* The order that sold a top-up transaction is created and deleted with it *)
(* and carries nothing else the properties need: it is not a row.          *)
(* prepaidValue / topUpValue follow initValue / topUpInitValue assignment  *)
(* by assignment and are left out; money is in whole units.                *)
(***************************************************************************)
EXTENDS Totals

CONSTANTS
    NPrepaids, NPtts, NSales,   \* bounds on the ids of the three tables
    NoRow                       \* what a table holds where there is no row

PrepaidIds == 1..NPrepaids
PttIds     == 1..NPtts
SaleIds    == 1..NSales

CashTypes    == {"CASH_PACKAGE", "CASH_VOUCHER"}
VoucherTypes == {"CASH_VOUCHER", "TREATMENT_VOUCHER"}
PrepaidTypes == {"CASH_PACKAGE", "CASH_VOUCHER", "TREATMENT_PACKAGE", "TREATMENT_VOUCHER"}

PrepaidRow == [type : PrepaidTypes, active : BOOLEAN, init : Int, remain : Int]

PttRow == [prepaid : PrepaidIds, root : BOOLEAN, active : BOOLEAN,
           date : Nat, expiry : Nat, init : Int, remain : Int]

\* drawn[t] is the amount, or the units, the payment redeeming t stands for
\* (0: no such payment); due is the part of the item left to other payments.
SaleRow == [prepaid : PrepaidIds, created : Nat, qty : Nat, drawn : [PttIds -> Nat],
            due : Int]

Database == [prepaid : [PrepaidIds -> PrepaidRow \union {NoRow}],
             ptt     : [PttIds -> PttRow \union {NoRow}],
             sale    : [SaleIds -> SaleRow \union {NoRow}]]

ASSUME TablesAssumption ==
    /\ NPrepaids \in Nat /\ NPtts \in Nat /\ NSales \in Nat
    /\ NoRow \notin PrepaidRow
    /\ NoRow \notin PttRow
    /\ NoRow \notin SaleRow

EmptyDatabase == [prepaid |-> [p \in PrepaidIds |-> NoRow],
                  ptt     |-> [t \in PttIds |-> NoRow],
                  sale    |-> [s \in SaleIds |-> NoRow]]

Live(table) == {i \in DOMAIN table : table[i] # NoRow}

\* Ids grow: a new row comes after every live one.
IsNextId(table, i) == \A j \in Live(table) : j < i

-----------------------------------------------------------------------------
PttsOf(db, p) == {t \in Live(db.ptt) : db.ptt[t].prepaid = p}

\* Payments before `date` do not count: an edit form may have moved the date of a
\* transaction past them.
IsUsed(db, t, date) ==
    \E s \in Live(db.sale) : db.sale[s].drawn[t] > 0 /\ db.sale[s].created >= date

IsUsedSinceSold(db, t) == IsUsed(db, t, db.ptt[t].date)

\* Hibernate orders a prepaid's transactions by topUpDate only.
FirstPtts(db, p) ==
    {t \in PttsOf(db, p) : \A u \in PttsOf(db, p) : db.ptt[t].date <= db.ptt[u].date}

\* The transactions of a prepaid are all looked up from the date of its first.
IsUsedPrepaid(db, p) ==
    \E t \in PttsOf(db, p), u \in FirstPtts(db, p) : IsUsed(db, t, db.ptt[u].date)

IsUsable(db, p, today, t) ==
    /\ t \in PttsOf(db, p)
    /\ db.ptt[t].active
    /\ db.ptt[t].expiry >= today
    /\ db.ptt[t].remain > 0

\* topUpDate ascending; the base DAO's list() appends id descending.
IsAhead(db, u, t) ==
    \/ db.ptt[u].date < db.ptt[t].date
    \/ db.ptt[u].date = db.ptt[t].date /\ u > t

UsableAhead(db, p, today, t) ==
    [u \in PttIds |-> IF IsUsable(db, p, today, u) /\ IsAhead(db, u, t)
                      THEN db.ptt[u].remain ELSE 0]

\* Mutants of Draws.  The loop goes on when the item is covered:
DrawsOn(db, p, today, qty) ==
    [t \in PttIds |->
        LET open == qty - Total(UsableAhead(db, p, today, t), NPtts)
        IN  IF ~IsUsable(db, p, today, t) THEN 0
            ELSE IF open <= db.ptt[t].remain THEN open
            ELSE db.ptt[t].remain]

\* the first transaction pays for all of it:
DrawsWhole(db, p, today, qty) ==
    [t \in PttIds |->
        IF IsUsable(db, p, today, t) /\ Total(UsableAhead(db, p, today, t), NPtts) = 0
        THEN qty ELSE 0]

\* lowest id first, whatever the purchase dates:
DrawsById(db, p, today, qty) ==
    [t \in PttIds |->
        LET ahead == [u \in PttIds |-> IF IsUsable(db, p, today, u) /\ u < t
                                        THEN db.ptt[u].remain ELSE 0]
            open == qty - Total(ahead, NPtts)
        IN  IF ~IsUsable(db, p, today, t) \/ open <= 0 THEN 0
            ELSE IF open <= db.ptt[t].remain THEN open
            ELSE db.ptt[t].remain]

\* What the redemption loop takes from each transaction to pay for qty: each
\* gives what it has until the ones ahead of it have covered the item.
Draws(db, p, today, qty) ==
    [t \in PttIds |->
        LET open == qty - Total(UsableAhead(db, p, today, t), NPtts)
        IN  IF ~IsUsable(db, p, today, t) \/ open <= 0 THEN 0
            ELSE IF open <= db.ptt[t].remain THEN open
            ELSE db.ptt[t].remain]

-----------------------------------------------------------------------------
NewPtt(p, root, v, date, expiry) ==
    [prepaid |-> p, root |-> root, active |-> TRUE,
     date |-> date, expiry |-> expiry, init |-> v, remain |-> v]

\* A treatment voucher is good for one treatment, whatever was entered.
InitValue(type, v) == IF type = "TREATMENT_VOUCHER" THEN 1 ELSE v

\* The row of a prepaid with i and r added to its amounts.
Booked(row, i, r) ==
    [type |-> row.type, active |-> row.active, init |-> row.init + i, remain |-> row.remain + r]

AddPrepaidDb(db, p, t, type, v, date, expiry) ==
    LET init == InitValue(type, v)
    IN  [prepaid |-> [db.prepaid EXCEPT
                        ![p] = [type |-> type, active |-> TRUE, init |-> init, remain |-> init]],
         ptt     |-> [db.ptt EXCEPT ![t] = NewPtt(p, TRUE, init, date, expiry)],
         sale    |-> db.sale]

\* A top-up also carries the open balance of the package to the new expiry.
TopUpDb(db, p, t, v, date, expiry) ==
    [prepaid |-> [db.prepaid EXCEPT ![p] = Booked(@, v, v)],
     ptt     |-> [u \in PttIds |->
                    IF u = t THEN NewPtt(p, FALSE, v, date, expiry)
                    ELSE IF u \in PttsOf(db, p) /\ db.ptt[u].active /\ db.ptt[u].remain > 0
                         THEN [db.ptt[u] EXCEPT !.expiry = expiry]
                         ELSE db.ptt[u]],
     sale    |-> db.sale]

EditedPtt(row, v, r, active, date, expiry) ==
    [prepaid |-> row.prepaid, root |-> row.root, active |-> active,
     date |-> date, expiry |-> expiry, init |-> v, remain |-> r]

\* The edit form of the prepaid overwrites the balance of the prepaid and of
\* its one transaction with the values of the form.
EditPrepaidDb(db, p, t, v, r, active, date, expiry) ==
    LET init == InitValue(db.prepaid[p].type, v)
    IN  [prepaid |-> [db.prepaid EXCEPT
                        ![p] = [type |-> @.type, active |-> active, init |-> init, remain |-> r]],
         ptt     |-> [db.ptt EXCEPT ![t] = EditedPtt(@, init, r, active, date, expiry)],
         sale    |-> db.sale]

EditTopUpDb(db, t, v, r, active, date, expiry) ==
    LET old == db.ptt[t]
    IN  [prepaid |-> [db.prepaid EXCEPT
                        ![old.prepaid] = Booked(@, v - old.init, r - old.remain)],
         ptt     |-> [db.ptt EXCEPT ![t] = EditedPtt(@, v, r, active, date, expiry)],
         sale    |-> db.sale]

\* Mutant of DeleteTopUpDb: takes the initial value off both amounts.
DeleteTopUpDbByInit(db, t) ==
    LET old == db.ptt[t]
    IN  [prepaid |-> [db.prepaid EXCEPT ![old.prepaid] = Booked(@, -old.init, -old.init)],
         ptt     |-> [db.ptt EXCEPT ![t] = NoRow],
         sale    |-> db.sale]

DeleteTopUpDb(db, t) ==
    LET old == db.ptt[t]
    IN  [prepaid |-> [db.prepaid EXCEPT
                        ![old.prepaid] = Booked(@, -old.init, -old.remain)],
         ptt     |-> [db.ptt EXCEPT ![t] = NoRow],
         sale    |-> db.sale]

\* Mutant of DeletePrepaidDb: leaves the transactions behind.
DeletePrepaidDbAlone(db, p) ==
    [prepaid |-> [db.prepaid EXCEPT ![p] = NoRow], ptt |-> db.ptt, sale |-> db.sale]

DeletePrepaidDb(db, p) ==
    [prepaid |-> [db.prepaid EXCEPT ![p] = NoRow],
     ptt     |-> [t \in PttIds |-> IF t \in PttsOf(db, p) THEN NoRow ELSE db.ptt[t]],
     sale    |-> db.sale]

\* Mutant of CheckOutDb: the prepaid is charged the whole item, also the part
\* its transactions do not cover.
CheckOutDbWhole(db, p, s, today, qty) ==
    LET d    == Draws(db, p, today, qty)
        used == Total(d, NPtts)
        left == db.prepaid[p].remain - qty
    IN  [prepaid |-> [db.prepaid EXCEPT
                        ![p].remain = left,
                        ![p].active = @ /\ ~(left <= 0 /\ db.prepaid[p].type \in VoucherTypes)],
         ptt     |-> [t \in PttIds |->
                        IF d[t] = 0 THEN db.ptt[t]
                        ELSE [db.ptt[t] EXCEPT !.remain = @ - d[t],
                                               !.active = @ /\ db.ptt[t].remain > d[t]]],
         sale    |-> [db.sale EXCEPT
                        ![s] = [prepaid |-> p, created |-> today, qty |-> qty, drawn |-> d,
                                due |-> qty - used]]]

CheckOutDb(db, p, s, today, qty) ==
    LET d    == Draws(db, p, today, qty)
        used == Total(d, NPtts)
        left == db.prepaid[p].remain - used
    IN  [prepaid |-> [db.prepaid EXCEPT
                        ![p].remain = left,
                        ![p].active = @ /\ ~(left <= 0 /\ db.prepaid[p].type \in VoucherTypes)],
         ptt     |-> [t \in PttIds |->
                        IF d[t] = 0 THEN db.ptt[t]
                        ELSE [db.ptt[t] EXCEPT !.remain = @ - d[t],
                                               !.active = @ /\ db.ptt[t].remain > d[t]]],
         sale    |-> [db.sale EXCEPT
                        ![s] = [prepaid |-> p, created |-> today, qty |-> qty, drawn |-> d,
                                due |-> qty - used]]]

\* Mutants of PutBack.  The quantity of the item, for cash too:
PutBackQty(db, s) ==
    [t \in PttIds |-> IF db.sale[s].drawn[t] = 0 THEN 0 ELSE db.sale[s].qty]

\* one treatment for each payment:
PutBackOne(db, s) ==
    [t \in PttIds |->
        IF db.sale[s].drawn[t] = 0 THEN 0
        ELSE IF db.prepaid[db.sale[s].prepaid].type \in CashTypes
             THEN db.sale[s].drawn[t] ELSE 1]

\* What deleting the order puts back: the payment's amount for cash, the
\* item's quantity for treatments.
PutBack(db, s) ==
    [t \in PttIds |->
        IF db.sale[s].drawn[t] = 0 THEN 0
        ELSE IF db.prepaid[db.sale[s].prepaid].type \in CashTypes
             THEN db.sale[s].drawn[t] ELSE db.sale[s].qty]

RemoveSaleDb(db, s) ==
    LET p    == db.sale[s].prepaid
        back == PutBack(db, s)
    IN  [prepaid |-> IF \E t \in PttIds : back[t] > 0
                     THEN [db.prepaid EXCEPT ![p].remain = @ + Total(back, NPtts),
                                             ![p].active = TRUE]
                     ELSE db.prepaid,
         ptt     |-> [t \in PttIds |->
                        IF back[t] = 0 THEN db.ptt[t]
                        ELSE [db.ptt[t] EXCEPT !.remain = @ + back[t], !.active = TRUE]],
         sale    |-> [db.sale EXCEPT ![s] = NoRow]]

\* Mutant of ExpireDb: forgets the voucher.
ExpireDbPttOnly(db, t) ==
    [prepaid |-> db.prepaid, ptt |-> [db.ptt EXCEPT ![t].active = FALSE], sale |-> db.sale]

\* The expiry job: a transaction past its expiry, and a voucher with it.
ExpireDb(db, t) ==
    LET p == db.ptt[t].prepaid
    IN  [prepaid |-> [db.prepaid EXCEPT ![p].active = @ /\ db.prepaid[p].type \notin VoucherTypes],
         ptt     |-> [db.ptt EXCEPT ![t].active = FALSE],
         sale    |-> db.sale]

-----------------------------------------------------------------------------
\* The foreign key of a payment to the transaction it redeems: the database
\* rejects a commit that would leave one dangling.
PaymentsRefer(db) ==
    \A s \in Live(db.sale) : \A t \in PttIds :
        db.sale[s].drawn[t] > 0 => t \in Live(db.ptt)

-----------------------------------------------------------------------------
(***************************************************************************)
(* What the rows say together.  PrepaidLedger and PrepaidSessions state    *)
(* their properties with these.                                            *)
(***************************************************************************)
\* What the live sales have taken from transaction t.
DrawnOn(db, t) == [s \in SaleIds |-> IF s \in Live(db.sale) THEN db.sale[s].drawn[t] ELSE 0]

InitOf(db, p)   == [t \in PttIds |-> IF t \in PttsOf(db, p) THEN db.ptt[t].init ELSE 0]
RemainOf(db, p) == [t \in PttIds |-> IF t \in PttsOf(db, p) THEN db.ptt[t].remain ELSE 0]

\* A transaction refers to a prepaid, a payment to the transaction it redeems,
\* which is one of the prepaid the item was paid with.
RowsRefer(db) ==
    /\ \A t \in Live(db.ptt) : db.ptt[t].prepaid \in Live(db.prepaid)
    /\ \A s \in Live(db.sale), t \in PttIds :
          db.sale[s].drawn[t] > 0 => t \in PttsOf(db, db.sale[s].prepaid)

\* The amounts of a prepaid are the sums of those of its transactions.
SumsAgree(db) ==
    \A p \in Live(db.prepaid) :
        /\ db.prepaid[p].init = Total(InitOf(db, p), NPtts)
        /\ db.prepaid[p].remain = Total(RemainOf(db, p), NPtts)

NothingNegative(db) ==
    /\ \A p \in Live(db.prepaid) : db.prepaid[p].remain >= 0
    /\ \A t \in Live(db.ptt) : db.ptt[t].remain >= 0
    /\ \A s \in Live(db.sale) : db.sale[s].due >= 0

\* A payment never stands for more than its item.
PaymentsWithinItems(db) ==
    \A s \in Live(db.sale), t \in PttIds : db.sale[s].drawn[t] <= db.sale[s].qty

\* What is left on a transaction and what was drawn from it are together at
\* least what was granted,
GrantsKept(db, granted) ==
    \A t \in Live(db.ptt) :
        db.ptt[t].remain + Total(DrawnOn(db, t), NSales) >= granted[t]

\* and for cash no more.
CashAdds(db, granted) ==
    \A t \in Live(db.ptt) :
        db.prepaid[db.ptt[t].prepaid].type \in CashTypes =>
            db.ptt[t].remain + Total(DrawnOn(db, t), NSales) = granted[t]

\* A voucher and its transaction are open or closed together while there is
\* anything left on it.
VouchersInStep(db) ==
    \A t \in Live(db.ptt) :
        LET voucher == db.prepaid[db.ptt[t].prepaid]
        IN  voucher.type \in VoucherTypes /\ db.ptt[t].remain > 0
              => voucher.active = db.ptt[t].active

\* A voucher is sold with the one transaction it has.
VouchersSingle(db) ==
    \A t \in Live(db.ptt) :
        db.prepaid[db.ptt[t].prepaid].type \in VoucherTypes =>
            /\ db.ptt[t].root
            /\ PttsOf(db, db.ptt[t].prepaid) = {t}
=============================================================================
