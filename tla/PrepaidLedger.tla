---------------------------- MODULE PrepaidLedger ----------------------------
(***************************************************************************)
(* Prepaid packages and vouchers: selling, topping up, editing, redeeming  *)
(* at the till, deleting, expiring.  One request at a time: each action is *)
(* a controller method with the service call it makes, or a row of the job *)
(* that expires transactions.                                              *)
(***************************************************************************)
EXTENDS PrepaidTables

CONSTANTS
    Types,      \* the prepaid types sold
    Amounts,    \* initial values, item amounts and quantities entered
    Remains,    \* remaining values entered in the edit forms
    MaxDay      \* the days are 0 .. MaxDay

ASSUME InputsAssumption ==
    /\ Types \subseteq PrepaidTypes
    /\ Amounts \subseteq Nat \ {0}
    /\ Remains \subseteq Nat
    /\ MaxDay \in Nat

Days == 0..MaxDay

VARIABLES
    db,         \* the tables
    today,
    granted     \* history: what staff last said each transaction holds, the
                \* part its live redemptions took included

vars == <<db, today, granted>>

Init ==
    /\ db = EmptyDatabase
    /\ today = 0
    /\ granted = [t \in PttIds |-> 0]

\* Any purchase date, but none after the expiry entered.
IsPeriod(date, expiry) == date <= expiry

-----------------------------------------------------------------------------
AddPrepaid(p, t, type, v, date, expiry) ==
    /\ IsNextId(db.prepaid, p) /\ IsNextId(db.ptt, t)
    /\ IsPeriod(date, expiry)
    /\ db' = AddPrepaidDb(db, p, t, type, v, date, expiry)
    /\ granted' = [granted EXCEPT ![t] = InitValue(type, v)]
    /\ UNCHANGED today

TopUp(p, t, v, date, expiry) ==
    /\ p \in Live(db.prepaid)
    /\ db.prepaid[p].type \notin VoucherTypes
    /\ IsNextId(db.ptt, t)
    /\ IsPeriod(date, expiry)
    /\ db' = TopUpDb(db, p, t, v, date, expiry)
    /\ granted' = [granted EXCEPT ![t] = v]
    /\ UNCHANGED today

\* Looking up "the" transaction of the prepaid fails when it has several.
EditPrepaid(p, t, v, r, active, date, expiry) ==
    /\ p \in Live(db.prepaid)
    /\ PttsOf(db, p) = {t}
    /\ IsPeriod(date, expiry)
    /\ db' = EditPrepaidDb(db, p, t, v, r, active, date, expiry)
    /\ granted' = [granted EXCEPT ![t] = r + Total(DrawnOn(db, t), NSales)]
    /\ UNCHANGED today

EditTopUp(t, v, r, active, date, expiry) ==
    /\ t \in Live(db.ptt)
    /\ ~db.ptt[t].root
    /\ IsPeriod(date, expiry)
    /\ db' = EditTopUpDb(db, t, v, r, active, date, expiry)
    /\ granted' = [granted EXCEPT ![t] = r + Total(DrawnOn(db, t), NSales)]
    /\ UNCHANGED today

\* What the check for payments does not see, the foreign key refuses.
DeletePrepaid(p) ==
    /\ p \in Live(db.prepaid)
    /\ ~IsUsedPrepaid(db, p)
    /\ db' = DeletePrepaidDb(db, p)
    /\ PaymentsRefer(db')
    /\ granted' = [t \in PttIds |-> IF t \in PttsOf(db, p) THEN 0 ELSE granted[t]]
    /\ UNCHANGED today

DeleteTopUp(t) ==
    /\ t \in Live(db.ptt)
    /\ ~db.ptt[t].root
    /\ ~IsUsedSinceSold(db, t)
    /\ db' = DeleteTopUpDb(db, t)
    /\ PaymentsRefer(db')
    /\ granted' = [granted EXCEPT ![t] = 0]
    /\ UNCHANGED today

\* The cart names the prepaid; whether it is active was looked at earlier,
\* when the item went into the cart, and is not looked at again.
CheckOut(p, s, qty) ==
    /\ p \in Live(db.prepaid)
    /\ IsNextId(db.sale, s)
    /\ db' = CheckOutDb(db, p, s, today, qty)
    /\ UNCHANGED <<today, granted>>

RemoveSale(s) ==
    /\ s \in Live(db.sale)
    /\ db' = RemoveSaleDb(db, s)
    /\ UNCHANGED <<today, granted>>

\* Mutant of RemoveOrderOfFirst: no foreign key keeps the used transactions.
RemoveOrderOfFirstUnchecked(t) ==
    /\ t \in Live(db.ptt)
    /\ ~IsUsedSinceSold(db, t)
    /\ t \in FirstPtts(db, db.ptt[t].prepaid)
    /\ db' = DeletePrepaidDb(db, db.ptt[t].prepaid)
    /\ granted' = [u \in PttIds |->
                     IF u \in PttsOf(db, db.ptt[t].prepaid) THEN 0 ELSE granted[u]]
    /\ UNCHANGED today

\* Deleting the order that sold t deletes t; when t comes first among the
\* transactions of its prepaid, the prepaid goes with all of them.
RemoveOrderOfFirst(t) ==
    /\ t \in Live(db.ptt)
    /\ ~IsUsedSinceSold(db, t)
    /\ t \in FirstPtts(db, db.ptt[t].prepaid)
    /\ db' = DeletePrepaidDb(db, db.ptt[t].prepaid)
    /\ PaymentsRefer(db')
    /\ granted' = [u \in PttIds |->
                     IF u \in PttsOf(db, db.ptt[t].prepaid) THEN 0 ELSE granted[u]]
    /\ UNCHANGED today

RemoveOrderOfLater(t) ==
    /\ t \in Live(db.ptt)
    /\ ~IsUsedSinceSold(db, t)
    /\ \E u \in FirstPtts(db, db.ptt[t].prepaid) : u # t
    /\ db' = DeleteTopUpDb(db, t)
    /\ PaymentsRefer(db')
    /\ granted' = [granted EXCEPT ![t] = 0]
    /\ UNCHANGED today

Expire(t) ==
    /\ t \in Live(db.ptt)
    /\ db.ptt[t].active
    /\ db.ptt[t].expiry < today
    /\ db' = ExpireDb(db, t)
    /\ UNCHANGED <<today, granted>>

NextDay ==
    /\ today < MaxDay
    /\ today' = today + 1
    /\ UNCHANGED <<db, granted>>

Next ==
    \/ \E p \in PrepaidIds, t \in PttIds, type \in Types, v \in Amounts,
          date \in Days, expiry \in Days : AddPrepaid(p, t, type, v, date, expiry)
    \/ \E p \in PrepaidIds, t \in PttIds, v \in Amounts, date \in Days, expiry \in Days :
          TopUp(p, t, v, date, expiry)
    \/ \E p \in PrepaidIds, t \in PttIds, v \in Amounts, r \in Remains, active \in BOOLEAN,
          date \in Days, expiry \in Days : EditPrepaid(p, t, v, r, active, date, expiry)
    \/ \E t \in PttIds, v \in Amounts, r \in Remains, active \in BOOLEAN,
          date \in Days, expiry \in Days : EditTopUp(t, v, r, active, date, expiry)
    \/ \E p \in PrepaidIds : DeletePrepaid(p)
    \/ \E t \in PttIds : DeleteTopUp(t)
    \/ \E p \in PrepaidIds, s \in SaleIds, qty \in Amounts : CheckOut(p, s, qty)
    \/ \E s \in SaleIds : RemoveSale(s)
    \/ \E t \in PttIds : RemoveOrderOfFirst(t)
    \/ \E t \in PttIds : RemoveOrderOfLater(t)
    \/ \E t \in PttIds : Expire(t)
    \/ NextDay

Spec == Init /\ [][Next]_vars

-----------------------------------------------------------------------------
(***************************************************************************)
(* Properties                                                              *)
(***************************************************************************)
\* Every table holds rows of its type, and the clock stays within its bound.
TypeOK ==
    /\ db \in Database
    /\ today \in Days
    /\ granted \in [PttIds -> Int]

\* The balance and the initial value kept on a prepaid are the sums of those
\* kept on its transactions, through every sale, top-up, edit, redemption,
\* refund and deletion.
Balanced == SumsAgree(db)

\* No balance goes below zero, and no checkout bills more or less than the item.
NothingOverdrawn == NothingNegative(db)

\* What is left on a transaction plus what its live redemptions took is never
\* less than what staff granted: no refund loses anything.
NothingLost == GrantsKept(db, granted)

\* For cash the two are equal: redeeming and refunding neither create nor
\* destroy money.
CashConserved == CashAdds(db, granted)

\* A voucher and its one transaction keep the same fact twice: while there is
\* anything left to spend, both are open or both are closed.
VoucherInStep == VouchersInStep(db)

\* A checkout drains the oldest usable transaction first, takes nothing from
\* one that is inactive or expired, and leaves part of the item unpaid only
\* when nothing usable is left.
OldestFirst ==
    [][\A s \in SaleIds :
         db.sale[s] = NoRow /\ db'.sale[s] # NoRow =>
           LET new == db'.sale[s]
           IN  /\ \A t \in PttIds :
                    /\ new.drawn[t] > 0 => IsUsable(db, new.prepaid, today, t)
                    /\ \A u \in PttIds :
                         /\ new.drawn[t] > 0
                         /\ IsUsable(db, new.prepaid, today, u)
                         /\ IsAhead(db, u, t)
                         => db'.ptt[u].remain = 0
               /\ new.due > 0 =>
                    \A t \in PttIds : ~IsUsable(db', new.prepaid, today, t)]_vars

\* Rows refer to rows: a transaction to its prepaid, a payment to the
\* transaction it redeems, which is one of the prepaid the item was paid with.
Refers == RowsRefer(db)

\* A prepaid seen from outside: its balance, and per sale what it drew.
Holdings ==
    [p \in PrepaidIds |->
        IF p \in Live(db.prepaid)
        THEN [cash |-> db.prepaid[p].type \in CashTypes, held |-> db.prepaid[p].remain]
        ELSE NoRow]

Drawings ==
    [s \in SaleIds |->
        IF s \in Live(db.sale) /\ Total(db.sale[s].drawn, NPtts) > 0
        THEN [from |-> db.sale[s].prepaid, amount |-> Total(db.sale[s].drawn, NPtts)]
        ELSE NoRow]

ASSUME AccountAssumption ==
    /\ NoRow \notin [cash : BOOLEAN, held : Int]
    /\ NoRow \notin [from : PrepaidIds, amount : Int]

Account == INSTANCE PrepaidAccount
             WITH Accounts <- PrepaidIds, Purchases <- SaleIds, None <- NoRow,
                  account <- Holdings, paid <- Drawings

\* The tables implement a plain account per prepaid: every request changes the
\* balance of one prepaid only, a sale draws no more than it holds, an order
\* deleted refunds what it drew, and no prepaid is deleted while a payment
\* drawn on it can still be refunded.
ImplementsAccount == Account!Spec

\* "Accumulate the remaining value of all valid, unexpired transactions onto
\* the prepaid's remaining value": what the comment in
\* savePrepaidTopUpTransaction says a top-up does, here of a prepaid that is
\* active, whatever the flags of its transactions.
Unexpired(d, p) ==
    [t \in PttIds |->
        IF t \in PttsOf(d, p) /\ d.ptt[t].expiry >= today THEN d.ptt[t].remain ELSE 0]

TopUpCarriesValidOnly ==
    [][\A p \in Live(db.prepaid), t \in PttIds \ Live(db.ptt) :
         db.prepaid[p].active /\ t \in PttsOf(db', p) /\ db'.ptt[t].expiry >= today =>
           db'.prepaid[p].remain = db'.ptt[t].remain + Total(Unexpired(db, p), NPtts)]_vars
=============================================================================
