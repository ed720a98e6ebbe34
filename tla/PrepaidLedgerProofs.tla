------------------------- MODULE PrepaidLedgerProofs -------------------------
(***************************************************************************)
(* What TLAPS proves of PrepaidLedger for every number of prepaids,        *)
(* transactions and sales, and every set of inputs.  The invariant holds   *)
(* all its properties of a state, for they need one another: a deletion    *)
(* keeps the balances only if no row is left that refers to what it        *)
(* deletes, a refund finds the prepaid it credits only because the payment *)
(* refers to a live row and gives back enough only because no payment      *)
(* exceeds its item, and a checkout closes a voucher together with its     *)
(* transaction only because the balances of the two are the same.          *)
(***************************************************************************)
EXTENDS PrepaidLedger, PrepaidTablesTheorems

IInv == TypeOK /\ Right(db, granted)

\* What a request or the job leaves, day unchanged, from what the theorems
\* about its method say.
LEMMA StepKeeps ==
    ASSUME IInv, UNCHANGED today, granted' \in [PttIds -> Int],
           Kept(db, db'), RowsRefer(db'), MoneyKept(db, granted, db', granted'),
           Vouchers(db')
    PROVE  IInv'
<1>1. db' \in Database /\ Right(db', granted')
  BY StaysRight DEF IInv
<1>2. TypeOK'
  BY <1>1 DEF IInv, TypeOK
<1>3. IInv' <=> TypeOK' /\ Right(db', granted')
  BY DEF IInv
<1> QED BY <1>1, <1>2, <1>3

\* What the requests enter.
LEMMA Inputs ==
    /\ \A v \in Amounts : v \in Nat
    /\ \A r \in Remains : r \in Nat
    /\ \A d \in Days : d \in Nat
    /\ \A type \in Types : type \in PrepaidTypes
BY InputsAssumption DEF Days

\* New ids are not in use.
LEMMA NextIdIsNew ==
    ASSUME IInv
    PROVE  /\ \A p \in PrepaidIds : IsNextId(db.prepaid, p) => p \notin Live(db.prepaid)
           /\ \A t \in PttIds : IsNextId(db.ptt, t) => t \notin Live(db.ptt)
           /\ \A s \in SaleIds : IsNextId(db.sale, s) => s \notin Live(db.sale)
BY DEF IsNextId, PrepaidIds, PttIds, SaleIds

LEMMA InvFacts ==
    ASSUME IInv
    PROVE  /\ db \in Database /\ granted \in [PttIds -> Int] /\ today \in Days
           /\ RowsRefer(db) /\ SumsAgree(db) /\ Holds(db) /\ PaymentsWithinItems(db)
           /\ Vouchers(db)
BY DEF IInv, TypeOK, Right, Holds

-----------------------------------------------------------------------------
\* One lemma per request: selling a prepaid,
LEMMA AddPrepaidStep ==
    ASSUME IInv, NEW p \in PrepaidIds, NEW t \in PttIds, NEW type \in Types,
           NEW v \in Amounts, NEW date \in Days, NEW expiry \in Days,
           AddPrepaid(p, t, type, v, date, expiry)
    PROVE  IInv'
<1>1. /\ v \in Nat /\ date \in Nat /\ expiry \in Nat /\ type \in PrepaidTypes
      /\ p \notin Live(db.prepaid) /\ t \notin Live(db.ptt)
      /\ db' = AddPrepaidDb(db, p, t, type, v, date, expiry)
      /\ granted' = [granted EXCEPT ![t] = InitValue(type, v)] /\ UNCHANGED today
  BY Inputs, NextIdIsNew DEF AddPrepaid
<1>2. Kept(db, db') /\ RowsRefer(db')
  BY <1>1, InvFacts, AddPrepaidKeeps
<1>3. db' \in Database
  BY <1>2 DEF Kept
<1>4. MoneyKept(db, granted, db', granted')
  BY <1>1, <1>3, InvFacts, AddPrepaidMoney
<1>5. Vouchers(db')
  BY <1>1, InvFacts, AddPrepaidVouchers
<1>6. granted' \in [PttIds -> Int]
  BY <1>1, InvFacts, InitValueType
<1> QED BY <1>1, <1>2, <1>4, <1>5, <1>6, StepKeeps

\* topping it up,
LEMMA TopUpStep ==
    ASSUME IInv, NEW p \in PrepaidIds, NEW t \in PttIds, NEW v \in Amounts,
           NEW date \in Days, NEW expiry \in Days, TopUp(p, t, v, date, expiry)
    PROVE  IInv'
<1>1. /\ v \in Nat /\ date \in Nat /\ expiry \in Nat
      /\ p \in Live(db.prepaid) /\ db.prepaid[p].type \notin VoucherTypes
      /\ t \notin Live(db.ptt) /\ db' = TopUpDb(db, p, t, v, date, expiry)
      /\ granted' = [granted EXCEPT ![t] = v] /\ UNCHANGED today
  BY Inputs, NextIdIsNew DEF TopUp
<1>2. Kept(db, db') /\ RowsRefer(db')
  BY <1>1, InvFacts, TopUpKeeps
<1>3. db' \in Database
  BY <1>2 DEF Kept
<1>4. MoneyKept(db, granted, db', granted')
  BY <1>1, <1>3, InvFacts, TopUpMoney
<1>5. Vouchers(db')
  BY <1>1, InvFacts, TopUpVouchers
<1>6. granted' \in [PttIds -> Int]
  BY <1>1, InvFacts
<1> QED BY <1>1, <1>2, <1>4, <1>5, <1>6, StepKeeps

\* editing it or one of its top-ups,
LEMMA EditPrepaidStep ==
    ASSUME IInv, NEW p \in PrepaidIds, NEW t \in PttIds, NEW v \in Amounts,
           NEW r \in Remains, NEW active \in BOOLEAN, NEW date \in Days,
           NEW expiry \in Days, EditPrepaid(p, t, v, r, active, date, expiry)
    PROVE  IInv'
<1>1. /\ v \in Nat /\ r \in Nat /\ date \in Nat /\ expiry \in Nat
      /\ p \in Live(db.prepaid) /\ PttsOf(db, p) = {t}
      /\ db' = EditPrepaidDb(db, p, t, v, r, active, date, expiry)
      /\ granted' = [granted EXCEPT ![t] = r + Total(DrawnOn(db, t), NSales)]
      /\ UNCHANGED today
  BY Inputs DEF EditPrepaid
<1>2. Kept(db, db') /\ RowsRefer(db')
  BY <1>1, InvFacts, EditPrepaidKeeps
<1>3. db' \in Database
  BY <1>2 DEF Kept
<1>4. MoneyKept(db, granted, db', granted')
  BY <1>1, <1>3, InvFacts, EditPrepaidMoney
<1>5. Vouchers(db')
  BY <1>1, InvFacts, EditPrepaidVouchers
<1>6. granted' \in [PttIds -> Int]
  BY <1>1, InvFacts, DrawnType
<1> QED BY <1>1, <1>2, <1>4, <1>5, <1>6, StepKeeps

LEMMA EditTopUpStep ==
    ASSUME IInv, NEW t \in PttIds, NEW v \in Amounts, NEW r \in Remains,
           NEW active \in BOOLEAN, NEW date \in Days, NEW expiry \in Days,
           EditTopUp(t, v, r, active, date, expiry)
    PROVE  IInv'
<1>1. /\ v \in Nat /\ r \in Nat /\ date \in Nat /\ expiry \in Nat
      /\ t \in Live(db.ptt) /\ ~db.ptt[t].root
      /\ db' = EditTopUpDb(db, t, v, r, active, date, expiry)
      /\ granted' = [granted EXCEPT ![t] = r + Total(DrawnOn(db, t), NSales)]
      /\ UNCHANGED today
  BY Inputs DEF EditTopUp
<1>2. Kept(db, db') /\ RowsRefer(db')
  BY <1>1, InvFacts, EditTopUpKeeps
<1>3. db' \in Database
  BY <1>2 DEF Kept
<1>4. MoneyKept(db, granted, db', granted')
  BY <1>1, <1>3, InvFacts, EditTopUpMoney
<1>5. Vouchers(db')
  BY <1>1, InvFacts, EditTopUpVouchers
<1>6. granted' \in [PttIds -> Int]
  BY <1>1, InvFacts, DrawnType
<1> QED BY <1>1, <1>2, <1>4, <1>5, <1>6, StepKeeps

\* deleting it, or the order that sold it,
LEMMA DeletingPrepaidKeeps ==
    ASSUME IInv, NEW p \in PrepaidIds, p \in Live(db.prepaid),
           db' = DeletePrepaidDb(db, p), PaymentsRefer(db'), UNCHANGED today,
           granted' = [t \in PttIds |-> IF t \in PttsOf(db, p) THEN 0 ELSE granted[t]]
    PROVE  IInv'
<1>2. Kept(db, db') /\ RowsRefer(db')
  BY InvFacts, DeletePrepaidKeeps
<1>3. db' \in Database
  BY <1>2 DEF Kept
<1>4. MoneyKept(db, granted, db', granted')
  <2>1. \A u \in PttIds \ PttsOf(db, p) : granted'[u] = granted[u]
    OBVIOUS
  <2> QED BY <2>1, <1>3, InvFacts, DeletePrepaidMoney
<1>5. Vouchers(db')
  BY InvFacts, DeletePrepaidVouchers
<1>6. granted' \in [PttIds -> Int]
  BY InvFacts
<1> QED BY <1>2, <1>4, <1>5, <1>6, StepKeeps

LEMMA DeletePrepaidStep ==
    ASSUME IInv, NEW p \in PrepaidIds, DeletePrepaid(p)
    PROVE  IInv'
<1>1. /\ p \in Live(db.prepaid) /\ db' = DeletePrepaidDb(db, p) /\ UNCHANGED today
      /\ granted' = [t \in PttIds |-> IF t \in PttsOf(db, p) THEN 0 ELSE granted[t]]
      /\ PaymentsRefer(db')
  BY DEF DeletePrepaid
<1> QED BY <1>1, DeletingPrepaidKeeps

LEMMA RemoveOrderOfFirstStep ==
    ASSUME IInv, NEW t \in PttIds, RemoveOrderOfFirst(t)
    PROVE  IInv'
<1>1. PICK p : p = db.ptt[t].prepaid
  OBVIOUS
<1>2. p \in PrepaidIds /\ p \in Live(db.prepaid)
  BY <1>1, InvFacts, RowTypes DEF RemoveOrderOfFirst, RowsRefer
<1>3. /\ db' = DeletePrepaidDb(db, p) /\ PaymentsRefer(db') /\ UNCHANGED today
      /\ granted' = [u \in PttIds |-> IF u \in PttsOf(db, p) THEN 0 ELSE granted[u]]
  BY <1>1 DEF RemoveOrderOfFirst
<1> QED BY <1>2, <1>3, DeletingPrepaidKeeps

\* deleting a top-up, or the order that sold it,
LEMMA DeleteTopUpStep ==
    ASSUME IInv, NEW t \in PttIds, DeleteTopUp(t) \/ RemoveOrderOfLater(t)
    PROVE  IInv'
<1>1. /\ t \in Live(db.ptt) /\ PaymentsRefer(db') /\ db' = DeleteTopUpDb(db, t)
      /\ granted' = [granted EXCEPT ![t] = 0] /\ UNCHANGED today
  BY DEF DeleteTopUp, RemoveOrderOfLater
<1>2. Kept(db, db') /\ RowsRefer(db')
  BY <1>1, InvFacts, DeleteTopUpKeeps
<1>3. db' \in Database
  BY <1>2 DEF Kept
<1>4. MoneyKept(db, granted, db', granted')
  <2>1. \A u \in PttIds : u # t => granted'[u] = granted[u]
    BY <1>1, InvFacts
  <2> QED BY <2>1, <1>1, <1>3, InvFacts, DeleteTopUpMoney
<1>5. Vouchers(db')
  BY <1>1, InvFacts, DeleteTopUpVouchers
<1>6. granted' \in [PttIds -> Int]
  BY <1>1, InvFacts
<1> QED BY <1>1, <1>2, <1>4, <1>5, <1>6, StepKeeps

\* a checkout,
LEMMA CheckOutStep ==
    ASSUME IInv, NEW p \in PrepaidIds, NEW s \in SaleIds, NEW qty \in Amounts,
           CheckOut(p, s, qty)
    PROVE  IInv'
<1>1. /\ p \in Live(db.prepaid) /\ s \notin Live(db.sale) /\ qty \in Nat /\ today \in Nat
      /\ db' = CheckOutDb(db, p, s, today, qty) /\ UNCHANGED <<today, granted>>
  BY Inputs, InvFacts, NextIdIsNew DEF CheckOut
<1>2. Kept(db, db') /\ RowsRefer(db')
  BY <1>1, InvFacts, CheckOutKeeps
<1>3. db' \in Database
  BY <1>2 DEF Kept
<1>4. MoneyKept(db, granted, db', granted)
  BY <1>1, <1>3, InvFacts, CheckOutMoney
<1>5. Vouchers(db')
  BY <1>1, <1>3, InvFacts, CheckOutVouchers
<1> QED BY <1>1, <1>2, <1>4, <1>5, InvFacts, StepKeeps

\* deleting its order,
LEMMA RemoveSaleStep ==
    ASSUME IInv, NEW s \in SaleIds, RemoveSale(s)
    PROVE  IInv'
<1>1. /\ s \in Live(db.sale) /\ db' = RemoveSaleDb(db, s) /\ UNCHANGED <<today, granted>>
  BY DEF RemoveSale
<1>2. Kept(db, db') /\ RowsRefer(db')
  BY <1>1, InvFacts, RemoveSaleKeeps
<1>3. db' \in Database
  BY <1>2 DEF Kept
<1>4. MoneyKept(db, granted, db', granted)
  BY <1>1, <1>3, InvFacts, RemoveSaleMoney
<1>5. Vouchers(db')
  BY <1>1, <1>3, InvFacts, RemoveSaleVouchers
<1> QED BY <1>1, <1>2, <1>4, <1>5, InvFacts, StepKeeps

\* and the expiry job.
LEMMA ExpireStep ==
    ASSUME IInv, NEW t \in PttIds, Expire(t)
    PROVE  IInv'
<1>1. /\ t \in Live(db.ptt) /\ db' = ExpireDb(db, t) /\ UNCHANGED <<today, granted>>
  BY DEF Expire
<1>2. Kept(db, db') /\ RowsRefer(db')
  BY <1>1, InvFacts, ExpireKeeps
<1>3. db' \in Database
  BY <1>2 DEF Kept
<1>4. MoneyKept(db, granted, db', granted)
  BY <1>1, <1>3, InvFacts, ExpireMoney
<1>5. Vouchers(db')
  BY <1>1, InvFacts, ExpireVouchers
<1> QED BY <1>1, <1>2, <1>4, <1>5, InvFacts, StepKeeps

-----------------------------------------------------------------------------
\* It holds when there are no rows yet,
LEMMA InitIInv == Init => IInv
<1> SUFFICES ASSUME Init PROVE IInv
  OBVIOUS
<1>1. TypeOK
  BY EmptyIsRight, InputsAssumption DEF Init, TypeOK, Days
<1> QED BY <1>1, EmptyIsRight DEF Init, IInv

\* Every request, and the job, keeps it.
LEMMA NextIInv == IInv /\ [Next]_vars => IInv'
<1> SUFFICES ASSUME IInv, [Next]_vars PROVE IInv'
  OBVIOUS
<1>1. CASE \E p \in PrepaidIds, t \in PttIds, type \in Types, v \in Amounts,
             date \in Days, expiry \in Days : AddPrepaid(p, t, type, v, date, expiry)
  BY <1>1, AddPrepaidStep
<1>2. CASE \E p \in PrepaidIds, t \in PttIds, v \in Amounts, date \in Days, expiry \in Days :
             TopUp(p, t, v, date, expiry)
  BY <1>2, TopUpStep
<1>3. CASE \E p \in PrepaidIds, t \in PttIds, v \in Amounts, r \in Remains,
             active \in BOOLEAN, date \in Days, expiry \in Days :
             EditPrepaid(p, t, v, r, active, date, expiry)
  BY <1>3, EditPrepaidStep
<1>4. CASE \E t \in PttIds, v \in Amounts, r \in Remains, active \in BOOLEAN,
             date \in Days, expiry \in Days : EditTopUp(t, v, r, active, date, expiry)
  BY <1>4, EditTopUpStep
<1>5. CASE \E p \in PrepaidIds : DeletePrepaid(p)
  BY <1>5, DeletePrepaidStep
<1>6. CASE \E t \in PttIds : DeleteTopUp(t) \/ RemoveOrderOfLater(t)
  BY <1>6, DeleteTopUpStep
<1>7. CASE \E p \in PrepaidIds, s \in SaleIds, qty \in Amounts : CheckOut(p, s, qty)
  BY <1>7, CheckOutStep
<1>8. CASE \E s \in SaleIds : RemoveSale(s)
  BY <1>8, RemoveSaleStep
<1>9. CASE \E t \in PttIds : RemoveOrderOfFirst(t)
  BY <1>9, RemoveOrderOfFirstStep
<1>10. CASE \E t \in PttIds : Expire(t)
  BY <1>10, ExpireStep
<1>11. CASE NextDay \/ UNCHANGED vars
  <2>1. UNCHANGED <<db, granted>> /\ today' \in Days
    BY <1>11, InputsAssumption DEF NextDay, vars, IInv, TypeOK, Days
  <2>2. TypeOK'
    BY <2>1 DEF IInv, TypeOK
  <2>3. Right(db, granted)'
    BY <2>1 DEF IInv, Right, GrantsKept, CashAdds
  <2> QED BY <2>2, <2>3 DEF IInv
<1> QED BY <1>1, <1>2, <1>3, <1>4, <1>5, <1>6, <1>7, <1>8, <1>9, <1>10, <1>11 DEF Next

\* Every reachable state satisfies the invariant.
THEOREM Invariance == Spec => []IInv
BY InitIInv, NextIInv, PTL DEF Spec

\* The tables hold rows of their types in every reachable state.
THEOREM TypeCorrect == Spec => []TypeOK
<1>1. IInv => TypeOK
  BY DEF IInv
<1> QED BY <1>1, Invariance, PTL

\* No sale, top-up, edit, redemption, refund, deletion or expiry leaves a
\* transaction without its prepaid or a payment without its transaction.
THEOREM ReferencesHold == Spec => []Refers
<1>1. IInv => Refers
  BY DEF IInv, Right, Refers
<1> QED BY <1>1, Invariance, PTL

\* The balance PrepaidServiceImpl keeps on a prepaid always equals the sum of
\* the balances of its transactions, whatever the requests and their order.
THEOREM BalancesAgree == Spec => []Balanced
<1>1. IInv => Balanced
  BY DEF IInv, Right, Balanced
<1> QED BY <1>1, Invariance, PTL

\* Whatever staff sell, edit, redeem, refund and delete, in whatever order: no
\* transaction and no prepaid is overdrawn, and no checkout of
\* createPurchaseOrderForBill redeems more than the item costs.
THEOREM NeverOverdrawn == Spec => []NothingOverdrawn
<1>1. IInv => NothingOverdrawn
  BY MoneyIsThere DEF IInv, TypeOK, Right, NothingOverdrawn
<1> QED BY <1>1, Invariance, PTL

\* Redeeming a cash package or voucher, and deleting the order that redeemed
\* it, neither create nor destroy money.
THEOREM CashIsConserved == Spec => []CashConserved
<1>1. IInv => CashConserved
  BY DEF IInv, Right, CashConserved
<1> QED BY <1>1, Invariance, PTL

\* Deleting an order never gives a transaction back less than the order took
\* from it, units of treatments included.
THEOREM RefundsLoseNothing == Spec => []NothingLost
<1>1. IInv => NothingLost
  BY DEF IInv, Right, NothingLost
<1> QED BY <1>1, Invariance, PTL

\* The edit form, the redemption loop, the refund and the expiry job each set
\* the active flag of a voucher and of its transaction: while anything is left
\* on the voucher the two flags are the same.
THEOREM VouchersStayInStep == Spec => []VoucherInStep
<1>1. IInv => VoucherInStep
  BY DEF IInv, Right, Vouchers, VoucherInStep
<1> QED BY <1>1, Invariance, PTL

-----------------------------------------------------------------------------
\* What OldestFirst says of the sale s that a step adds.
SaleDrainsOldest(s) ==
    LET new == db'.sale[s]
    IN  /\ \A t \in PttIds :
             /\ new.drawn[t] > 0 => IsUsable(db, new.prepaid, today, t)
             /\ \A u \in PttIds :
                  /\ new.drawn[t] > 0
                  /\ IsUsable(db, new.prepaid, today, u)
                  /\ IsAhead(db, u, t)
                  => db'.ptt[u].remain = 0
        /\ new.due > 0 =>
             \A t \in PttIds : ~IsUsable(db', new.prepaid, today, t)

LEMMA CheckOutDrainsOldest ==
    ASSUME IInv, NEW p \in PrepaidIds, NEW s \in SaleIds, NEW qty \in Amounts,
           CheckOut(p, s, qty)
    PROVE  SaleDrainsOldest(s)
<1>9. /\ p \in Live(db.prepaid) /\ s \notin Live(db.sale) /\ qty \in Nat /\ today \in Nat
      /\ db' = CheckOutDb(db, p, s, today, qty)
      /\ db \in Database /\ RowsRefer(db)
  BY Inputs, NextIdIsNew, InvFacts DEF CheckOut
<1>0. PICK d : d = Draws(db, p, today, qty)
  OBVIOUS
<1>1. /\ qty \in Nat /\ d \in [PttIds -> Nat] /\ Total(d, NPtts) \in Nat
      /\ db'.sale = [db.sale EXCEPT ![s] =
            [prepaid |-> p, created |-> today, qty |-> qty, drawn |-> d,
             due |-> qty - Total(d, NPtts)]]
      /\ \A t \in PttIds : d[t] = 0 => db'.ptt[t] = db.ptt[t]
      /\ \A t \in Live(db.ptt) :
            /\ db'.ptt[t].prepaid = db.ptt[t].prepaid
            /\ db'.ptt[t].remain = db.ptt[t].remain - d[t]
      /\ Live(db'.ptt) = Live(db.ptt)
  <2>1. PICK next : next = db'
    OBVIOUS
  <2>2. next = CheckOutDb(db, p, s, today, qty)
    BY <2>1, <1>9
  <2> QED BY <2>1, <2>2, <1>0, <1>9, CheckOutEffect, SMTT(30)
<1>2. /\ db'.sale[s].due = qty - Total(d, NPtts) /\ db'.sale[s].prepaid = p
      /\ db'.sale[s].drawn = d
  BY <1>9, <1>1, RowTypes
<1> DEFINE U     == Usable(db, p, today)
           L     == AheadIn(db)
           stock == Stock(db, p, today)
           ahead == AheadOf(db, p, today)
           open  == OpenAt(db, p, today, qty)
<1>3. /\ NPtts \in Nat /\ PttIds = 1..NPtts /\ IsQueue(NPtts, U, L)
      /\ IsDrained(NPtts, U, L, stock, ahead, open, d, qty)
      /\ \A t \in U : /\ t \in PttsOf(db, p) /\ db.ptt[t] \in PttRow
                      /\ db.ptt[t].remain \in Nat /\ db.ptt[t].remain > 0
  BY <1>9, <1>0, <1>1, UsableIsQueue, DrawsDrain
<1> HIDE DEF U, L, stock, ahead, open
<1>4. ASSUME NEW t \in PttIds, d[t] > 0 PROVE t \in U
  <2>1. d[t] = IF t \notin U \/ open[t] <= 0 THEN 0
               ELSE IF open[t] <= stock[t] THEN open[t]
               ELSE stock[t]
    BY <1>3 DEF IsDrained
  <2> QED BY <2>1, <1>4
<1>5. ASSUME NEW u \in U, d[u] = stock[u] PROVE db'.ptt[u].remain = 0
  <2>1. stock[u] = db.ptt[u].remain /\ u \in Live(db.ptt) /\ db.ptt[u].remain \in Nat
    BY <1>3 DEF stock, U, Stock, PttsOf, Usable
  <2>2. db'.ptt[u].remain = db.ptt[u].remain - d[u]
    BY <2>1, <1>1
  <2> QED BY <2>1, <2>2, <1>5
<1>6. ASSUME NEW t \in PttIds, NEW u \in PttIds, d[t] > 0, IsUsable(db, p, today, u),
             IsAhead(db, u, t)
      PROVE  db'.ptt[u].remain = 0
  <2>1. u \in U /\ t \in U /\ <<u, t>> \in L
    BY <1>4, <1>6 DEF U, L, Usable, AheadIn
  <2>0. /\ NPtts \in Nat /\ qty \in Nat /\ d[t] > 0 /\ IsQueue(NPtts, U, L)
        /\ IsDrained(NPtts, U, L, stock, ahead, open, d, qty)
    BY <1>1, <1>3, <1>6
  <2>2. d[u] = stock[u]
    BY ONLY <2>0, <2>1, AheadDrained
  <2> QED BY <2>1, <2>2, <1>5
<1>7. ASSUME qty - Total(d, NPtts) > 0, NEW t \in PttIds, IsUsable(db', p, today, t)
      PROVE  FALSE
  <2>1. Total(d, NPtts) < qty
    BY <1>1, <1>7
  <2>2. CASE d[t] > 0
    <3>1. t \in U
      BY <2>2, <1>4
    <3>2. d[t] = stock[t]
      BY <3>1, <2>1, <1>1, <1>3, ShortOnlyWhenEmpty
    <3>3. db'.ptt[t].remain = 0
      BY <3>1, <3>2, <1>5
    <3> QED BY <3>3, <1>7 DEF IsUsable
  <2>3. CASE ~(d[t] > 0)
    <3>1. d[t] = 0
      BY <2>3, <1>1
    <3>2. db'.ptt[t] = db.ptt[t] /\ t \in Live(db.ptt)
      BY <3>1, <1>1, <1>7 DEF IsUsable, PttsOf
    <3>3. t \in U
      BY <3>2, <1>7 DEF IsUsable, PttsOf, U, Usable
    <3>4. d[t] = stock[t]
      BY <3>3, <2>1, <1>1, <1>3, ShortOnlyWhenEmpty
    <3>5. stock[t] = db.ptt[t].remain /\ db.ptt[t].remain > 0 /\ db.ptt[t].remain \in Nat
      BY <3>3, <1>3 DEF stock, Stock, U
    <3> QED BY <3>1, <3>4, <3>5
  <2> QED BY <2>2, <2>3
<1>8. \A t \in PttIds : d[t] > 0 => IsUsable(db, p, today, t)
  BY <1>4 DEF U, Usable
<1> QED BY <1>2, <1>6, <1>7, <1>8 DEF SaleDrainsOldest

\* No step but a checkout adds a sale.
LEMMA OnlyCheckOutSells ==
    ASSUME IInv, Next, NEW s \in SaleIds, db.sale[s] = NoRow, db'.sale[s] # NoRow
    PROVE  \E p \in PrepaidIds, qty \in Amounts : CheckOut(p, s, qty)
<1>1. CASE db'.sale = db.sale
  BY <1>1
<1>2. CASE \E p \in PrepaidIds, s1 \in SaleIds, qty \in Amounts : CheckOut(p, s1, qty)
  <2>1. PICK p \in PrepaidIds, s1 \in SaleIds, qty \in Amounts : CheckOut(p, s1, qty)
    BY <1>2
  <2>2. s1 # s => db'.sale[s] = db.sale[s]
    BY <2>1, RowTypes, InvFacts DEF CheckOut, CheckOutDb
  <2> QED BY <2>1, <2>2
<1>3. CASE \E s1 \in SaleIds : RemoveSale(s1)
  <2>1. PICK s1 \in SaleIds : RemoveSale(s1)
    BY <1>3
  <2>2. db'.sale = [db.sale EXCEPT ![s1] = NoRow]
    BY <2>1 DEF RemoveSale, RemoveSaleDb
  <2> QED BY <2>2, RowTypes, InvFacts
<1>4. \/ db'.sale = db.sale
      \/ \E p \in PrepaidIds, s1 \in SaleIds, qty \in Amounts : CheckOut(p, s1, qty)
      \/ \E s1 \in SaleIds : RemoveSale(s1)
  <2>0. ASSUME NEW p \in PrepaidIds, NEW t \in PttIds, NEW type \in Types,
               NEW v \in Amounts, NEW date \in Days, NEW expiry \in Days,
               AddPrepaid(p, t, type, v, date, expiry)
        PROVE  db'.sale = db.sale
    BY <2>0 DEF AddPrepaid, AddPrepaidDb
  <2>1. ASSUME NEW p \in PrepaidIds, NEW t \in PttIds, NEW v \in Amounts,
               NEW date \in Days, NEW expiry \in Days, TopUp(p, t, v, date, expiry)
        PROVE  db'.sale = db.sale
    BY <2>1 DEF TopUp, TopUpDb
  <2>2. ASSUME NEW t \in PttIds, NEW v \in Amounts, NEW r \in Remains,
               NEW active \in BOOLEAN, NEW date \in Days, NEW expiry \in Days,
               \/ \E p \in PrepaidIds : EditPrepaid(p, t, v, r, active, date, expiry)
               \/ EditTopUp(t, v, r, active, date, expiry)
        PROVE  db'.sale = db.sale
    BY <2>2 DEF EditPrepaid, EditPrepaidDb, EditTopUp, EditTopUpDb
  <2>3. ASSUME NEW p \in PrepaidIds, DeletePrepaid(p)
        PROVE  db'.sale = db.sale
    BY <2>3 DEF DeletePrepaid, DeletePrepaidDb
  <2>4. ASSUME NEW t \in PttIds,
               \/ DeleteTopUp(t) \/ RemoveOrderOfFirst(t) \/ RemoveOrderOfLater(t)
               \/ Expire(t)
        PROVE  db'.sale = db.sale
    <3>1. CASE DeleteTopUp(t) \/ RemoveOrderOfLater(t)
      BY <3>1 DEF DeleteTopUp, RemoveOrderOfLater, DeleteTopUpDb
    <3>2. CASE RemoveOrderOfFirst(t)
      BY <3>2 DEF RemoveOrderOfFirst, DeletePrepaidDb
    <3>3. CASE Expire(t)
      BY <3>3 DEF Expire, ExpireDb
    <3> QED BY <2>4, <3>1, <3>2, <3>3
  <2>5. NextDay => db'.sale = db.sale
    BY DEF NextDay
  <2> QED BY <2>0, <2>1, <2>2, <2>3, <2>4, <2>5 DEF Next
<1> QED BY <1>1, <1>2, <1>3, <1>4

\* The redemption loop of createPurchaseOrderForBill takes from usable
\* transactions only, empties one before it goes on to the next, oldest first,
\* and leaves part of the item unpaid only when it has emptied them all.
THEOREM DrainsOldestFirst == Spec => OldestFirst
<1> DEFINE Drains == \A s \in SaleIds :
                        db.sale[s] = NoRow /\ db'.sale[s] # NoRow => SaleDrainsOldest(s)
<1>1. IInv /\ [Next]_vars => [Drains]_vars
  <2> SUFFICES ASSUME IInv, Next, NEW s \in SaleIds, db.sale[s] = NoRow, db'.sale[s] # NoRow
               PROVE  SaleDrainsOldest(s)
    OBVIOUS
  <2>1. PICK p \in PrepaidIds, qty \in Amounts : CheckOut(p, s, qty)
    BY OnlyCheckOutSells
  <2> QED BY <2>1, CheckOutDrainsOldest
<1>2. [Drains]_vars <=>
      [\A s \in SaleIds :
         db.sale[s] = NoRow /\ db'.sale[s] # NoRow =>
           LET new == db'.sale[s]
           IN  /\ \A t \in PttIds :
                    /\ new.drawn[t] > 0 => IsUsable(db, new.prepaid, today, t)
                    /\ \A u \in PttIds :
                         /\ new.drawn[t] > 0
                         /\ IsUsable(db, new.prepaid, today, u)
                         /\ IsAhead(db, u, t)
                         => db'.ptt[u].remain = 0
               /\ new.due > 0 =>
                    \A t \in PttIds : ~IsUsable(db', new.prepaid, today, t)]_vars
  BY DEF SaleDrainsOldest
<1> HIDE DEF Drains
<1> QED BY <1>1, <1>2, Invariance, PTL DEF Spec, OldestFirst

-----------------------------------------------------------------------------
(***************************************************************************)
(* PrepaidLedger implements PrepaidAccount, for every number of rows and   *)
(* every type of prepaid: each request is one step of the account of one   *)
(* prepaid, or none.                                                       *)
(***************************************************************************)
\* What the proofs need of a reachable state.
AInv == TypeOK /\ Refers /\ PaymentsWithinItems(db) /\ NothingOverdrawn

\* What an account holds is not the absence of one.
LEMMA AccountRow ==
    ASSUME NEW c \in BOOLEAN, NEW h \in Int
    PROVE  [cash |-> c, held |-> h] # NoRow
<1>1. [cash |-> c, held |-> h] \in [cash : BOOLEAN, held : Int]
  OBVIOUS
<1> QED BY <1>1, AccountAssumption

\* The account of a live prepaid shows its kind and its balance.
LEMMA HoldingsOf ==
    ASSUME AInv, NEW p \in PrepaidIds
    PROVE  /\ p \in Live(db.prepaid) =>
                 /\ Holdings[p] = [cash |-> db.prepaid[p].type \in CashTypes,
                                   held |-> db.prepaid[p].remain]
                 /\ db.prepaid[p].remain \in Nat
                 /\ Holdings[p] # NoRow
           /\ p \notin Live(db.prepaid) => Holdings[p] = NoRow
<1>1. Holdings[p] = IF p \in Live(db.prepaid)
                    THEN [cash |-> db.prepaid[p].type \in CashTypes,
                          held |-> db.prepaid[p].remain]
                    ELSE NoRow
  BY DEF Holdings
<1>2. ASSUME p \in Live(db.prepaid)
      PROVE  db.prepaid[p].remain \in Nat
  <2>1. db.prepaid[p].remain \in Int
    BY <1>2, RowTypes DEF AInv, TypeOK, PrepaidRow
  <2>2. db.prepaid[p].remain >= 0
    BY <1>2 DEF AInv, NothingOverdrawn, NothingNegative
  <2> QED BY <2>1, <2>2
<1>3. p \in Live(db.prepaid) => [cash |-> db.prepaid[p].type \in CashTypes,
                                held |-> db.prepaid[p].remain] # NoRow
  <2> DEFINE c == db.prepaid[p].type \in CashTypes
  <2>1. c \in BOOLEAN
    OBVIOUS
  <2> HIDE DEF c
  <2>2. p \in Live(db.prepaid) => [cash |-> c, held |-> db.prepaid[p].remain] # NoRow
    BY <2>1, <1>2, AccountRow
  <2> QED BY <2>2 DEF c
<1> QED BY <1>1, <1>2, <1>3

\* What the sale s shows: what it drew, when it drew anything.
LEMMA DrawingsOf ==
    ASSUME AInv, NEW s \in SaleIds
    PROVE  /\ s \in Live(db.sale) =>
                 /\ db.sale[s].drawn \in [PttIds -> Nat]
                 /\ Total(db.sale[s].drawn, NPtts) \in Nat
           /\ s \in Live(db.sale) /\ Total(db.sale[s].drawn, NPtts) > 0 =>
                 /\ Drawings[s] = [from |-> db.sale[s].prepaid,
                                   amount |-> Total(db.sale[s].drawn, NPtts)]
                 /\ Drawings[s] # NoRow
                 /\ db.sale[s].prepaid \in Live(db.prepaid) /\ db.sale[s].prepaid \in PrepaidIds
                 /\ \E t \in PttsOf(db, db.sale[s].prepaid) : db.sale[s].drawn[t] > 0
           /\ ~(s \in Live(db.sale) /\ Total(db.sale[s].drawn, NPtts) > 0) => Drawings[s] = NoRow
<1> USE DEF AInv, TypeOK
<1> DEFINE d == db.sale[s].drawn
           p == db.sale[s].prepaid
<1>0. NPtts \in Nat /\ PttIds = 1..NPtts
  BY TablesAssumption DEF PttIds
<1>1. s \in Live(db.sale) => d \in [PttIds -> Nat] /\ p \in PrepaidIds
  BY RowTypes DEF SaleRow
<1>2. s \in Live(db.sale) => Total(d, NPtts) \in Nat
  BY <1>0, <1>1, TotalNonNegative
<1>3. Drawings[s] = IF s \in Live(db.sale) /\ Total(d, NPtts) > 0
                    THEN [from |-> p, amount |-> Total(d, NPtts)] ELSE NoRow
  BY DEF Drawings
<1>4. ASSUME s \in Live(db.sale), Total(d, NPtts) > 0
      PROVE  /\ p \in Live(db.prepaid)
             /\ \E t \in PttsOf(db, p) : d[t] > 0
  <2>1. PICK t \in PttIds : d[t] > 0
    <3>1. SUFFICES ASSUME \A t \in PttIds : ~(d[t] > 0) PROVE FALSE
      OBVIOUS
    <3>2. d \in [PttIds -> Int] /\ \A t \in PttIds : d[t] = 0
      BY <3>1, <1>1, <1>4
    <3> HIDE DEF d
    <3>3. Total(d, NPtts) = 0
      BY <3>2, <1>0, TotalZero
    <3> QED BY <3>3, <1>4
  <2>2. t \in PttsOf(db, p)
    BY <2>1, <1>4 DEF Refers, RowsRefer
  <2> QED BY <2>1, <2>2 DEF Refers, RowsRefer, PttsOf
<1>5. s \in Live(db.sale) /\ Total(d, NPtts) > 0 => [from |-> p, amount |-> Total(d, NPtts)] # NoRow
  BY <1>1, <1>2, AccountAssumption
<1> HIDE DEF d, p
<1>6. s \in Live(db.sale) /\ Total(d, NPtts) > 0 => Drawings[s] # NoRow
  BY <1>3, <1>5
<1> QED BY <1>1, <1>2, <1>3, <1>4, <1>6 DEF d, p

\* Where the sales stay as they are, so do the drawings.
LEMMA DrawingsKept ==
    ASSUME db'.sale = db.sale
    PROVE  Drawings' = Drawings
BY DEF Drawings

\* The same after a step.
ShowsHoldings ==
    \A p \in PrepaidIds :
        /\ p \in Live(db.prepaid) =>
              /\ Holdings[p] = [cash |-> db.prepaid[p].type \in CashTypes,
                                held |-> db.prepaid[p].remain]
              /\ db.prepaid[p].remain \in Nat
              /\ Holdings[p] # NoRow
        /\ p \notin Live(db.prepaid) => Holdings[p] = NoRow

ShowsDrawings ==
    \A s \in SaleIds :
        /\ s \in Live(db.sale) /\ Total(db.sale[s].drawn, NPtts) > 0 =>
              Drawings[s] = [from |-> db.sale[s].prepaid,
                             amount |-> Total(db.sale[s].drawn, NPtts)]
        /\ ~(s \in Live(db.sale) /\ Total(db.sale[s].drawn, NPtts) > 0) => Drawings[s] = NoRow

LEMMA ShownNext == AInv' => ShowsHoldings' /\ ShowsDrawings'
<1>1. AInv => ShowsHoldings
  BY HoldingsOf DEF ShowsHoldings
<1>2. AInv => ShowsDrawings
  BY DrawingsOf DEF ShowsDrawings
<1> QED BY <1>1, <1>2, PTL

\* Where one prepaid changes, so does its account, and no other.
LEMMA OneAccount ==
    ASSUME db'.prepaid \in [PrepaidIds -> PrepaidRow \union {NoRow}], NEW p \in PrepaidIds,
           db.prepaid \in [PrepaidIds -> PrepaidRow \union {NoRow}],
           \A q \in PrepaidIds : q # p => db'.prepaid[q] = db.prepaid[q]
    PROVE  Holdings' = [Holdings EXCEPT ![p] = Holdings'[p]]
<1>1. \A q \in PrepaidIds : q # p => Holdings'[q] = Holdings[q]
  BY DEF Holdings, Live
<1>2. Holdings = [q \in PrepaidIds |-> Holdings[q]] /\ Holdings' = [q \in PrepaidIds |-> Holdings'[q]]
  BY DEF Holdings
<1> QED BY <1>1, <1>2

-----------------------------------------------------------------------------
\* A request that changes one live prepaid and no sale adjusts its account.
LEMMA AdjustStep ==
    ASSUME AInv, AInv', NEW p \in Live(db.prepaid), p \in Live(db.prepaid)',
           db'.prepaid[p].type = db.prepaid[p].type,
           \A q \in PrepaidIds : q # p => db'.prepaid[q] = db.prepaid[q],
           db'.sale = db.sale
    PROVE  Account!Adjust(p)
<1> USE DEF AInv, TypeOK
<1>1. p \in PrepaidIds /\ DOMAIN db.prepaid = PrepaidIds /\ DOMAIN db'.prepaid = PrepaidIds
  BY RowTypes DEF Database
<1>2. /\ Holdings[p] = [cash |-> db.prepaid[p].type \in CashTypes, held |-> db.prepaid[p].remain]
      /\ Holdings[p] # NoRow
  BY <1>1, HoldingsOf
<1>3. /\ Holdings'[p] = [cash |-> db'.prepaid[p].type \in CashTypes, held |-> db'.prepaid[p].remain]
      /\ Holdings'[p] # NoRow /\ db'.prepaid[p].remain \in Nat
  BY <1>1, ShownNext DEF ShowsHoldings
<1>4. Holdings' = [Holdings EXCEPT ![p] = Holdings'[p]]
  BY <1>1, RowTypes, OneAccount DEF Database
<1>5. Holdings'[p] = [cash |-> Holdings[p].cash, held |-> Holdings'[p].held]
  BY <1>2, <1>3
<1>6. Account!Rebalanced(p)
  BY <1>3, <1>4, <1>5 DEF Account!Rebalanced
<1>7. p \in Account!Opened
  BY <1>1, <1>2 DEF Account!Opened
<1> QED BY <1>6, <1>7, DrawingsKept DEF Account!Adjust

\* Selling a prepaid opens its account,
LEMMA OpenStep ==
    ASSUME AInv, AInv', NEW p \in PrepaidIds, p \notin Live(db.prepaid), p \in Live(db.prepaid)',
           \A q \in PrepaidIds : q # p => db'.prepaid[q] = db.prepaid[q], db'.sale = db.sale
    PROVE  Account!Open(p)
<1> USE DEF AInv, TypeOK
<1> DEFINE cash == db'.prepaid[p].type \in CashTypes
<1>1. /\ Holdings'[p] = [cash |-> cash, held |-> db'.prepaid[p].remain]
      /\ Holdings'[p] # NoRow /\ db'.prepaid[p].remain \in Nat
  BY ShownNext DEF ShowsHoldings
<1>2. Holdings' = [Holdings EXCEPT ![p] = Holdings'[p]]
  BY RowTypes, OneAccount DEF Database
<1>3. p \notin Account!Opened
  BY HoldingsOf DEF Account!Opened
<1>4. cash \in BOOLEAN
  OBVIOUS
<1> HIDE DEF cash
<1>5. Holdings'[p].cash = cash /\ Holdings'[p].held = db'.prepaid[p].remain
  BY <1>1
<1> QED BY <1>1, <1>2, <1>3, <1>4, <1>5, DrawingsKept DEF Account!Open

\* deleting it closes the account: nothing drawn on it is left to refund.
LEMMA CloseStep ==
    ASSUME AInv, AInv', NEW p \in Live(db.prepaid), p \notin Live(db.prepaid)',
           \A q \in PrepaidIds : q # p => db'.prepaid[q] = db.prepaid[q], db'.sale = db.sale
    PROVE  Account!Close(p)
<1> USE DEF AInv, TypeOK
<1>0. p \in PrepaidIds
  BY RowTypes
<1>1. Holdings'[p] = NoRow
  BY <1>0, ShownNext DEF ShowsHoldings
<1>2. Holdings' = [Holdings EXCEPT ![p] = NoRow]
  BY <1>0, <1>1, RowTypes, OneAccount DEF Database
<1>3. p \in Account!Opened
  BY <1>0, HoldingsOf DEF Account!Opened
<1>4. ASSUME NEW s \in Account!Drawing PROVE Drawings[s].from # p
  <2>1. s \in SaleIds /\ Drawings[s] # NoRow
    BY DEF Account!Drawing
  <2>2. s \in Live(db.sale) /\ Total(db.sale[s].drawn, NPtts) > 0
    BY <2>1, DrawingsOf
  <2>3. Drawings[s].from = db.sale[s].prepaid
    <3>1. Drawings[s] = [from |-> db.sale[s].prepaid, amount |-> Total(db.sale[s].drawn, NPtts)]
      BY <2>1, <2>2, DrawingsOf
    <3> QED BY <3>1
  <2>4. PICK t \in PttsOf(db, db.sale[s].prepaid) : db.sale[s].drawn[t] > 0
    BY <2>1, <2>2, DrawingsOf
  <2>5. t \in PttsOf(db, db.sale[s].prepaid)' /\ db'.ptt[t].prepaid \in Live(db.prepaid)'
    <3>1. t \in PttIds
      BY <2>4, RowTypes DEF PttsOf
    <3>2. t \in PttsOf(db, db.sale[s].prepaid)'
      BY <3>1, <2>2, <2>4 DEF Refers, RowsRefer
    <3> QED BY <3>2 DEF Refers, RowsRefer, PttsOf
  <2>6. db.sale[s].prepaid \in Live(db.prepaid)'
    BY <2>5 DEF PttsOf
  <2> QED BY <2>3, <2>6
<1> QED BY <1>2, <1>3, <1>4, DrawingsKept DEF Account!Close

-----------------------------------------------------------------------------
\* A checkout spends from the account what it draws from the transactions; one
\* that finds nothing usable leaves the account as it was.
LEMMA SpendStep ==
    ASSUME AInv, AInv', NEW p \in PrepaidIds, NEW s \in SaleIds, NEW qty \in Amounts,
           CheckOut(p, s, qty)
    PROVE  Account!Spend(p, s) \/ UNCHANGED <<Holdings, Drawings>>
<1> USE DEF AInv, TypeOK
<1>0. PICK d : d = Draws(db, p, today, qty)
  OBVIOUS
<1> DEFINE used == Total(d, NPtts)
<1>13. /\ p \in Live(db.prepaid) /\ s \notin Live(db.sale) /\ qty \in Nat /\ today \in Nat
       /\ db' = CheckOutDb(db, p, s, today, qty) /\ RowsRefer(db)
  BY Inputs DEF CheckOut, IsNextId, SaleIds, Refers
<1>1. /\ used \in Nat /\ s \notin Live(db.sale) /\ p \in Live(db.prepaid)
      /\ db'.sale = [db.sale EXCEPT ![s] =
            [prepaid |-> p, created |-> today, qty |-> qty, drawn |-> d, due |-> qty - used]]
      /\ db'.prepaid[p].remain = db.prepaid[p].remain - used
      /\ db'.prepaid[p].type = db.prepaid[p].type
      /\ \A q \in PrepaidIds : q # p => db'.prepaid[q] = db.prepaid[q]
  BY <1>0, <1>13, CheckOutEffect, SMTT(30)
<1>2. /\ db'.sale[s].prepaid = p /\ db'.sale[s].drawn = d
      /\ \A x \in SaleIds : x # s => db'.sale[x] = db.sale[x]
      /\ DOMAIN db.sale = SaleIds /\ DOMAIN db'.sale = SaleIds
  BY <1>1, RowTypes
<1>3. p \in Live(db.prepaid)' /\ s \in Live(db.sale)'
  <2>1. \A q \in PrepaidIds : q \in Live(db.prepaid)' <=> db'.prepaid[q] # NoRow
    BY DEF Database, Live
  <2>2. db'.prepaid[p] # NoRow
    <3>1. Live(db.prepaid)' = Live(db.prepaid)
      <4>1. db'.prepaid = CheckOutDb(db, p, s, today, qty).prepaid
        BY DEF CheckOut
      <4> DEFINE prow == [db.prepaid[p] EXCEPT
                             !.remain = db.prepaid[p].remain - used,
                             !.active = @ /\ ~(db.prepaid[p].remain - used <= 0
                                                 /\ db.prepaid[p].type \in VoucherTypes)]
                 left == db.prepaid[p].remain - used
                 open == db.prepaid[p].active
                           /\ ~(left <= 0 /\ db.prepaid[p].type \in VoucherTypes)
      <4>2. db'.prepaid = [db.prepaid EXCEPT ![p] = prow]
        BY <4>1, <1>0, RowTypes DEF CheckOutDb
      <4>3. left \in Int /\ open \in BOOLEAN /\ db.prepaid[p] \in PrepaidRow
        BY <1>1, RowTypes DEF PrepaidRow
      <4>4. prow = [db.prepaid[p] EXCEPT !.remain = left, !.active = open]
        OBVIOUS
      <4> HIDE DEF left, open, prow
      <4>5. prow \in PrepaidRow
        BY <4>3, <4>4 DEF PrepaidRow
      <4> QED BY <4>2, <4>5, <1>1, RowTypes, TablesAssumption DEF Live
    <3> QED BY <3>1, <1>1 DEF Live
  <2>3. db'.sale[s] # NoRow
    <3>1. [prepaid |-> p, created |-> today, qty |-> qty, drawn |-> d, due |-> qty - used] \in SaleRow
      BY <1>0, <1>1, <1>13, DrawsType DEF SaleRow
    <3> QED BY <3>1, <1>1, RowTypes, TablesAssumption
  <2> QED BY <2>1, <2>2, <2>3, <1>2 DEF Live
<1> HIDE DEF used
<1>4. /\ Holdings[p] = [cash |-> db.prepaid[p].type \in CashTypes, held |-> db.prepaid[p].remain]
      /\ Holdings[p] # NoRow /\ db.prepaid[p].remain \in Nat
  BY <1>1, HoldingsOf
<1>5. /\ Holdings'[p] = [cash |-> db.prepaid[p].type \in CashTypes, held |-> db'.prepaid[p].remain]
      /\ Holdings'[p] # NoRow /\ db'.prepaid[p].remain \in Nat
  BY <1>1, <1>3, ShownNext DEF ShowsHoldings
<1>6. Holdings' = [Holdings EXCEPT ![p] = Holdings'[p]]
  BY <1>1, RowTypes, OneAccount DEF Database
<1>7. Drawings[s] = NoRow
  BY <1>1, DrawingsOf
<1>8. \A x \in SaleIds : x # s => Drawings'[x] = Drawings[x]
  BY <1>2 DEF Drawings, Live
<1>9. Drawings = [x \in SaleIds |-> Drawings[x]] /\ Drawings' = [x \in SaleIds |-> Drawings'[x]]
  BY DEF Drawings
<1>10. CASE used = 0
  <2>1. Holdings'[p] = Holdings[p]
    BY <1>1, <1>4, <1>5, <1>10
  <2>2. Holdings' = Holdings
    BY <2>1, <1>6 DEF Holdings
  <2>3. Drawings'[s] = NoRow
    <3>1. ~(Total(db'.sale[s].drawn, NPtts) > 0)
      BY <1>2, <1>10 DEF used
    <3> QED BY <3>1, ShownNext DEF ShowsDrawings
  <2>4. Drawings' = Drawings
    BY <2>3, <1>7, <1>8, <1>9
  <2> QED BY <2>2, <2>4
<1>11. CASE used # 0
  <2>1. Drawings'[s] = [from |-> p, amount |-> used]
    <3>1. Total(db'.sale[s].drawn, NPtts) > 0 /\ Total(db'.sale[s].drawn, NPtts) = used
      BY <1>1, <1>2, <1>11 DEF used
    <3> QED BY <3>1, <1>2, <1>3, ShownNext DEF ShowsDrawings
  <2>2. /\ Holdings'[p].held = Holdings[p].held - used
        /\ Holdings'[p].held \in Nat /\ Holdings[p].held \in Nat
        /\ Holdings'[p] = [cash |-> Holdings[p].cash, held |-> Holdings'[p].held]
    BY <1>1, <1>4, <1>5
  <2>3. Account!Rebalanced(p)
    BY <2>2, <1>5, <1>6 DEF Account!Rebalanced
  <2>4. Holdings'[p].held < Holdings[p].held /\ Holdings[p].held - Holdings'[p].held = used
    BY <2>2, <1>1, <1>11
  <2>5. Drawings' = [Drawings EXCEPT ![s] = [from |-> p,
                        amount |-> Holdings[p].held - Holdings'[p].held]]
    BY <2>1, <2>4, <1>8, <1>9
  <2>6. p \in Account!Opened /\ s \notin Account!Drawing
    BY <1>4, <1>7 DEF Account!Opened, Account!Drawing
  <2> QED BY <2>3, <2>4, <2>5, <2>6 DEF Account!Spend
<1> QED BY <1>10, <1>11

\* Deleting an order refunds what its payments drew, exactly for cash; an order
\* that drew nothing leaves the account as it was.
LEMMA RefundStep ==
    ASSUME AInv, AInv', NEW s \in SaleIds, RemoveSale(s)
    PROVE  Account!Refund(s) \/ UNCHANGED <<Holdings, Drawings>>
<1> USE DEF AInv, TypeOK
<1>0. PICK back, p : back = PutBack(db, s) /\ p = db.sale[s].prepaid
  OBVIOUS
<1> DEFINE d == db.sale[s].drawn
           amount == Total(d, NPtts)
           gain == Total(back, NPtts)
<1>13. s \in Live(db.sale) /\ db' = RemoveSaleDb(db, s) /\ RowsRefer(db)
  BY DEF RemoveSale, Refers
<1>1. /\ s \in Live(db.sale) /\ db'.sale = [db.sale EXCEPT ![s] = NoRow]
      /\ \A q \in PrepaidIds : db'.prepaid[q].type = db.prepaid[q].type
      /\ \A q \in PrepaidIds : q # p => db'.prepaid[q] = db.prepaid[q]
      /\ IF \E t \in PttIds : back[t] > 0
         THEN db'.prepaid[p].remain = db.prepaid[p].remain + gain /\ db'.prepaid[p] # NoRow
         ELSE db'.prepaid = db.prepaid
  BY <1>0, <1>13, RemoveSaleEffect, SMTT(30)
<1>2. NPtts \in Nat /\ PttIds = 1..NPtts
  BY TablesAssumption DEF PttIds
<1>3. /\ d \in [PttIds -> Nat] /\ back \in [PttIds -> Nat] /\ p \in PrepaidIds
      /\ \A t \in PttIds : d[t] <= back[t]
      /\ db.prepaid[p].type \in CashTypes => \A t \in PttIds : d[t] = back[t]
      /\ \A t \in PttIds : d[t] = 0 => back[t] = 0
  <2>1. d \in [PttIds -> Nat] /\ p \in PrepaidIds
    BY <1>0, <1>1, RowTypes DEF SaleRow
  <2>2. back \in [PttIds -> Nat]
    BY <1>0, <1>1, PutBackType
  <2>3. \A t \in PttIds : d[t] <= back[t] /\ (db.prepaid[p].type \in CashTypes => d[t] = back[t])
    <3>1. ASSUME NEW t \in PttIds
          PROVE  d[t] <= back[t] /\ (db.prepaid[p].type \in CashTypes => d[t] = back[t])
      BY <1>0, <1>1, PutBackEnough
    <3> QED BY <3>1
  <2>4. \A t \in PttIds : d[t] = 0 => back[t] = 0
    BY <1>0 DEF PutBack
  <2> QED BY <2>1, <2>2, <2>3, <2>4
<1>4. amount \in Nat /\ gain \in Nat /\ amount <= gain
  <2>1. d \in [PttIds -> Int] /\ back \in [PttIds -> Int]
    BY <1>3
  <2> HIDE DEF d
  <2>2. Total(d, NPtts) <= Total(back, NPtts)
    BY <2>1, <1>2, <1>3, TotalMonotone
  <2>3. Total(d, NPtts) \in Nat /\ Total(back, NPtts) \in Nat
    BY <1>2, <1>3, TotalNonNegative
  <2> QED BY <2>2, <2>3
<1>5. db.prepaid[p].type \in CashTypes => gain = amount
  <2>1. db.prepaid[p].type \in CashTypes => d = back
    BY <1>3
  <2> QED BY <2>1
<1>6. /\ db'.sale[s] = NoRow /\ DOMAIN db'.sale = SaleIds /\ DOMAIN db.sale = SaleIds
      /\ \A x \in SaleIds : x # s => db'.sale[x] = db.sale[x]
  BY <1>1, RowTypes
<1>7. Drawings'[s] = NoRow
  BY <1>6 DEF Drawings, Live
<1>8. \A x \in SaleIds : x # s => Drawings'[x] = Drawings[x]
  BY <1>6 DEF Drawings, Live
<1>9. Drawings = [x \in SaleIds |-> Drawings[x]] /\ Drawings' = [x \in SaleIds |-> Drawings'[x]]
  BY DEF Drawings
<1>10. CASE amount = 0
  <2>1. ~\E t \in PttIds : back[t] > 0
    <3>1. ASSUME NEW t \in PttIds PROVE back[t] = 0
      <4> HIDE DEF d
      <4>1. d[t] <= Total(d, NPtts) /\ d[t] \in Nat
        BY <1>2, <1>3, TotalBoundsEntry
      <4>2. d[t] = 0
        BY <4>1, <1>10
      <4> QED BY <4>2, <1>3
    <3> QED BY <3>1
  <2>2. db'.prepaid = db.prepaid
    BY <2>1, <1>1
  <2>3. Drawings[s] = NoRow
    <3>1. ~(Total(db.sale[s].drawn, NPtts) > 0)
      BY <1>10
    <3> QED BY <3>1, DrawingsOf
  <2>4. Drawings' = Drawings
    BY <2>3, <1>7, <1>8, <1>9
  <2> QED BY <2>2, <2>4 DEF Holdings
<1>11. CASE amount # 0
  <2>1. /\ Drawings[s] = [from |-> p, amount |-> amount] /\ Drawings[s] # NoRow
        /\ p \in Live(db.prepaid)
        /\ \E t \in PttIds : d[t] > 0
    <3>1. Total(db.sale[s].drawn, NPtts) > 0
      BY <1>4, <1>11
    <3> QED BY <3>1, <1>0, <1>1, DrawingsOf, RowTypes DEF PttsOf
  <2>2. \E t \in PttIds : back[t] > 0
    BY <2>1, <1>3
  <2>3. db'.prepaid[p].remain = db.prepaid[p].remain + gain /\ db'.prepaid[p] # NoRow
    BY <2>2, <1>1
  <2> HIDE DEF amount, gain
  <2>4. p \in Live(db.prepaid)'
    BY <2>3, <1>3 DEF Database, Live
  <2>5. /\ Holdings[p] = [cash |-> db.prepaid[p].type \in CashTypes, held |-> db.prepaid[p].remain]
        /\ Holdings[p] # NoRow /\ db.prepaid[p].remain \in Nat
    BY <2>1, <1>3, HoldingsOf
  <2>6. /\ Holdings'[p] = [cash |-> db.prepaid[p].type \in CashTypes, held |-> db'.prepaid[p].remain]
        /\ Holdings'[p] # NoRow /\ db'.prepaid[p].remain \in Nat
    BY <2>4, <1>1, <1>3, ShownNext DEF ShowsHoldings
  <2>7. Holdings' = [Holdings EXCEPT ![p] = Holdings'[p]]
    BY <1>1, <1>3, RowTypes, OneAccount DEF Database
  <2>8. /\ Holdings'[p].held - Holdings[p].held = gain /\ Holdings'[p].held \in Nat
        /\ Holdings'[p] = [cash |-> Holdings[p].cash, held |-> Holdings'[p].held]
        /\ Holdings[p].cash = (db.prepaid[p].type \in CashTypes)
    <3>1. /\ Holdings[p].cash = (db.prepaid[p].type \in CashTypes)
          /\ Holdings[p].held = db.prepaid[p].remain
      BY <2>5
    <3>2. /\ Holdings'[p].held = db'.prepaid[p].remain
          /\ Holdings'[p] = [cash |-> Holdings[p].cash, held |-> Holdings'[p].held]
      BY <2>6, <3>1
    <3> DEFINE h == db.prepaid[p].remain
               h1 == db'.prepaid[p].remain
    <3>3. h \in Nat /\ h1 \in Nat /\ h1 = h + gain /\ gain \in Nat
      BY <2>3, <2>5, <2>6, <1>4 DEF gain
    <3> HIDE DEF h, h1
    <3>4. h1 - h = gain
      BY <3>3
    <3> QED BY <3>1, <3>2, <3>3, <3>4 DEF h, h1
  <2>9. Account!Rebalanced(p)
    BY <2>6, <2>7, <2>8 DEF Account!Rebalanced
  <2>10. Drawings[s].from = p /\ Drawings[s].amount = amount
    BY <2>1
  <2>11. IF Holdings[p].cash THEN Holdings'[p].held - Holdings[p].held = Drawings[s].amount
         ELSE Holdings'[p].held - Holdings[p].held >= Drawings[s].amount
    BY <2>8, <2>10, <1>4, <1>5
  <2>12. Drawings' = [Drawings EXCEPT ![s] = NoRow]
    BY <1>7, <1>8, <1>9
  <2>13. s \in Account!Drawing
    BY <2>1 DEF Account!Drawing
  <2> QED BY <2>9, <2>10, <2>11, <2>12, <2>13 DEF Account!Refund
<1> QED BY <1>10, <1>11

-----------------------------------------------------------------------------
\* Which prepaid each of the other requests changes.
LEMMA LedgerSteps ==
    ASSUME AInv, AInv', Next
    PROVE  Account!Next \/ UNCHANGED <<Holdings, Drawings>>
<1> USE DEF AInv, TypeOK
<1>0. /\ db.prepaid \in [PrepaidIds -> PrepaidRow \union {NoRow}]
      /\ db'.prepaid \in [PrepaidIds -> PrepaidRow \union {NoRow}]
      /\ \A q \in PrepaidIds : q \in Live(db.prepaid) <=> db.prepaid[q] # NoRow
      /\ \A q \in PrepaidIds : q \in Live(db.prepaid)' <=> db'.prepaid[q] # NoRow
  BY DEF Database, Live
<1>1. ASSUME NEW p \in PrepaidIds, NEW t \in PttIds, NEW type \in Types, NEW v \in Amounts,
             NEW date \in Days, NEW expiry \in Days, AddPrepaid(p, t, type, v, date, expiry)
      PROVE  Account!Open(p)
  <2> DEFINE init == InitValue(type, v)
             row == [type |-> type, active |-> TRUE, init |-> init, remain |-> init]
  <2>1. db'.prepaid = [db.prepaid EXCEPT ![p] = row] /\ db'.sale = db.sale
    BY <1>1 DEF AddPrepaid, AddPrepaidDb
  <2>2. init \in Nat
    BY InitValueType, Inputs
  <2> HIDE DEF init
  <2>3. row \in PrepaidRow
    BY <2>2, InputsAssumption DEF PrepaidRow
  <2> HIDE DEF row
  <2>4. p \notin Live(db.prepaid)
    BY <1>1, TablesAssumption DEF AddPrepaid, IsNextId, PrepaidIds
  <2>5. p \in Live(db.prepaid)' /\ \A q \in PrepaidIds : q # p => db'.prepaid[q] = db.prepaid[q]
    BY <2>1, <2>3, <1>0, TablesAssumption
  <2> QED BY <2>1, <2>4, <2>5, OpenStep
<1>2. ASSUME NEW p \in Live(db.prepaid), NEW i \in Int, NEW r \in Int,
             db'.prepaid = [db.prepaid EXCEPT ![p] = Booked(@, i, r)], db'.sale = db.sale
      PROVE  Account!Adjust(p)
  <2> DEFINE row == Booked(db.prepaid[p], i, r)
  <2>1. p \in PrepaidIds /\ db.prepaid[p] \in PrepaidRow
    BY RowTypes
  <2>2. row \in PrepaidRow /\ row.type = db.prepaid[p].type
    <3>1. row.type = db.prepaid[p].type
      BY DEF Booked
    <3> QED BY <3>1, <2>1, BookedType
  <2>3. db'.prepaid = [db.prepaid EXCEPT ![p] = row]
    BY <1>2
  <2> HIDE DEF row
  <2>4. /\ p \in Live(db.prepaid)' /\ db'.prepaid[p].type = db.prepaid[p].type
        /\ \A q \in PrepaidIds : q # p => db'.prepaid[q] = db.prepaid[q]
    BY <2>1, <2>2, <2>3, <1>0, TablesAssumption
  <2> QED BY <2>4, <1>2, AdjustStep
<1>3. ASSUME NEW p \in PrepaidIds, NEW t \in PttIds, NEW v \in Amounts,
             NEW date \in Days, NEW expiry \in Days, TopUp(p, t, v, date, expiry)
      PROVE  Account!Adjust(p)
  <2>1. /\ p \in Live(db.prepaid) /\ v \in Int
        /\ db'.prepaid = [db.prepaid EXCEPT ![p] = Booked(@, v, v)] /\ db'.sale = db.sale
    BY <1>3, InputsAssumption DEF TopUp, TopUpDb
  <2> QED BY <2>1, <1>2
<1>4. ASSUME NEW p \in PrepaidIds, NEW t \in PttIds, NEW v \in Amounts, NEW r \in Remains,
             NEW active \in BOOLEAN, NEW date \in Days, NEW expiry \in Days,
             EditPrepaid(p, t, v, r, active, date, expiry)
      PROVE  Account!Adjust(p)
  <2> DEFINE init == InitValue(db.prepaid[p].type, v)
             row == [type |-> db.prepaid[p].type, active |-> active, init |-> init, remain |-> r]
  <2>1. p \in Live(db.prepaid) /\ db.prepaid[p] \in PrepaidRow
    BY <1>4, RowTypes DEF EditPrepaid
  <2>2. db'.prepaid = [db.prepaid EXCEPT ![p] = row] /\ db'.sale = db.sale
    BY <1>4, <1>0 DEF EditPrepaid, EditPrepaidDb
  <2>3. init \in Nat /\ r \in Nat
    BY InitValueType, Inputs
  <2> HIDE DEF init
  <2>4. row \in PrepaidRow /\ row.type = db.prepaid[p].type
    BY <2>1, <2>3 DEF PrepaidRow
  <2> HIDE DEF row
  <2>5. /\ p \in Live(db.prepaid)' /\ db'.prepaid[p].type = db.prepaid[p].type
        /\ \A q \in PrepaidIds : q # p => db'.prepaid[q] = db.prepaid[q]
    BY <2>2, <2>4, <1>0, TablesAssumption
  <2> QED BY <2>1, <2>2, <2>5, AdjustStep
<1>5. ASSUME NEW t \in PttIds, NEW v \in Amounts, NEW r \in Remains, NEW active \in BOOLEAN,
             NEW date \in Days, NEW expiry \in Days, EditTopUp(t, v, r, active, date, expiry)
      PROVE  Account!Adjust(db.ptt[t].prepaid)
  <2> DEFINE old == db.ptt[t]
  <2>1. /\ old.prepaid \in Live(db.prepaid) /\ old \in PttRow
        /\ db'.prepaid = [db.prepaid EXCEPT
                             ![old.prepaid] = Booked(@, v - old.init, r - old.remain)]
        /\ db'.sale = db.sale
    BY <1>5, RowTypes DEF EditTopUp, EditTopUpDb, Refers, RowsRefer
  <2>2. v - old.init \in Int /\ r - old.remain \in Int
    BY <2>1, InputsAssumption DEF PttRow
  <2> QED BY <2>1, <2>2, <1>2
<1>6. ASSUME NEW t \in PttIds, DeleteTopUp(t) \/ RemoveOrderOfLater(t)
      PROVE  Account!Adjust(db.ptt[t].prepaid)
  <2> DEFINE old == db.ptt[t]
  <2>1. /\ old.prepaid \in Live(db.prepaid) /\ old \in PttRow
        /\ db'.prepaid = [db.prepaid EXCEPT ![old.prepaid] = Booked(@, -old.init, -old.remain)]
        /\ db'.sale = db.sale
    BY <1>6, RowTypes DEF DeleteTopUp, RemoveOrderOfLater, DeleteTopUpDb, Refers, RowsRefer
  <2>2. -old.init \in Int /\ -old.remain \in Int
    BY <2>1 DEF PttRow
  <2> QED BY <2>1, <2>2, <1>2
<1>7. ASSUME NEW p \in Live(db.prepaid), db' = DeletePrepaidDb(db, p)
      PROVE  Account!Close(p)
  <2>1. db'.prepaid = [db.prepaid EXCEPT ![p] = NoRow] /\ db'.sale = db.sale
    BY <1>7 DEF DeletePrepaidDb
  <2>2. p \in PrepaidIds
    BY RowTypes
  <2>3. p \notin Live(db.prepaid)' /\ \A q \in PrepaidIds : q # p => db'.prepaid[q] = db.prepaid[q]
    BY <2>1, <2>2, <1>0
  <2> QED BY <2>1, <2>3, CloseStep
<1>8. ASSUME NEW t \in PttIds, RemoveOrderOfFirst(t)
      PROVE  Account!Close(db.ptt[t].prepaid)
  <2>1. db.ptt[t].prepaid \in Live(db.prepaid) /\ db' = DeletePrepaidDb(db, db.ptt[t].prepaid)
    BY <1>8 DEF RemoveOrderOfFirst, Refers, RowsRefer
  <2> QED BY <2>1, <1>7
<1>9. ASSUME NEW t \in PttIds, Expire(t)
      PROVE  UNCHANGED <<Holdings, Drawings>>
  <2>0. PICK p : p = db.ptt[t].prepaid
    OBVIOUS
  <2> DEFINE open == db.prepaid[p].active /\ db.prepaid[p].type \notin VoucherTypes
             row == [db.prepaid[p] EXCEPT !.active = open]
  <2>1. /\ p \in Live(db.prepaid) /\ p \in PrepaidIds /\ db.prepaid[p] \in PrepaidRow
        /\ db'.prepaid = [db.prepaid EXCEPT ![p] = row] /\ db'.sale = db.sale
    BY <2>0, <1>9, RowTypes DEF Expire, ExpireDb, Refers, RowsRefer
  <2>2. open \in BOOLEAN
    OBVIOUS
  <2> HIDE DEF open
  <2>3. row \in PrepaidRow /\ row.type = db.prepaid[p].type /\ row.remain = db.prepaid[p].remain
    BY <2>1, <2>2 DEF PrepaidRow
  <2> HIDE DEF row
  <2>4. \A q \in PrepaidIds : /\ q \in Live(db.prepaid)' <=> q \in Live(db.prepaid)
                             /\ db'.prepaid[q].type = db.prepaid[q].type
                             /\ db'.prepaid[q].remain = db.prepaid[q].remain
    BY <2>1, <2>3, <1>0, TablesAssumption
  <2>5. Holdings' = Holdings
    BY <2>4 DEF Holdings
  <2> QED BY <2>1, <2>5, DrawingsKept
<1>10. NextDay => UNCHANGED <<Holdings, Drawings>>
  BY DEF NextDay, Holdings, Drawings
<1>11. ASSUME NEW p \in PrepaidIds
       PROVE  Account!Open(p) \/ Account!Adjust(p) \/ Account!Close(p) => Account!Next
  BY DEF Account!Next
<1>12. \A t \in Live(db.ptt) : db.ptt[t].prepaid \in PrepaidIds
  BY RowTypes DEF PttRow
<1>13. ASSUME NEW p \in PrepaidIds, NEW s \in SaleIds, NEW qty \in Amounts, CheckOut(p, s, qty)
       PROVE  Account!Next \/ UNCHANGED <<Holdings, Drawings>>
  BY <1>13, SpendStep DEF Account!Next
<1>14. ASSUME NEW s \in SaleIds, RemoveSale(s)
       PROVE  Account!Next \/ UNCHANGED <<Holdings, Drawings>>
  BY <1>14, RefundStep DEF Account!Next
<1>15. ASSUME NEW t \in PttIds, NEW v \in Amounts, NEW r \in Remains, NEW active \in BOOLEAN,
              NEW date \in Days, NEW expiry \in Days, EditTopUp(t, v, r, active, date, expiry)
       PROVE  Account!Next
  BY <1>5, <1>11, <1>12, <1>15 DEF EditTopUp
<1>16. ASSUME NEW t \in PttIds, DeleteTopUp(t) \/ RemoveOrderOfLater(t)
       PROVE  Account!Next
  BY <1>6, <1>11, <1>12, <1>16 DEF DeleteTopUp, RemoveOrderOfLater
<1>17. ASSUME NEW t \in PttIds, RemoveOrderOfFirst(t)
       PROVE  Account!Next
  BY <1>8, <1>11, <1>12, <1>17 DEF RemoveOrderOfFirst
<1>18. ASSUME NEW p \in PrepaidIds, DeletePrepaid(p)
       PROVE  Account!Next
  BY <1>7, <1>11, <1>18 DEF DeletePrepaid
<1> QED BY <1>1, <1>3, <1>4, <1>9, <1>10, <1>11, <1>13, <1>14, <1>15, <1>16, <1>17, <1>18 DEF Next

\* Whatever the requests and their order, a prepaid behaves as an account: its
\* balance changes with its own sales, corrections, redemptions and refunds
\* only, no more is drawn than it holds, and it is not deleted under a payment.
THEOREM LedgerImplementsAccount == Spec => ImplementsAccount
<1>1. Init => Account!Init
  BY DEF Init, EmptyDatabase, Account!Init, Holdings, Drawings, Live
<1>2. AInv /\ AInv' /\ [Next]_vars => [Account!Next]_Account!accountVars
  <2> SUFFICES ASSUME AInv, AInv', [Next]_vars
               PROVE  Account!Next \/ UNCHANGED <<Holdings, Drawings>>
    BY DEF Account!accountVars
  <2>1. CASE Next
    BY <2>1, LedgerSteps
  <2>2. CASE UNCHANGED vars
    BY <2>2 DEF vars, Holdings, Drawings
  <2> QED BY <2>1, <2>2
<1>3. IInv => AInv
  BY InvFacts, MoneyIsThere DEF AInv, IInv, TypeOK, Refers, NothingOverdrawn
<1> QED BY <1>1, <1>2, <1>3, Invariance, PTL
        DEF Spec, ImplementsAccount, Account!Spec
=============================================================================
