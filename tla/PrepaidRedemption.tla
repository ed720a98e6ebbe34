-------------------------- MODULE PrepaidRedemption --------------------------
(***************************************************************************)
(* Paying one item of a checkout with a prepaid, transaction by            *)
(* transaction: the loop of reviewPrepaidWhenPaidByPrepaid.  PrepaidTables *)
(* states what the loop amounts to in one operator, CheckOutDb; the        *)
(* properties here say that the loop does that and no more, and relate the *)
(* payments it records to what it takes.                                   *)
(***************************************************************************)
EXTENDS PrepaidQueue

CONSTANTS
    Inputs,         \* the databases the loop is started in
    Quantities,     \* item amounts (cash) and quantities (treatments)
    Today,
    UnitValue       \* what one treatment of each transaction was sold for

ASSUME RedemptionAssumption ==
    /\ Inputs \subseteq Database
    /\ Quantities \subseteq Nat \ {0}
    /\ UnitValue \in [PttIds -> Nat \ {0}]

VARIABLES
    before,     \* the database the request found
    db,         \* the database as the loop has changed it so far
    p, qty,     \* the prepaid and the amount, or the number of treatments, to pay
    queue,      \* the usable transactions not looked at yet
    open,       \* itemAmount or totalQty: what is still to be paid
    left,       \* prepaidRemainValue
    usedAmount, \* carried from one round of the loop to the next
    payments,   \* the amount of the payment recorded for each transaction
    finished

vars == <<before, db, p, qty, queue, open, left, usedAmount, payments, finished>>

IsCash == db.prepaid[p].type \in CashTypes

Init ==
    /\ before \in Inputs
    /\ db = before
    /\ p \in Live(before.prepaid)
    /\ qty \in Quantities
    /\ queue = ActivePtts(before, p, Today)
    /\ open = qty
    /\ left = before.prepaid[p].remain
    /\ usedAmount = 0
    /\ payments = [t \in PttIds |-> 0]
    /\ finished = FALSE

\* Mutants of Redeem.  A drained transaction stays active:
RedeemKeepsActive(t, taken, amount) ==
    /\ db' = [db EXCEPT !.ptt[t].remain = @ - taken]
    /\ open' = open - taken
    /\ left' = left - taken
    /\ usedAmount' = amount
    /\ payments' = [payments EXCEPT ![t] = amount]
    /\ UNCHANGED <<before, p, qty, finished>>

\* only the last round counts against the balance of the prepaid:
RedeemCountsLast(t, taken, amount) ==
    LET rest == db.ptt[t].remain - taken
    IN  /\ db' = [db EXCEPT !.ptt[t].remain = rest,
                            !.ptt[t].active = @ /\ rest > 0]
        /\ open' = open - taken
        /\ left' = before.prepaid[p].remain - taken
        /\ usedAmount' = amount
        /\ payments' = [payments EXCEPT ![t] = amount]
        /\ UNCHANGED <<before, p, qty, finished>>

\* One round takes `taken` from t and records a payment of `amount` for it.
Redeem(t, taken, amount) ==
    LET rest == db.ptt[t].remain - taken
    IN  /\ db' = [db EXCEPT !.ptt[t].remain = rest,
                            !.ptt[t].active = @ /\ rest > 0]
        /\ open' = open - taken
        /\ left' = left - taken
        /\ usedAmount' = amount
        /\ payments' = [payments EXCEPT ![t] = amount]
        /\ UNCHANGED <<before, p, qty, finished>>

\* Mutant of PayRest: forgets the value of the treatments taken before.
PayRestAlone ==
    /\ queue # <<>>
    /\ LET t == Head(queue)
       IN  /\ open <= db.ptt[t].remain
           /\ Redeem(t, open, IF IsCash THEN open ELSE UnitValue[t] * open)
    /\ queue' = <<>>

\* The transaction covers what is open: its round is the last.
PayRest ==
    /\ queue # <<>>
    /\ LET t == Head(queue)
       IN  /\ open <= db.ptt[t].remain
           /\ Redeem(t, open, IF IsCash THEN open ELSE usedAmount + UnitValue[t] * open)
    /\ queue' = <<>>

\* Mutant of PayPart: looks at the same transaction again.
PayPartAgain ==
    /\ queue # <<>>
    /\ LET t    == Head(queue)
           have == db.ptt[t].remain
       IN  /\ open > have
           /\ Redeem(t, have, IF IsCash THEN have ELSE usedAmount + UnitValue[t] * have)
    /\ UNCHANGED queue

\* The transaction gives all it has.  Cash restarts usedAmount in every round,
\* treatments add to it.
PayPart ==
    /\ queue # <<>>
    /\ LET t    == Head(queue)
           have == db.ptt[t].remain
       IN  /\ open > have
           /\ Redeem(t, have, IF IsCash THEN have ELSE usedAmount + UnitValue[t] * have)
    /\ queue' = Tail(queue)

\* After the loop: the balance of the prepaid, and the item with its payments.
Finish ==
    /\ queue = <<>> /\ ~finished
    /\ finished' = TRUE
    /\ \E s \in SaleIds :
         /\ IsNextId(db.sale, s)
         /\ db' = [db EXCEPT
                     !.prepaid[p].remain = left,
                     !.prepaid[p].active = @ /\ ~(left <= 0 /\ db.prepaid[p].type \in VoucherTypes),
                     !.sale[s] = [prepaid |-> p, created |-> Today, qty |-> qty, due |-> open,
                                  drawn |-> [t \in PttIds |->
                                      IF payments[t] = 0 THEN 0
                                      ELSE before.ptt[t].remain - db.ptt[t].remain]]]
    /\ UNCHANGED <<before, p, qty, queue, open, left, usedAmount, payments>>

Done == finished /\ UNCHANGED vars

Next == PayRest \/ PayPart \/ Finish \/ Done

Spec == Init /\ [][Next]_vars /\ WF_vars(Next)

-----------------------------------------------------------------------------
(***************************************************************************)
(* Properties                                                              *)
(***************************************************************************)
\* The whole loop leaves exactly what CheckOutDb says: whatever the order,
\* expiry and balance of the transactions, each is drained before the next is
\* touched, and nothing is taken twice.
RedeemsAsOne ==
    finished =>
        \E s \in SaleIds :
            /\ IsNextId(before.sale, s)
            /\ db = CheckOutDb(before, p, s, Today, qty)

\* While the loop runs, what was taken from the transactions, what is still to
\* be paid and the balance to be written back to the prepaid add up.
Taken == [t \in PttIds |-> IF t \in Live(db.ptt)
                           THEN before.ptt[t].remain - db.ptt[t].remain ELSE 0]

TakenAddsUp ==
    /\ Total(Taken, NPtts) + open = qty
    /\ left = before.prepaid[p].remain - Total(Taken, NPtts)

\* For cash, the payments recorded are what was taken.  For treatments,
\* usedAmount ends as the value of the treatments taken: the effective value
\* of the item, from which commission is computed.
UnitsTakenValue == [t \in PttIds |-> Taken[t] * UnitValue[t]]

ItemIsValued ==
    finished =>
        IF IsCash THEN payments = Taken
        ELSE usedAmount = Total(UnitsTakenValue, NPtts)

\* The loop ends.
Terminates == <>finished
=============================================================================
