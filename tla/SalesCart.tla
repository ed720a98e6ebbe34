------------------------------ MODULE SalesCart ------------------------------
(***************************************************************************)
(* The till: a page with a cart whose items are paid with one prepaid.     *)
(* Adding an item asks the server to quote it: what the prepaid will pay   *)
(* and what is left to the customer.  The HTTP session remembers how much  *)
(* of the prepaid the cart is already counting on; every page of a user    *)
(* shares it.  Checking out redeems the prepaid for real, item by item,    *)
(* and books what the customer paid.  Amounts count the smallest coin, of  *)
(* which Whole make a unit of money; a treatment costs one coin.           *)
(***************************************************************************)
EXTENDS PrepaidQueue

CONSTANTS
    Pages,      \* the pages a user has open on the till
    Starts,     \* databases with one prepaid, not redeemed
    Quantities, \* item amounts (cash) and quantities (treatments)
    MaxItems,   \* bound on the items of a cart
    Today,
    Whole,      \* coins in a unit of money
    NoEntry     \* what a session map answers for a prepaid it does not hold

ASSUME CartAssumption ==
    /\ Starts \subseteq Database
    /\ \A d \in Starts : 1 \in Live(d.prepaid) /\ Live(d.sale) = {}
    /\ Whole \in Nat \ {0}

VARIABLES
    db,         \* the tables
    used,       \* the prepaid's entry in USED_PREPAID_MAP or USED_PREPAID_UNIT_MAP
    cart,       \* of each page: its items as they were quoted
    alone,      \* history: nothing but the page itself has moved its quotes
    removed,    \* history: the page has removed an item
    receipt     \* history: what the checkout just made took and booked

vars == <<db, used, cart, alone, removed, receipt>>

IsCash   == db.prepaid[1].type \in CashTypes
Queue    == ActivePtts(db, 1, Today)
Counting == IF used = NoEntry THEN 0 ELSE used

Sum(seq) == FoldLeft(LAMBDA x, y : x + y, 0, seq)
PaidOf(g)  == Sum([i \in DOMAIN cart[g] |-> cart[g][i].paid])
FinalOf(g) == Sum([i \in DOMAIN cart[g] |-> cart[g][i].final])

NoReceipt == [taken |-> 0, owed |-> 0, clean |-> FALSE, oneDue |-> FALSE]

Init ==
    /\ db \in Starts
    /\ used = NoEntry
    /\ cart = [g \in Pages |-> <<>>]
    /\ alone = [g \in Pages |-> TRUE]
    /\ removed = [g \in Pages |-> FALSE]
    /\ receipt = NoReceipt

-----------------------------------------------------------------------------
\* Mutant of QuoteCash: each item is quoted as if it were the only one.
QuoteCashAnew(q, t, amount) ==
    LET open == db.ptt[t].remain
    IN  IF q.done THEN q
        ELSE IF amount <= open THEN [q EXCEPT !.paid = amount, !.done = TRUE]
        ELSE [q EXCEPT !.paid = @ + open]

\* One transaction of a cash quote.  The whole of what the cart counts on is
\* held against each of them, and `amount` is not reduced by the ones before.
QuoteCash(q, t, amount) ==
    LET open == db.ptt[t].remain - Counting
    IN  IF q.done THEN q
        ELSE IF open < 0 THEN [q EXCEPT !.paid = db.ptt[t].remain]
        ELSE IF amount <= open THEN [q EXCEPT !.paid = amount, !.done = TRUE]
        ELSE [q EXCEPT !.paid = @ + open]

\* One transaction of a treatment quote: q.open treatments are still to pay.
QuoteUnits(q, t) ==
    LET units == db.prepaid[1].remain - Counting
        have  == db.ptt[t].remain
    IN  IF q.done \/ q.open = 0 \/ units <= 0 THEN [q EXCEPT !.done = TRUE]
        ELSE IF q.open > units THEN [q EXCEPT !.paid = @ + have, !.open = @ - have]
        ELSE [paid |-> q.paid + q.open, open |-> 0, done |-> TRUE]

Quote(qty) ==
    LET start == [paid |-> 0, open |-> qty, done |-> FALSE]
    IN  IF IsCash
        THEN LET q == FoldLeft(LAMBDA x, t : QuoteCash(x, t, qty), start, Queue)
             IN  [qty |-> qty, paid |-> q.paid, final |-> qty - q.paid]
        ELSE LET q == FoldLeft(QuoteUnits, start, Queue)
             IN  [qty |-> qty, paid |-> q.paid, final |-> q.open]


\* The three pages that lead to a checkout start by forgetting the quotes.
OpenPage(g) ==
    /\ used' = NoEntry
    /\ cart' = [cart EXCEPT ![g] = <<>>]
    /\ removed' = [removed EXCEPT ![g] = FALSE]
    /\ alone' = [h \in Pages |-> h = g \/ (alone[h] /\ cart[h] = <<>>)]
    /\ receipt' = NoReceipt
    /\ UNCHANGED db

\* A voucher is refused once it is inactive or its transaction has expired; a
\* package is chosen from a list made earlier.
MayBeUsed ==
    db.prepaid[1].type \in VoucherTypes =>
        /\ db.prepaid[1].active
        /\ \A t \in FirstPtts(db, 1) : db.ptt[t].expiry >= Today

AddItem(g, qty) ==
    /\ Len(cart[g]) < MaxItems
    /\ MayBeUsed
    /\ cart' = [cart EXCEPT ![g] = Append(@, Quote(qty))]
    /\ used' = Counting + Quote(qty).paid
    /\ alone' = [h \in Pages |-> h = g /\ alone[g]]
    /\ receipt' = NoReceipt
    /\ UNCHANGED <<db, removed>>


\* The row goes from the page even if the request fails, as it does when the
\* session has no entry to take the item from.
RemoveItem(g, i) ==
    /\ i \in DOMAIN cart[g]
    /\ cart' = [cart EXCEPT ![g] = RemoveAt(@, i)]
    /\ LET paid == cart[g][i].paid
       IN  used' = IF paid <= 0 \/ used = NoEntry THEN used
                   ELSE IF IsCash THEN used - paid
                   ELSE used - 1
    /\ alone' = [h \in Pages |-> h = g /\ alone[g]]
    /\ removed' = [removed EXCEPT ![g] = TRUE]
    /\ receipt' = NoReceipt
    /\ UNCHANGED db

\* A cart that a quote gets right: a single cash transaction, or treatments one
\* at a time from a balance none of which has expired.
IsSimple(g) ==
    IF IsCash THEN Len(Queue) = 1
    ELSE /\ \A i \in DOMAIN cart[g] : cart[g][i].qty = 1
         /\ \A t \in PttsOf(db, 1) : db.ptt[t].remain > 0 => IsUsable(db, 1, Today, t)

Sales == Cardinality(Live(db.sale))

\* The database after the items of the cart are redeemed, one after the other.
Redeemed(g) ==
    LET after[n \in 0..Len(cart[g])] ==
            IF n = 0 THEN db
            ELSE LET d == after[n - 1] IN CheckOutDb(d, 1, Sales + n, Today, cart[g][n].qty)
    IN  after[Len(cart[g])]

\* Booking a NO_PAYMENT of w: items in the order of a hash set, each that w
\* covers is waived, and w is not reduced by it.
Waive(b, i) ==
    IF b.done \/ b.due[i] <= 0 THEN b
    ELSE IF b.w >= b.due[i] THEN [b EXCEPT !.due[i] = 0]
    ELSE [b EXCEPT !.due[i] = @ - b.w, !.done = TRUE]

Waived(due, w, order) == FoldLeft(Waive, [due |-> due, w |-> w, done |-> FALSE], order).due

Orders(n) == {o \in [1..n -> 1..n] : IsInjective(o)}

\* longValue(): the coins beyond the last unit are cut off, towards zero.
LongValue(x) == IF x >= 0 THEN x \div Whole ELSE -((-x) \div Whole)

\* The payments entered are compared with the subtotal in whole units.
PaymentsMatch(paidIn, subTotal) == LongValue(paidIn) = LongValue(subTotal)

\* The customer pays `paidIn`, w of it as NO_PAYMENT.  Anything the page was not
\* told about the balance shows here.
CheckOut(g) ==
    /\ cart[g] # <<>>
    /\ Sales + Len(cart[g]) <= NSales
    /\ db' = Redeemed(g)
    /\ LET due == [i \in DOMAIN cart[g] |-> db'.sale[Sales + i].due]
       IN  \E paidIn \in (FinalOf(g) - Whole)..(FinalOf(g) + Whole),
              order \in Orders(Len(cart[g])) :
             /\ PaymentsMatch(paidIn, FinalOf(g))
             /\ FinalOf(g) >= 0 => paidIn >= 0
             /\ \E w \in {0} \cup 1..paidIn :
                  receipt' = [taken  |-> paidIn - w,
                              owed   |-> Sum(Waived(due, w, order)),
                              clean  |-> alone[g] /\ ~removed[g] /\ IsSimple(g),
                              oneDue |-> w = 0 \/ Cardinality({i \in DOMAIN due : due[i] > 0}) <= 1]
    /\ cart' = [cart EXCEPT ![g] = <<>>]
    /\ alone' = [h \in Pages |-> FALSE]
    /\ removed' = [removed EXCEPT ![g] = FALSE]
    /\ UNCHANGED used

\* Another till, or the app, redeems the same prepaid.
OtherTill(qty) ==
    /\ Sales < NSales
    /\ db' = CheckOutDb(db, 1, Sales + 1, Today, qty)
    /\ alone' = [h \in Pages |-> alone[h] /\ cart[h] = <<>>]
    /\ receipt' = NoReceipt
    /\ UNCHANGED <<used, cart, removed>>

Next ==
    \/ \E g \in Pages :
         \/ OpenPage(g)
         \/ \E qty \in Quantities : AddItem(g, qty)
         \/ \E i \in 1..MaxItems : RemoveItem(g, i)
         \/ CheckOut(g)
    \/ \E qty \in Quantities : OtherTill(qty)

Spec == Init /\ [][Next]_vars

-----------------------------------------------------------------------------


\* The quotes of a cart never promise more than the transaction holds, and no
\* quote asks for less than nothing.
NeverOverQuoted ==
    \A g \in Pages :
        alone[g] /\ IsCash /\ Len(Queue) = 1 =>
            /\ PaidOf(g) <= db.ptt[Queue[1]].remain
            /\ \A i \in DOMAIN cart[g] : cart[g][i].paid >= 0 /\ cart[g][i].final >= 0
=============================================================================
