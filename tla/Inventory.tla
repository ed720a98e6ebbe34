------------------------------ MODULE Inventory ------------------------------
(***************************************************************************)
(* The stock of one product in the shops of a company: what each warehouse *)
(* row says there is, the transactions that made it so, and an order from  *)
(* a supplier that is received in shipments.                               *)
(*                                                                         *)
(* Requests overlap as in Booking: one reads the tables and works out what *)
(* it will write, and commits that later, rows written whole.  A pair of   *)
(* shop and inventory is unique among the warehouse rows, the inventory of *)
(* a product is not: two first transactions at once make two.              *)
(***************************************************************************)
EXTENDS Integers, FiniteSets, Sequences, FiniteSetsExt, SequencesExt, TLC

CONSTANTS
    Shops, Sessions,
    Quantities,     \* what a till sells or a transfer moves
    Adjustments,    \* sequences of moves entered on the transaction form
    Deliveries,     \* shipments: what each shop gets
    Ordered,        \* quantities ordered from the supplier
    NEntries,       \* bound on the ids of transactions
    MaxItems,       \* bound on the times the supplier's order is saved
    MaxChanges,     \* bound on the requests that commit
    None

Move == [shop : Shops, in : BOOLEAN, qty : Nat \ {0}]

ASSUME InventoryAssumption ==
    /\ NEntries \in Nat /\ MaxItems \in Nat /\ MaxChanges \in Nat
    /\ Quantities \subseteq Nat \ {0} /\ Ordered \subseteq Nat \ {0}
    /\ \A moves \in Adjustments : moves \in Seq(Move)
    /\ \A d \in Deliveries : d \in [Shops -> Nat] /\ \E shop \in Shops : d[shop] > 0

VARIABLES
    invs,       \* the Inventory rows of the product
    stock,      \* the quantity of each warehouse row, by shop and inventory
    entries,    \* the InventoryTransaction rows
    order,      \* the supplier's order: status, item row and quantity, or None
    received,   \* what its shipments brought
    page,       \* page[s]: the transfer s has confirmed on the page, or None
    pending,    \* pending[s]: what the request of s will write, or None
    behind,     \* history: sessions whose transfer was checked before the last
                \* request committed
    overwrote,  \* history: shops with a warehouse row written over a newer one
    short,      \* history: shops that gave out more than their row held
    unsettled,  \* history: the order's status was last written without the
                \* shipments or the quantity it has now
    changes     \* history: requests committed

vars == <<invs, stock, entries, order, received, page, pending, behind,
          overwrote, short, unsettled, changes>>

Init ==
    /\ invs = {} /\ stock = <<>> /\ entries = <<>>
    /\ order = None /\ received = 0
    /\ page = [s \in Sessions |-> None]
    /\ pending = [s \in Sessions |-> None]
    /\ behind = {}
    /\ overwrote = {} /\ short = {} /\ unsettled = FALSE
    /\ changes = 0

-----------------------------------------------------------------------------
(* Stock *)

SumOver(f, S) == FoldFunctionOnSet(+, 0, f, S)

\* What the stock pages show: the sum over the inventories of the product.
ProductOptionQtyByShop(shop) == SumOver(stock, {k \in DOMAIN stock : k[1] = shop})

Running == {s \in Sessions : pending[s] # None}

\* The tables a request reads, and what it keeps track of while it goes on.
Snapshot == [invs |-> invs, stock |-> stock, moves |-> <<>>, touched |-> {}, short |-> {}]

\* Ids are given out in order, also to what is not committed yet.
NewInv ==
    LET known == invs \union UNION {pending[s].invs : s \in Running}
    IN  1 + IF known = {} THEN 0 ELSE Max(known)

\* The row of the shop under the product's inventory: the last, if there are
\* several.
Warehouse(db, shop) == <<shop, IF db.invs = {} THEN NewInv ELSE Max(db.invs)>>

\* One movement.  Stock does not go below zero.
Moved(db, m) ==
    LET k == Warehouse(db, m.shop)
        held == IF k \in DOMAIN db.stock THEN db.stock[k] ELSE 0
        left == IF m.in THEN held + m.qty ELSE held - m.qty
    IN  [db EXCEPT !.invs = @ \union {k[2]},
                   !.stock = k :> (IF left > 0 THEN left ELSE 0) @@ @,
                   !.touched = @ \union {k},
                   !.short = IF left < 0 THEN @ \union {m.shop} ELSE @]

\* A movement with the transaction that records it.
Booked(db, m) == [Moved(db, m) EXCEPT !.moves = Append(@, m)]

BookedAll(moves) == FoldLeft(Booked, Snapshot, moves)

\* Ids no row has and no request that is under way knows.
FreshEntries(k) ==
    LET known == UNION {DOMAIN pending[s].entries \union pending[s].drop :
                            s \in Running}
        free  == 1..NEntries \ (DOMAIN entries \union known)
    IN  {S \in SUBSET free : /\ Cardinality(S) = k
                             /\ \A i \in S : \A j \in free \ S : i < j}

-----------------------------------------------------------------------------
(* Requests *)

Write == [invs |-> {}, stock |-> <<>>, seen |-> <<>>, entries |-> <<>>, drop |-> {},
          short |-> {}, order |-> None, item |-> 0, saw |-> None, got |-> 0,
          kind |-> "none"]

\* What a request writes that did the movements of db; its transactions are
\* sales or not.
Writes(db, sale, kind) ==
    {[Write EXCEPT
        !.invs = db.invs \ invs,
        !.stock = [k \in db.touched |-> db.stock[k]],
        !.seen = [k \in db.touched \intersect DOMAIN stock |-> stock[k]],
        !.entries = [i \in ids |-> db.moves[Cardinality({j \in ids : j <= i})] @@ [sale |-> sale]],
        !.short = db.short,
        !.kind = kind] : ids \in FreshEntries(Len(db.moves))}

MayStart(s) ==
    /\ pending[s] = None
    /\ changes + Cardinality(Running) < MaxChanges

Starts(s, write) ==
    /\ MayStart(s)
    /\ pending' = [pending EXCEPT ![s] = write]
    /\ UNCHANGED <<invs, stock, entries, order, received, page, behind,
                   overwrote, short, unsettled, changes>>

\* New stock, returns, corrections, on the transaction form.
TransactionAdd(s, moves) ==
    \E w \in Writes(BookedAll(moves), FALSE, "adjust") : Starts(s, w)

\* A till sells; nothing looks whether there is enough.
Sell(s, shop, qty) ==
    \E w \in Writes(BookedAll(<<[shop |-> shop, in |-> FALSE, qty |-> qty]>>), TRUE, "sale") :
        Starts(s, w)

\* A mistake the code does not make: the transaction of the sale is kept.
RemoveSaleKeepsEntry(s, t) ==
    /\ t \in DOMAIN entries /\ entries[t].sale
    /\ LET back == [shop |-> entries[t].shop, in |-> TRUE, qty |-> entries[t].qty]
       IN  \E w \in Writes(Moved(Snapshot, back), FALSE, "remove") : Starts(s, w)

\* The order of a sale is deleted: the quantity goes back, also what was not
\* there, and the transaction is deleted.
RemoveSale(s, t) ==
    /\ t \in DOMAIN entries /\ entries[t].sale
    /\ LET back == [shop |-> entries[t].shop, in |-> TRUE, qty |-> entries[t].qty]
       IN  \E w \in Writes(Moved(Snapshot, back), FALSE, "remove") :
               Starts(s, [w EXCEPT !.drop = {t}])

\* A mistake the code does not make: the page does not look at the quantity.
TransferConfirmAny(s, from, to, inv, qty) ==
    /\ pending[s] = None /\ from # to
    /\ <<from, inv>> \in DOMAIN stock
    /\ page' = [page EXCEPT ![s] = [from |-> from, to |-> to, qty |-> qty]]
    /\ behind' = behind \ {s}
    /\ UNCHANGED <<invs, stock, entries, order, received, pending,
                   overwrote, short, unsettled, changes>>

\* The transfer page checks the inventory the user picked.
TransferConfirm(s, from, to, inv, qty) ==
    /\ pending[s] = None /\ from # to
    /\ <<from, inv>> \in DOMAIN stock /\ stock[<<from, inv>>] >= qty
    /\ page' = [page EXCEPT ![s] = [from |-> from, to |-> to, qty |-> qty]]
    /\ behind' = behind \ {s}
    /\ UNCHANGED <<invs, stock, entries, order, received, pending,
                   overwrote, short, unsettled, changes>>

\* The request that makes the transfer does not check again.
Transfer(s) ==
    /\ page[s] # None /\ MayStart(s)
    /\ LET out == [shop |-> page[s].from, in |-> FALSE, qty |-> page[s].qty]
           in  == [shop |-> page[s].to, in |-> TRUE, qty |-> page[s].qty]
       IN  \E w \in Writes(BookedAll(<<out, in>>), FALSE, "transfer") :
               pending' = [pending EXCEPT ![s] = w]
    /\ page' = [page EXCEPT ![s] = None]
    /\ UNCHANGED <<invs, stock, entries, order, received, behind,
                   overwrote, short, unsettled, changes>>

-----------------------------------------------------------------------------
(* The supplier's order *)

\* Its item, 0 when there is no order yet.
Item == IF order = None THEN 0 ELSE order.item

NextItem ==
    1 + Max({Item} \union {pending[s].order.item : s \in {t \in Running :
                                                     pending[t].kind = "order"}})

\* The order is entered, or edited: its item is deleted and made anew.  The
\* list offers that while the order is pending; the page may be old.
SaveOrder(s, qty) ==
    /\ NextItem <= MaxItems
    /\ order # None \/ NextItem = 1
    /\ Starts(s, [Write EXCEPT
            !.kind = "order",
            !.item = Item,
            !.saw = <<order, received>>,
            !.order = [status |-> IF order = None THEN "PENDING" ELSE order.status,
                       item |-> NextItem, qty |-> qty]])

\* A mistake the code does not make: the shipment just saved is not counted.
UpdateStatusBefore(got) == IF received >= order.qty THEN "COMPLETE" ELSE "RECEIVING"

UpdateStatus(got) == IF received + got >= order.qty THEN "COMPLETE" ELSE "RECEIVING"

\* A shipment is received into the shops.  It may bring too much, and, from an
\* old page, come when the order is complete.
Receive(s, d) ==
    /\ order # None
    /\ LET to    == SetToSeq({shop \in Shops : d[shop] > 0})
           moves == [n \in DOMAIN to |-> [shop |-> to[n], in |-> TRUE, qty |-> d[to[n]]]]
           got   == SumOver(d, Shops)
       IN  \E w \in Writes(BookedAll(moves), FALSE, "shipment") :
               Starts(s, [w EXCEPT !.got = got,
                                   !.saw = <<order, received>>,
                                   !.order = [order EXCEPT !.status = UpdateStatus(got)]])

\* What the request changes or deletes is still there, and no other made the
\* warehouse row or deleted the item before it.
StillThere(w) ==
    /\ \A k \in DOMAIN w.stock \ DOMAIN w.seen : k \notin DOMAIN stock
    /\ w.drop \subseteq DOMAIN entries
    /\ w.kind = "order" => w.item = Item

\* An order's row is written with the status the request worked out; its item
\* only by a request that saves the order.
OrderWritten(w) ==
    IF w.kind = "order" THEN w.order ELSE [order EXCEPT !.status = w.order.status]

Commit(s) ==
    LET w == pending[s]
    IN  /\ w # None /\ StillThere(w)
        /\ invs' = invs \union w.invs
        /\ stock' = w.stock @@ stock
        /\ entries' = w.entries @@ [i \in DOMAIN entries \ w.drop |-> entries[i]]
        /\ order' = IF w.order = None THEN order ELSE OrderWritten(w)
        /\ received' = received + w.got
        /\ pending' = [pending EXCEPT ![s] = None]
        /\ page' = page
        /\ behind' = {t \in Sessions : page[t] # None}
                     \union {t \in Running \ {s} : pending[t].kind = "transfer"}
        /\ overwrote' = overwrote \union
                        {k[1] : k \in {j \in DOMAIN w.seen : stock[j] # w.seen[j]}}
        /\ short' = short \union w.short
        /\ unsettled' = IF w.order = None THEN unsettled
                        ELSE \/ w.saw # <<order, received>>
                             \/ w.kind = "order" /\ received > 0
        /\ changes' = changes + 1

Fail(s) ==
    /\ pending[s] # None /\ ~StillThere(pending[s])
    /\ pending' = [pending EXCEPT ![s] = None]
    /\ UNCHANGED <<invs, stock, entries, order, received, page, behind,
                   overwrote, short, unsettled, changes>>

Next == \E s \in Sessions :
    \/ \E moves \in Adjustments : TransactionAdd(s, moves)
    \/ \E shop \in Shops, qty \in Quantities : Sell(s, shop, qty)
    \/ \E t \in DOMAIN entries : RemoveSale(s, t)
    \/ \E k \in DOMAIN stock, to \in Shops, qty \in Quantities :
           TransferConfirm(s, k[1], to, k[2], qty)
    \/ Transfer(s)
    \/ \E qty \in Ordered : SaveOrder(s, qty)
    \/ \E d \in Deliveries : Receive(s, d)
    \/ Commit(s)
    \/ Fail(s)

Spec == Init /\ [][Next]_vars

-----------------------------------------------------------------------------
(* Properties *)

TypeOK ==
    /\ DOMAIN stock \subseteq Shops \X invs
    /\ \A k \in DOMAIN stock : stock[k] \in Nat
    /\ DOMAIN entries \subseteq 1..NEntries
    /\ \A i \in DOMAIN entries : entries[i].shop \in Shops /\ entries[i].qty > 0
    /\ order = None \/ order.status \in {"PENDING", "RECEIVING", "COMPLETE"}
    /\ received \in Nat
    /\ overwrote \union short \subseteq Shops /\ unsettled \in BOOLEAN

\* What the transactions of the shop add up to.
Recorded(shop) ==
    LET at == {i \in DOMAIN entries : entries[i].shop = shop}
        signed == [i \in at |-> IF entries[i].in THEN entries[i].qty ELSE -entries[i].qty]
    IN  SumOver(signed, at)

\* The stock of a shop is what its transactions add up to, through every
\* sale, deletion of a sale, transfer and shipment, however the rows of the
\* product are split; more than that once it gave out what it did not have
\* (InventoryWarehouseServiceImpl.java:61 stops at zero, and deleting the
\* sale puts all of it back).  Only a row written over a newer one (no version,
\* no lock) makes it anything else.
StockFollowsTransactions ==
    \A shop \in Shops \ overwrote :
        IF shop \in short THEN ProductOptionQtyByShop(shop) >= Recorded(shop)
                          ELSE ProductOptionQtyByShop(shop) = Recorded(shop)

\* A transfer neither makes nor loses stock, although it goes into the rows
\* after a check that was made on another request: unless another request
\* committed since the check, or the product has two inventories, where the
\* check is of one and the transfer from the other.
TransferKeepsTotal ==
    [][\A s \in Sessions :
         /\ pending[s] # None /\ pending[s].kind = "transfer"
         /\ pending'[s] = None /\ changes' > changes
         /\ s \notin behind /\ Cardinality(invs) = 1
         => SumOver(stock', DOMAIN stock') = SumOver(stock, DOMAIN stock)]_vars

\* The status of the supplier's order says what has come of it
\* (InventoryPurchaseOrderServiceImpl.java:133-165): unless the last request
\* that wrote it had not seen the latest shipment or edit, or was itself an
\* edit of an order partly received, which leaves the status as it was.
StatusFollowsShipments ==
    order # None /\ ~unsettled =>
        order.status = CASE received = 0          -> "PENDING"
                         [] received >= order.qty -> "COMPLETE"
                         [] OTHER                 -> "RECEIVING"
=============================================================================
