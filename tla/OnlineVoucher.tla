---------------------------- MODULE OnlineVoucher ----------------------------
(***************************************************************************)
(* A member buys vouchers with PayPal.  PayPal sends the browser back to   *)
(* the return page with the token of the purchase; the request of that     *)
(* page creates a voucher with its order, hides it, has PayPal capture the *)
(* money and completes the order, one commit at a time.  The page can be   *)
(* loaded again, the server can stop between any two steps, the exchange   *)
(* with PayPal can be lost, repeated or never end, and tills put in their  *)
(* carts whatever looks valid and redeem it later.                         *)
(*                                                                         *)
(* Each load of the page is a request with a voucher of its own: they      *)
(* share an id.  A voucher is worth 1.                                     *)
(***************************************************************************)
EXTENDS Integers

CONSTANTS
    Vouchers,   \* ids of the requests and of the vouchers they create
    Tokens,     \* purchases begun at PayPal
    Retries     \* how often the HTTP client sends an unanswered request again

ASSUME RetriesAssumption == Retries \in Nat

VARIABLES
    pc,         \* the last step of each request
    token,      \* the purchase each request is for
    prepaid,    \* the voucher's row
    ptt,        \* its transaction's row
    books,      \* the states of its order, item, payment and points
    captured,   \* PayPal: what became of each purchase
    repeats,    \* PayPal: whether it confirms a purchase captured before
    reply,      \* PayPal's reply to the last attempt of each request
    unanswered, \* the attempts of each request that were given up
    quoted,     \* the vouchers in some till's cart
    redeemed,   \* history: how often a till redeemed each voucher
    early       \* history: vouchers in a cart before they were hidden, or
                \* never hidden

paypal == <<captured, repeats, reply, unanswered>>
till == <<quoted, redeemed, early>>

vars == <<pc, token, prepaid, ptt, books, paypal, till>>

Statuses == {"none", "Completed", "Pending"}

Running == {"created", "hidden", "waiting", "unsettled", "itemOff", "paymentOff",
            "answered", "item", "payment", "order", "ptt", "prepaid"}

NoToken == "no token"

Init ==
    /\ pc = [v \in Vouchers |-> "unborn"]
    /\ token = [v \in Vouchers |-> NoToken]
    /\ prepaid = [v \in Vouchers |-> [active |-> FALSE, remain |-> 0]]
    /\ ptt = [v \in Vouchers |-> [active |-> FALSE, status |-> "PAY_PENDING", remain |-> 0]]
    /\ books = [v \in Vouchers |-> [item |-> "none", payment |-> "none",
                                    order |-> "none", points |-> FALSE]]
    /\ captured = [t \in Tokens |-> "none"]
    /\ repeats \in BOOLEAN
    /\ reply = [v \in Vouchers |-> "not asked"]
    /\ unanswered = [v \in Vouchers |-> 0]
    /\ quoted = {}
    /\ redeemed = [v \in Vouchers |-> 0]
    /\ early = {}

At(v, from, to) == pc[v] = from /\ pc' = [pc EXCEPT ![v] = to]

-----------------------------------------------------------------------------
\* The return page is loaded: voucher, transaction, order, item and payment
\* are saved in one commit, the voucher open.
ReturnPrepaid(v, t) ==
    /\ At(v, "unborn", "created")
    /\ token' = [token EXCEPT ![v] = t]
    /\ prepaid' = [prepaid EXCEPT ![v] = [active |-> TRUE, remain |-> 1]]
    /\ ptt' = [ptt EXCEPT ![v] = [active |-> TRUE, status |-> "PAY_PENDING", remain |-> 1]]
    /\ books' = [books EXCEPT ![v] = [item |-> "PENDING", payment |-> "UNPAID",
                                      order |-> "PENDING", points |-> FALSE]]
    /\ UNCHANGED <<paypal, till>>

\* Mutant of Hide: the voucher stays open.
HideNot(v) ==
    /\ At(v, "created", "hidden")
    /\ UNCHANGED <<token, prepaid, ptt, books, paypal, till>>

\* The voucher is hidden in a commit of its own.  The row is written whole,
\* as it was created.
Hide(v) ==
    /\ At(v, "created", "hidden")
    /\ prepaid' = [prepaid EXCEPT ![v] = [active |-> FALSE, remain |-> 1]]
    /\ UNCHANGED <<token, ptt, books, paypal, till>>

\* The order is made inactive, and PayPal asked for the money.
Ask(v) ==
    /\ At(v, "hidden", "waiting")
    /\ books' = [books EXCEPT ![v].order = "PENDING_INACTIVE"]
    /\ reply' = [reply EXCEPT ![v] = "awaited"]
    /\ UNCHANGED <<token, prepaid, ptt, captured, repeats, unanswered, till>>

\* PayPal captures the money, at once or pending (an eCheck), or declines; a
\* purchase it captured before it confirms or declines, as it does.
PayPalOutcome(t, status) ==
    \/ captured[t] = "none" /\ status \in Statuses
    \/ captured[t] # "none" /\ repeats /\ status = captured[t]
    \/ captured[t] # "none" /\ ~repeats /\ status = "none"

Captures(t, status) ==
    captured' = IF status = "none" THEN captured ELSE [captured EXCEPT ![t] = status]

\* PayPal treats the last attempt of a request, whether or not the server
\* still runs.
Treat(v, status) ==
    /\ reply[v] = "awaited"
    /\ PayPalOutcome(token[v], status)
    /\ Captures(token[v], status)
    /\ reply' = [reply EXCEPT ![v] = status]
    /\ UNCHANGED <<pc, token, prepaid, ptt, books, repeats, unanswered, till>>

\* PayPal treats an attempt after the server gave it up.
TreatLate(v, status) ==
    /\ unanswered[v] > 0
    /\ PayPalOutcome(token[v], status)
    /\ Captures(token[v], status)
    /\ UNCHANGED <<pc, token, prepaid, ptt, books, repeats, reply, unanswered, till>>

\* Mutant of Answer: any answer is taken for a completed payment.
AnswerUnchecked(v) ==
    /\ reply[v] \in Statuses
    /\ At(v, "waiting", "answered")
    /\ UNCHANGED <<token, prepaid, ptt, books, paypal, till>>

\* The reply comes back.
Answer(v) ==
    /\ reply[v] \in Statuses
    /\ At(v, "waiting", IF reply[v] = "Completed" THEN "answered"
                        ELSE IF reply[v] = "Pending" THEN "unsettled" ELSE "refused")
    /\ UNCHANGED <<token, prepaid, ptt, books, paypal, till>>

\* The connection ends without a response, before or after PayPal treated the
\* attempt: the client sends the request again.
Resend(v) ==
    /\ pc[v] = "waiting"
    /\ unanswered[v] < Retries
    /\ unanswered' = [unanswered EXCEPT ![v] = @ + 1]
    /\ reply' = [reply EXCEPT ![v] = "awaited"]
    /\ UNCHANGED <<pc, token, prepaid, ptt, books, captured, repeats, till>>

\* The connection fails otherwise, or once too often: without an answer the
\* code shows the page of a failed payment.
LoseAnswer(v) ==
    /\ At(v, "waiting", "lost")
    /\ unanswered' = [unanswered EXCEPT ![v] = @ + 1]
    /\ UNCHANGED <<token, prepaid, ptt, books, captured, repeats, reply, till>>

\* handlePayment on any other status: three commits.
ItemOff(v) ==
    /\ At(v, "unsettled", "itemOff")
    /\ books' = [books EXCEPT ![v].item = "INACTIVE"]
    /\ UNCHANGED <<token, prepaid, ptt, paypal, till>>

PaymentOff(v) ==
    /\ At(v, "itemOff", "paymentOff")
    /\ books' = [books EXCEPT ![v].payment = "INACTIVE"]
    /\ UNCHANGED <<token, prepaid, ptt, paypal, till>>

\* The row of the transaction is written as the request created it.
PttFailed(v) ==
    /\ At(v, "paymentOff", "failed")
    /\ ptt' = [ptt EXCEPT ![v] = [active |-> TRUE, status |-> "PAY_FAILED", remain |-> 1]]
    /\ UNCHANGED <<token, prepaid, books, paypal, till>>

\* handlePayment on a completed payment: six commits.
ItemCompleted(v) ==
    /\ At(v, "answered", "item")
    /\ books' = [books EXCEPT ![v].item = "COMPLETED"]
    /\ UNCHANGED <<token, prepaid, ptt, paypal, till>>

PaymentPaid(v) ==
    /\ At(v, "item", "payment")
    /\ books' = [books EXCEPT ![v].payment = "PAID"]
    /\ UNCHANGED <<token, prepaid, ptt, paypal, till>>

\* Mutant of OrderCompleted: the save is left out.
OrderForgotten(v) ==
    /\ At(v, "payment", "order")
    /\ UNCHANGED <<token, prepaid, ptt, books, paypal, till>>

OrderCompleted(v) ==
    /\ At(v, "payment", "order")
    /\ books' = [books EXCEPT ![v].order = "COMPLETED"]
    /\ UNCHANGED <<token, prepaid, ptt, paypal, till>>

PttNormal(v) ==
    /\ At(v, "order", "ptt")
    /\ ptt' = [ptt EXCEPT ![v] = [active |-> TRUE, status |-> "NORMAL", remain |-> 1]]
    /\ UNCHANGED <<token, prepaid, books, paypal, till>>

\* Mutant of PrepaidActive: the voucher stays hidden.
PrepaidStaysHidden(v) ==
    /\ At(v, "ptt", "prepaid")
    /\ UNCHANGED <<token, prepaid, ptt, books, paypal, till>>

PrepaidActive(v) ==
    /\ At(v, "ptt", "prepaid")
    /\ prepaid' = [prepaid EXCEPT ![v] = [active |-> TRUE, remain |-> 1]]
    /\ UNCHANGED <<token, ptt, books, paypal, till>>

SetLoyaltyPoints(v) ==
    /\ At(v, "prepaid", "done")
    /\ books' = [books EXCEPT ![v].points = TRUE]
    /\ UNCHANGED <<token, prepaid, ptt, paypal, till>>

\* The server stops, or a commit fails.
Stop(v) ==
    /\ pc[v] \in Running
    /\ early' = IF pc[v] = "created" THEN early \union {v} ELSE early
    /\ pc' = [pc EXCEPT ![v] = "stopped"]
    /\ UNCHANGED <<token, prepaid, ptt, books, paypal, quoted, redeemed>>

\* A till puts a voucher in its cart if the voucher's flag says it is valid.
FillCart(v) ==
    /\ prepaid[v].active
    /\ quoted' = quoted \union {v}
    /\ early' = IF pc[v] = "created" THEN early \union {v} ELSE early
    /\ UNCHANGED <<pc, token, prepaid, ptt, books, paypal, redeemed>>

\* The checkout of a cart does not look at the voucher's flag again, and
\* takes the whole value of an active transaction, whatever its status.
Redeem(v) ==
    /\ v \in quoted
    /\ ptt[v].active /\ ptt[v].remain > 0
    /\ prepaid' = [prepaid EXCEPT ![v] = [active |-> FALSE, remain |-> @.remain - 1]]
    /\ ptt' = [ptt EXCEPT ![v].active = FALSE, ![v].remain = 0]
    /\ redeemed' = [redeemed EXCEPT ![v] = @ + 1]
    /\ UNCHANGED <<pc, token, books, paypal, quoted, early>>

\* The steps a running request takes unless the server stops, but for those
\* that are PayPal's or the network's to take.
Proceed(v) ==
    \/ Hide(v)
    \/ Ask(v)
    \/ ItemOff(v)
    \/ PaymentOff(v)
    \/ PttFailed(v)
    \/ ItemCompleted(v)
    \/ PaymentPaid(v)
    \/ OrderCompleted(v)
    \/ PttNormal(v)
    \/ PrepaidActive(v)
    \/ SetLoyaltyPoints(v)

\* The exchange with PayPal.
Exchange(v) ==
    \/ \E status \in Statuses : Treat(v, status) \/ TreatLate(v, status)
    \/ Answer(v)
    \/ Resend(v)
    \/ LoseAnswer(v)

Next ==
    \E v \in Vouchers :
        \/ \E t \in Tokens : ReturnPrepaid(v, t)
        \/ Proceed(v)
        \/ Exchange(v)
        \/ Stop(v)
        \/ FillCart(v)
        \/ Redeem(v)

\* A thread that serves a request goes on with it until something stops it.
\* Nothing makes PayPal answer, and no timeout ends the wait.
Spec == Init /\ [][Next]_vars /\ \A v \in Vouchers : WF_vars(Proceed(v))

-----------------------------------------------------------------------------
(***************************************************************************)
(* Properties                                                              *)
(***************************************************************************)
\* What a till would take: it accepts the voucher or has it in its cart, and
\* finds value on it.
Spendable(v) ==
    /\ prepaid[v].active \/ v \in quoted
    /\ ptt[v].active /\ ptt[v].remain > 0

\* A voucher that a till would take has been paid, from the moment it is
\* hidden until whatever step the request stops at.  Only between its creation
\* and the commit that hides it does an unpaid voucher look valid: for ever,
\* if the server stops there or a till puts it in its cart.
SpendableIsPaid ==
    \A v \in Vouchers :
        Spendable(v) => \/ captured[token[v]] = "Completed"
                        \/ pc[v] = "created"
                        \/ v \in early

\* A voucher is redeemed once, unless a till had it in its cart before it was
\* hidden: then the rows the request writes whole give its value back.
RedeemedOnce == \A v \in Vouchers : redeemed[v] > 1 => v \in early

\* However often the return page of one purchase is loaded, and wherever its
\* requests stop, one voucher is put in force, if PayPal declines to confirm
\* a purchase twice.  Nothing in the code sees to it.
OneVoucherPerPurchase ==
    ~repeats =>
        \A v, w \in Vouchers :
            /\ token[v] = token[w]
            /\ ptt[v].status = "NORMAL" /\ ptt[w].status = "NORMAL"
            => v = w

\* What the customer gets follows what the books say, wherever the commits
\* stop: points only for a voucher in force, a voucher in force only for a
\* completed order, a completed order only for a paid payment of a completed
\* item, and that only for money PayPal captured.
GoodsFollowBooks ==
    \A v \in Vouchers :
        /\ books[v].points => ptt[v].status = "NORMAL"
        /\ ptt[v].status = "NORMAL" => books[v].order = "COMPLETED"
        /\ books[v].order = "COMPLETED" => books[v].payment = "PAID"
        /\ books[v].payment = "PAID" => books[v].item = "COMPLETED"
        /\ books[v].item = "COMPLETED" => captured[token[v]] = "Completed"

\* An answer is a voucher given: once PayPal confirms the payment to a
\* request, its voucher is put in force in the end, unless the connection drops
\* the answer (the request is sent again, or gives up), the server stops, or
\* the request waits for the answer for ever.
Given(v) == ptt[v].status = "NORMAL" /\ (prepaid[v].active \/ redeemed[v] > 0)

PaidIsGiven ==
    \A v \in Vouchers :
        reply[v] = "Completed" ~>
            \/ Given(v)
            \/ reply[v] # "Completed"
            \/ pc[v] \in {"lost", "stopped"}
            \/ [](pc[v] = "waiting")
=============================================================================
