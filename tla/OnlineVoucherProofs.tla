------------------------- MODULE OnlineVoucherProofs -------------------------
(***************************************************************************)
(* What TLAPS proves of OnlineVoucher, for any number of purchases and of  *)
(* loads of their return pages: wherever the requests stop, what can be    *)
(* spent is paid, a voucher is redeemed once, a purchase puts one voucher  *)
(* in force, and the goods follow the books.                               *)
(*                                                                         *)
(* None of them is inductive alone: each rests on how far the rows of a    *)
(* voucher are at each step of its request, and on what PayPal replied to  *)
(* it.  All of that is said voucher by voucher (VInv), so that a step of   *)
(* one request leaves the others as they are (OthersKeep).                 *)
(***************************************************************************)
EXTENDS OnlineVoucher, TLAPS

\* The steps of a request up to PayPal's answer, after an answer that the
\* money was captured, and after any other or none.
Asking   == {"unborn", "created", "hidden", "waiting"}
Paying   == {"answered", "item", "payment", "order", "ptt", "prepaid", "done"}
Declined == {"unsettled", "itemOff", "paymentOff", "failed", "refused", "lost"}

Steps == Asking \union Paying \union Declined \union {"stopped"}

Books == [item : {"none", "PENDING", "INACTIVE", "COMPLETED"},
          payment : {"none", "UNPAID", "INACTIVE", "PAID"},
          order : {"none", "PENDING", "PENDING_INACTIVE", "COMPLETED"},
          points : BOOLEAN]

PrepaidRow == [active : BOOLEAN, remain : Int]
PttRow == [active : BOOLEAN, remain : Int, status : {"PAY_PENDING", "PAY_FAILED", "NORMAL"}]
Replies == Statuses \union {"not asked", "awaited"}

TypeOK ==
    /\ pc \in [Vouchers -> Steps]
    /\ token \in [Vouchers -> Tokens \union {NoToken}]
    /\ prepaid \in [Vouchers -> PrepaidRow]
    /\ ptt \in [Vouchers -> PttRow]
    /\ books \in [Vouchers -> Books]
    /\ captured \in [Tokens -> Statuses]
    /\ repeats \in BOOLEAN
    /\ reply \in [Vouchers -> Replies]
    /\ unanswered \in [Vouchers -> Nat]
    /\ quoted \subseteq Vouchers
    /\ redeemed \in [Vouchers -> Nat]
    /\ early \subseteq Vouchers

\* The books are as far as the request got.  Before PayPal confirmed the
\* payment nothing is completed.
StepOf(v) ==
    /\ pc[v] # "unborn" => token[v] \in Tokens
    /\ pc[v] \in {"unborn", "created", "hidden"} => reply[v] = "not asked"
    /\ pc[v] \in Paying => reply[v] = "Completed"
    /\ pc[v] \in Paying \ {"answered"} => books[v].item = "COMPLETED"
    /\ pc[v] \in Paying \ {"answered", "item"} => books[v].payment = "PAID"
    /\ pc[v] \in {"order", "ptt", "prepaid", "done"} => books[v].order = "COMPLETED"
    /\ pc[v] \in {"ptt", "prepaid", "done"} => ptt[v].status = "NORMAL"
    /\ pc[v] \in Asking \union Declined \union {"answered"} => books[v].item # "COMPLETED"

\* Goods follow books, and books what PayPal confirmed to this request.
BooksOf(v) ==
    /\ books[v].points => ptt[v].status = "NORMAL"
    /\ ptt[v].status = "NORMAL" => books[v].order = "COMPLETED"
    /\ books[v].order = "COMPLETED" => books[v].payment = "PAID"
    /\ books[v].payment = "PAID" => books[v].item = "COMPLETED"
    /\ books[v].item = "COMPLETED" => reply[v] = "Completed"

\* PayPal replies what became of the purchase.
Confirmed(v) == reply[v] \in {"Completed", "Pending"}

ReplyOf(v) == Confirmed(v) => captured[token[v]] = reply[v]

\* A voucher is open only before it is hidden and after it is put in force.
ShowsOf(v) == prepaid[v].active => pc[v] \in {"created", "prepaid", "done", "stopped"}

\* A till accepts or holds a voucher only if it is paid, or was not hidden yet.
Shown(v) == prepaid[v].active \/ v \in quoted

PaidOf(v) ==
    Shown(v) => captured[token[v]] = "Completed" \/ pc[v] = "created" \/ v \in early

\* No till holds a voucher while it is hidden, and once it is redeemed its
\* transaction is closed.
RedeemedOf(v) ==
    v \notin early =>
        /\ v \in quoted => pc[v] \in {"prepaid", "done", "stopped"}
        /\ redeemed[v] # 0 => v \in quoted /\ redeemed[v] = 1 /\ ~ptt[v].active

VInv(v) == /\ StepOf(v) /\ BooksOf(v) /\ ReplyOf(v)
           /\ ShowsOf(v) /\ PaidOf(v) /\ RedeemedOf(v)

\* A purchase is confirmed to one request, unless PayPal repeats itself.
ConfirmedOnce ==
    ~repeats => \A v, w \in Vouchers :
                    Confirmed(v) /\ Confirmed(w) /\ token[v] = token[w] => v = w

IInv == /\ TypeOK
        /\ \A v \in Vouchers : VInv(v)
        /\ ConfirmedOnce

-----------------------------------------------------------------------------
LEMMA InitEstablishes == Init => IInv
<1>1. ASSUME Init PROVE TypeOK
  <2>0. 0 \in Int OBVIOUS
  <2>1. [active |-> FALSE, remain |-> 0] \in PrepaidRow
    BY <2>0, ZenonT(30) DEF PrepaidRow
  <2>2. [active |-> FALSE, status |-> "PAY_PENDING", remain |-> 0] \in PttRow
    BY <2>0, ZenonT(30) DEF PttRow
  <2>3. [item |-> "none", payment |-> "none", order |-> "none", points |-> FALSE] \in Books
    BY ZenonT(30) DEF Books
  <2> QED BY <1>1, <2>1, <2>2, <2>3 DEF Init, TypeOK, Steps, Asking, Statuses, Replies
<1>2. ASSUME Init, NEW v \in Vouchers PROVE VInv(v)
  BY <1>2 DEF Init, VInv, StepOf, BooksOf, ReplyOf, Confirmed, ShowsOf, PaidOf, Shown,
              RedeemedOf, Paying
<1>3. Init => ConfirmedOnce
  BY DEF Init, ConfirmedOnce, Confirmed
<1> QED BY <1>1, <1>2, <1>3 DEF IInv

-----------------------------------------------------------------------------
\* What a step leaves alone: the rows of a voucher, and what PayPal captured.
SameRows(w) ==
    /\ pc'[w] = pc[w] /\ token'[w] = token[w] /\ reply'[w] = reply[w]
    /\ prepaid'[w] = prepaid[w] /\ ptt'[w] = ptt[w] /\ books'[w] = books[w]
    /\ redeemed'[w] = redeemed[w]
    /\ w \in quoted' <=> w \in quoted
    /\ w \in early' <=> w \in early

CapturedStays == \A t \in Tokens : captured[t] # "none" => captured'[t] = captured[t]

\* A step of one request keeps the invariant of the others.
LEMMA OthersKeep ==
    ASSUME NEW w \in Vouchers, VInv(w), SameRows(w), CapturedStays
    PROVE  VInv(w)'
<1> USE DEF SameRows
<1>1. StepOf(w)' BY DEF VInv, StepOf
<1>2. BooksOf(w)' BY DEF VInv, BooksOf
<1>3. ReplyOf(w)'
  BY DEF VInv, ReplyOf, StepOf, Confirmed, CapturedStays
<1>4. ShowsOf(w)' BY DEF VInv, ShowsOf
<1>5. PaidOf(w)'
  BY DEF VInv, PaidOf, Shown, CapturedStays, StepOf, ShowsOf, RedeemedOf
<1>6. RedeemedOf(w)' BY DEF VInv, RedeemedOf
<1> QED BY <1>1, <1>2, <1>3, <1>4, <1>5, <1>6 DEF VInv

\* The parts of the invariant put together again: the voucher of the step, the
\* others, the types, and the confirmations, which no step but PayPal's adds to.
LEMMA Together ==
    ASSUME IInv, NEW v \in Vouchers, TypeOK', CapturedStays, VInv(v)', ConfirmedOnce',
           \A w \in Vouchers \ {v} : SameRows(w)
    PROVE  IInv'
BY OthersKeep DEF IInv

LEMMA NoneConfirmed ==
    ASSUME ConfirmedOnce, repeats' = repeats,
           \A w \in Vouchers : Confirmed(w)' => Confirmed(w) /\ token'[w] = token[w]
    PROVE  ConfirmedOnce'
BY DEF ConfirmedOnce

\* It all begins: the rows are new, and the request knows its purchase.
LEMMA ReturnPrepaidKeeps ==
    ASSUME IInv, NEW v \in Vouchers, NEW t \in Tokens, ReturnPrepaid(v, t)
    PROVE  IInv'
<1>1. TypeOK /\ VInv(v) /\ ConfirmedOnce
  BY DEF IInv
<1>2. UNCHANGED <<captured, repeats, reply, unanswered, quoted, redeemed, early>>
  BY DEF ReturnPrepaid, At, paypal, till
<1>3. /\ pc[v] = "unborn" /\ pc'[v] = "created"
      /\ token'[v] = t
      /\ prepaid'[v].active
      /\ ptt'[v].status = "PAY_PENDING"
      /\ books'[v].item = "PENDING" /\ books'[v].payment = "UNPAID"
      /\ books'[v].order = "PENDING" /\ ~books'[v].points
  BY <1>1 DEF TypeOK, At, ReturnPrepaid
<1>4. \A w \in Vouchers \ {v} : SameRows(w)
  BY <1>1, <1>2 DEF TypeOK, SameRows, At, ReturnPrepaid
<1>5. CapturedStays
  BY <1>2 DEF CapturedStays
<1>6. TypeOK'
  <2>1. pc' \in [Vouchers -> Steps]
    BY <1>1 DEF TypeOK, At, ReturnPrepaid, Steps, Asking, Paying, Declined
  <2>2. token' \in [Vouchers -> Tokens \union {NoToken}]
    BY <1>1 DEF TypeOK, At, ReturnPrepaid
  <2>3. prepaid' \in [Vouchers -> PrepaidRow]
    BY <1>1 DEF TypeOK, ReturnPrepaid, PrepaidRow
  <2>4. ptt' \in [Vouchers -> PttRow]
    BY <1>1 DEF TypeOK, ReturnPrepaid, PttRow
  <2>5. books' \in [Vouchers -> Books]
    BY <1>1 DEF TypeOK, ReturnPrepaid, Books
  <2> QED BY <1>1, <1>2, <2>1, <2>2, <2>3, <2>4, <2>5 DEF TypeOK
<1>7. VInv(v)'
  <2>1. StepOf(v)'     BY <1>1, <1>2, <1>3 DEF VInv, StepOf, Asking, Paying, Declined
  <2>2. BooksOf(v)'    BY <1>1, <1>2, <1>3 DEF VInv, BooksOf, StepOf,
                              Asking, Paying, Declined
  <2>3. ReplyOf(v)'    BY <1>1, <1>2, <1>3 DEF VInv, ReplyOf, Confirmed, StepOf
  <2>4. ShowsOf(v)'    BY <1>1, <1>2, <1>3 DEF VInv, ShowsOf
  <2>5. PaidOf(v)'     BY <1>1, <1>2, <1>3 DEF VInv, PaidOf, Shown
  <2>6. RedeemedOf(v)' BY <1>1, <1>2, <1>3 DEF VInv, RedeemedOf
  <2> QED BY <2>1, <2>2, <2>3, <2>4, <2>5, <2>6 DEF VInv
<1>8. ConfirmedOnce'
  BY <1>1, <1>2, <1>3, <1>4, NoneConfirmed DEF Confirmed, SameRows, VInv, StepOf
<1> QED BY <1>4, <1>5, <1>6, <1>7, <1>8, Together

\* The voucher is hidden.  A till that has it in its cart had it early.
LEMMA HideKeeps ==
    ASSUME IInv, NEW v \in Vouchers, Hide(v)
    PROVE  IInv'
<1>1. TypeOK /\ VInv(v) /\ ConfirmedOnce
  BY DEF IInv
<1>2. UNCHANGED <<token, ptt, books, captured, repeats, reply, unanswered,
                quoted, redeemed, early>>
  BY DEF Hide, At, paypal, till
<1>3. /\ pc[v] = "created" /\ pc'[v] = "hidden"
      /\ ~prepaid'[v].active
  BY <1>1 DEF TypeOK, At, Hide
<1>4. \A w \in Vouchers \ {v} : SameRows(w)
  BY <1>1, <1>2 DEF TypeOK, SameRows, At, Hide
<1>5. CapturedStays
  BY <1>2 DEF CapturedStays
<1>6. TypeOK'
  <2>1. pc' \in [Vouchers -> Steps]
    BY <1>1 DEF TypeOK, At, Hide, Steps, Asking, Paying, Declined
  <2>2. prepaid' \in [Vouchers -> PrepaidRow]
    BY <1>1 DEF TypeOK, Hide, PrepaidRow
  <2> QED BY <1>1, <1>2, <2>1, <2>2 DEF TypeOK
<1>7. VInv(v)'
  <2>1. StepOf(v)'     BY <1>1, <1>2, <1>3 DEF VInv, StepOf, Asking, Paying, Declined
  <2>2. BooksOf(v)'    BY <1>1, <1>2, <1>3 DEF VInv, BooksOf, StepOf,
                              Asking, Paying, Declined
  <2>3. ReplyOf(v)'    BY <1>1, <1>2, <1>3 DEF VInv, ReplyOf, Confirmed
  <2>4. ShowsOf(v)'    BY <1>1, <1>2, <1>3 DEF VInv, ShowsOf
  <2>5. PaidOf(v)'     BY <1>1, <1>2, <1>3 DEF VInv, PaidOf, Shown, RedeemedOf
  <2>6. RedeemedOf(v)' BY <1>1, <1>2, <1>3 DEF VInv, RedeemedOf
  <2> QED BY <2>1, <2>2, <2>3, <2>4, <2>5, <2>6 DEF VInv
<1>8. ConfirmedOnce'
  BY <1>1, <1>2, <1>3, <1>4, NoneConfirmed DEF Confirmed, SameRows
<1> QED BY <1>4, <1>5, <1>6, <1>7, <1>8, Together

\* The order is made inactive: it was not completed.
LEMMA AskKeeps ==
    ASSUME IInv, NEW v \in Vouchers, Ask(v)
    PROVE  IInv'
<1>1. TypeOK /\ VInv(v) /\ ConfirmedOnce
  BY DEF IInv
<1>2. UNCHANGED <<token, prepaid, ptt, captured, repeats, unanswered,
                quoted, redeemed, early>>
  BY DEF Ask, At, paypal, till
<1>3. /\ pc[v] = "hidden" /\ pc'[v] = "waiting"
      /\ books'[v] = [books[v] EXCEPT !.order = "PENDING_INACTIVE"]
      /\ books[v] \in Books
      /\ reply'[v] = "awaited"
  BY <1>1 DEF TypeOK, At, Ask
<1>3a. /\ books'[v].item = books[v].item
       /\ books'[v].payment = books[v].payment
       /\ books'[v].order = "PENDING_INACTIVE"
       /\ books'[v].points = books[v].points
  BY <1>3 DEF Books
<1>4. \A w \in Vouchers \ {v} : SameRows(w)
  BY <1>1, <1>2 DEF TypeOK, SameRows, At, Ask
<1>5. CapturedStays
  BY <1>2 DEF CapturedStays
<1>6. TypeOK'
  <2>1. pc' \in [Vouchers -> Steps]
    BY <1>1 DEF TypeOK, At, Ask, Steps, Asking, Paying, Declined
  <2>2. books' \in [Vouchers -> Books]
    <3>1. [books[v] EXCEPT !.order = "PENDING_INACTIVE"] \in Books
      BY <1>3, ZenonT(30) DEF Books
    <3> QED BY <1>1, <3>1 DEF TypeOK, Ask
  <2>3. reply' \in [Vouchers -> Replies]
    BY <1>1 DEF TypeOK, Ask, Replies
  <2> QED BY <1>1, <1>2, <2>1, <2>2, <2>3 DEF TypeOK
<1>7. VInv(v)'
  <2>1. StepOf(v)'     BY <1>1, <1>2, <1>3, <1>3a DEF VInv, StepOf, Asking, Paying, Declined
  <2>2. BooksOf(v)'    BY <1>1, <1>2, <1>3, <1>3a DEF VInv, BooksOf, StepOf,
                              Asking, Paying, Declined
  <2>3. ReplyOf(v)'    BY <1>1, <1>2, <1>3, <1>3a DEF VInv, ReplyOf, Confirmed
  <2>4. ShowsOf(v)'    BY <1>1, <1>2, <1>3, <1>3a DEF VInv, ShowsOf
  <2>5. PaidOf(v)'     BY <1>1, <1>2, <1>3, <1>3a DEF VInv, PaidOf, Shown
  <2>6. RedeemedOf(v)' BY <1>1, <1>2, <1>3, <1>3a DEF VInv, RedeemedOf
  <2> QED BY <2>1, <2>2, <2>3, <2>4, <2>5, <2>6 DEF VInv
<1>8. ConfirmedOnce'
  BY <1>1, <1>2, <1>3, <1>4, NoneConfirmed DEF Confirmed, SameRows
<1> QED BY <1>4, <1>5, <1>6, <1>7, <1>8, Together

\* A confirmation is the first for its purchase, unless PayPal repeats itself.
LEMMA TreatKeeps ==
    ASSUME IInv, NEW v \in Vouchers, NEW status \in Statuses, Treat(v, status)
    PROVE  IInv'
<1>1. TypeOK /\ VInv(v) /\ ConfirmedOnce
  BY DEF IInv
<1>2. UNCHANGED <<pc, token, prepaid, ptt, books, repeats, unanswered,
                quoted, redeemed, early>>
  BY DEF Treat, paypal, till
<1>3. /\ reply[v] = "awaited" /\ reply'[v] = status
      /\ token[v] \in Tokens
      /\ status # "none" => captured'[token[v]] = status
      /\ captured[token[v]] = "Completed" => captured'[token[v]] = "Completed"
  <2>1. reply[v] = "awaited" /\ reply'[v] = status
    BY <1>1 DEF TypeOK, Treat
  <2>2. token[v] \in Tokens
    BY <1>1, <2>1 DEF VInv, StepOf
  <2> QED BY <1>1, <2>1, <2>2 DEF TypeOK, Treat, PayPalOutcome, Captures
<1>4. \A w \in Vouchers \ {v} : SameRows(w)
  BY <1>1, <1>2 DEF TypeOK, SameRows, Treat, PayPalOutcome, Captures
<1>5. CapturedStays
  BY <1>1 DEF TypeOK, CapturedStays, Treat, PayPalOutcome, Captures
<1>6. TypeOK'
  <2>1. captured' \in [Tokens -> Statuses]
    BY <1>1 DEF TypeOK, Treat, Captures
  <2>2. reply' \in [Vouchers -> Replies]
    BY <1>1 DEF TypeOK, Treat, Replies
  <2> QED BY <1>1, <1>2, <2>1, <2>2 DEF TypeOK
<1>7. VInv(v)'
  <2>1. StepOf(v)'     BY <1>1, <1>2, <1>3 DEF VInv, StepOf, Asking, Paying, Declined
  <2>2. BooksOf(v)'    BY <1>1, <1>2, <1>3 DEF VInv, BooksOf, StepOf,
                              Asking, Paying, Declined
  <2>3. ReplyOf(v)'    BY <1>1, <1>2, <1>3 DEF VInv, ReplyOf, Confirmed
  <2>4. ShowsOf(v)'    BY <1>1, <1>2, <1>3 DEF VInv, ShowsOf
  <2>5. PaidOf(v)'     BY <1>1, <1>2, <1>3 DEF VInv, PaidOf, Shown
  <2>6. RedeemedOf(v)' BY <1>1, <1>2, <1>3 DEF VInv, RedeemedOf
  <2> QED BY <2>1, <2>2, <2>3, <2>4, <2>5, <2>6 DEF VInv
<1>8. ConfirmedOnce'
  <2>1. ASSUME ~repeats, status # "none", NEW w \in Vouchers \ {v}, token[w] = token[v]
        PROVE  ~Confirmed(w)
    <3>1. captured[token[v]] = "none"
      BY <2>1 DEF Treat, PayPalOutcome
    <3>2. ReplyOf(w)
      BY DEF IInv, VInv
    <3> QED BY <2>1, <3>1, <3>2 DEF ReplyOf, Confirmed
  <2> QED BY <1>1, <1>2, <1>3, <1>4, <2>1 DEF ConfirmedOnce, Confirmed, SameRows
<1> QED BY <1>4, <1>5, <1>6, <1>7, <1>8, Together

\* The money may be captured, the request does not know.
LEMMA TreatLateKeeps ==
    ASSUME IInv, NEW v \in Vouchers, NEW status \in Statuses, TreatLate(v, status)
    PROVE  IInv'
<1>1. TypeOK /\ VInv(v) /\ ConfirmedOnce
  BY DEF IInv
<1>2. UNCHANGED <<pc, token, prepaid, ptt, books, repeats, reply, unanswered,
                quoted, redeemed, early>>
  BY DEF TreatLate, paypal, till
<1>4. \A w \in Vouchers \ {v} : SameRows(w)
  BY <1>1, <1>2 DEF TypeOK, SameRows, TreatLate, PayPalOutcome, Captures
<1>5. CapturedStays
  BY <1>1 DEF TypeOK, CapturedStays, TreatLate, PayPalOutcome, Captures
<1>6. TypeOK'
  <2>1. captured' \in [Tokens -> Statuses]
    BY <1>1 DEF TypeOK, TreatLate, Captures
  <2> QED BY <1>1, <1>2, <2>1 DEF TypeOK
<1>7. VInv(v)'
  <2>1. SameRows(v) BY <1>2 DEF SameRows
  <2> QED BY <1>1, <1>5, <2>1, OthersKeep
<1>8. ConfirmedOnce'
  BY <1>1, <1>2, NoneConfirmed DEF Confirmed
<1> QED BY <1>4, <1>5, <1>6, <1>7, <1>8, Together

\* The request goes on with what PayPal confirmed.
LEMMA AnswerKeeps ==
    ASSUME IInv, NEW v \in Vouchers, Answer(v)
    PROVE  IInv'
<1>1. TypeOK /\ VInv(v) /\ ConfirmedOnce
  BY DEF IInv
<1>2. UNCHANGED <<token, prepaid, ptt, books, captured, repeats, reply, unanswered,
                quoted, redeemed, early>>
  BY DEF Answer, At, paypal, till
<1>3. /\ pc[v] = "waiting"
      /\ \/ pc'[v] = "answered" /\ reply[v] = "Completed"
         \/ pc'[v] \in {"unsettled", "refused"}
  BY <1>1 DEF TypeOK, At, Answer
<1>4. \A w \in Vouchers \ {v} : SameRows(w)
  BY <1>1, <1>2 DEF TypeOK, SameRows, At, Answer
<1>5. CapturedStays
  BY <1>2 DEF CapturedStays
<1>6. TypeOK'
  <2>1. pc' \in [Vouchers -> Steps]
    BY <1>1 DEF TypeOK, At, Answer, Steps, Asking, Paying, Declined
  <2> QED BY <1>1, <1>2, <2>1 DEF TypeOK
<1>7. VInv(v)'
  <2>1. StepOf(v)'     BY <1>1, <1>2, <1>3 DEF VInv, StepOf, Asking, Paying, Declined
  <2>2. BooksOf(v)'    BY <1>1, <1>2, <1>3 DEF VInv, BooksOf, StepOf,
                              Asking, Paying, Declined
  <2>3. ReplyOf(v)'    BY <1>1, <1>2, <1>3 DEF VInv, ReplyOf, Confirmed
  <2>4. ShowsOf(v)'    BY <1>1, <1>2, <1>3 DEF VInv, ShowsOf
  <2>5. PaidOf(v)'     BY <1>1, <1>2, <1>3 DEF VInv, PaidOf, Shown
  <2>6. RedeemedOf(v)' BY <1>1, <1>2, <1>3 DEF VInv, RedeemedOf
  <2> QED BY <2>1, <2>2, <2>3, <2>4, <2>5, <2>6 DEF VInv
<1>8. ConfirmedOnce'
  BY <1>1, <1>2, <1>3, <1>4, NoneConfirmed DEF Confirmed, SameRows
<1> QED BY <1>4, <1>5, <1>6, <1>7, <1>8, Together

\* The reply is forgotten: nothing was completed on account of it.
LEMMA ResendKeeps ==
    ASSUME IInv, NEW v \in Vouchers, Resend(v)
    PROVE  IInv'
<1>1. TypeOK /\ VInv(v) /\ ConfirmedOnce
  BY DEF IInv
<1>2. UNCHANGED <<pc, token, prepaid, ptt, books, captured, repeats,
                quoted, redeemed, early>>
  BY DEF Resend, paypal, till
<1>3. /\ pc[v] = "waiting"
      /\ reply'[v] = "awaited"
  BY <1>1 DEF TypeOK, Resend
<1>4. \A w \in Vouchers \ {v} : SameRows(w)
  BY <1>1, <1>2 DEF TypeOK, SameRows, Resend
<1>5. CapturedStays
  BY <1>2 DEF CapturedStays
<1>6. TypeOK'
  <2>1. reply' \in [Vouchers -> Replies]
    BY <1>1 DEF TypeOK, Resend, Replies
  <2>2. unanswered' \in [Vouchers -> Nat]
    BY <1>1 DEF TypeOK, Resend
  <2> QED BY <1>1, <1>2, <2>1, <2>2 DEF TypeOK
<1>7. VInv(v)'
  <2>1. StepOf(v)'     BY <1>1, <1>2, <1>3 DEF VInv, StepOf, Asking, Paying, Declined
  <2>2. BooksOf(v)'    BY <1>1, <1>2, <1>3 DEF VInv, BooksOf, StepOf,
                              Asking, Paying, Declined
  <2>3. ReplyOf(v)'    BY <1>1, <1>2, <1>3 DEF VInv, ReplyOf, Confirmed
  <2>4. ShowsOf(v)'    BY <1>1, <1>2, <1>3 DEF VInv, ShowsOf
  <2>5. PaidOf(v)'     BY <1>1, <1>2, <1>3 DEF VInv, PaidOf, Shown
  <2>6. RedeemedOf(v)' BY <1>1, <1>2, <1>3 DEF VInv, RedeemedOf
  <2> QED BY <2>1, <2>2, <2>3, <2>4, <2>5, <2>6 DEF VInv
<1>8. ConfirmedOnce'
  BY <1>1, <1>2, <1>3, <1>4, NoneConfirmed DEF Confirmed, SameRows
<1> QED BY <1>4, <1>5, <1>6, <1>7, <1>8, Together

\* The request ends.
LEMMA LoseAnswerKeeps ==
    ASSUME IInv, NEW v \in Vouchers, LoseAnswer(v)
    PROVE  IInv'
<1>1. TypeOK /\ VInv(v) /\ ConfirmedOnce
  BY DEF IInv
<1>2. UNCHANGED <<token, prepaid, ptt, books, captured, repeats, reply,
                quoted, redeemed, early>>
  BY DEF LoseAnswer, At, paypal, till
<1>3. /\ pc[v] = "waiting" /\ pc'[v] = "lost"
  BY <1>1 DEF TypeOK, At, LoseAnswer
<1>4. \A w \in Vouchers \ {v} : SameRows(w)
  BY <1>1, <1>2 DEF TypeOK, SameRows, At, LoseAnswer
<1>5. CapturedStays
  BY <1>2 DEF CapturedStays
<1>6. TypeOK'
  <2>1. pc' \in [Vouchers -> Steps]
    BY <1>1 DEF TypeOK, At, LoseAnswer, Steps, Asking, Paying, Declined
  <2>2. unanswered' \in [Vouchers -> Nat]
    BY <1>1 DEF TypeOK, At, LoseAnswer
  <2> QED BY <1>1, <1>2, <2>1, <2>2 DEF TypeOK
<1>7. VInv(v)'
  <2>1. StepOf(v)'     BY <1>1, <1>2, <1>3 DEF VInv, StepOf, Asking, Paying, Declined
  <2>2. BooksOf(v)'    BY <1>1, <1>2, <1>3 DEF VInv, BooksOf, StepOf,
                              Asking, Paying, Declined
  <2>3. ReplyOf(v)'    BY <1>1, <1>2, <1>3 DEF VInv, ReplyOf, Confirmed
  <2>4. ShowsOf(v)'    BY <1>1, <1>2, <1>3 DEF VInv, ShowsOf
  <2>5. PaidOf(v)'     BY <1>1, <1>2, <1>3 DEF VInv, PaidOf, Shown
  <2>6. RedeemedOf(v)' BY <1>1, <1>2, <1>3 DEF VInv, RedeemedOf
  <2> QED BY <2>1, <2>2, <2>3, <2>4, <2>5, <2>6 DEF VInv
<1>8. ConfirmedOnce'
  BY <1>1, <1>2, <1>3, <1>4, NoneConfirmed DEF Confirmed, SameRows
<1> QED BY <1>4, <1>5, <1>6, <1>7, <1>8, Together

\* The item is closed: it was not completed.
LEMMA ItemOffKeeps ==
    ASSUME IInv, NEW v \in Vouchers, ItemOff(v)
    PROVE  IInv'
<1>1. TypeOK /\ VInv(v) /\ ConfirmedOnce
  BY DEF IInv
<1>2. UNCHANGED <<token, prepaid, ptt, captured, repeats, reply, unanswered,
                quoted, redeemed, early>>
  BY DEF ItemOff, At, paypal, till
<1>3. /\ pc[v] = "unsettled" /\ pc'[v] = "itemOff"
      /\ books'[v] = [books[v] EXCEPT !.item = "INACTIVE"]
      /\ books[v] \in Books
  BY <1>1 DEF TypeOK, At, ItemOff
<1>3a. /\ books'[v].item = "INACTIVE"
       /\ books'[v].payment = books[v].payment
       /\ books'[v].order = books[v].order
       /\ books'[v].points = books[v].points
  BY <1>3 DEF Books
<1>4. \A w \in Vouchers \ {v} : SameRows(w)
  BY <1>1, <1>2 DEF TypeOK, SameRows, At, ItemOff
<1>5. CapturedStays
  BY <1>2 DEF CapturedStays
<1>6. TypeOK'
  <2>1. pc' \in [Vouchers -> Steps]
    BY <1>1 DEF TypeOK, At, ItemOff, Steps, Asking, Paying, Declined
  <2>2. books' \in [Vouchers -> Books]
    <3>1. [books[v] EXCEPT !.item = "INACTIVE"] \in Books
      BY <1>3, ZenonT(30) DEF Books
    <3> QED BY <1>1, <3>1 DEF TypeOK, ItemOff
  <2> QED BY <1>1, <1>2, <2>1, <2>2 DEF TypeOK
<1>7. VInv(v)'
  <2>1. StepOf(v)'     BY <1>1, <1>2, <1>3, <1>3a DEF VInv, StepOf, Asking, Paying, Declined
  <2>2. BooksOf(v)'    BY <1>1, <1>2, <1>3, <1>3a DEF VInv, BooksOf, StepOf,
                              Asking, Paying, Declined
  <2>3. ReplyOf(v)'    BY <1>1, <1>2, <1>3, <1>3a DEF VInv, ReplyOf, Confirmed
  <2>4. ShowsOf(v)'    BY <1>1, <1>2, <1>3, <1>3a DEF VInv, ShowsOf
  <2>5. PaidOf(v)'     BY <1>1, <1>2, <1>3, <1>3a DEF VInv, PaidOf, Shown
  <2>6. RedeemedOf(v)' BY <1>1, <1>2, <1>3, <1>3a DEF VInv, RedeemedOf
  <2> QED BY <2>1, <2>2, <2>3, <2>4, <2>5, <2>6 DEF VInv
<1>8. ConfirmedOnce'
  BY <1>1, <1>2, <1>3, <1>4, NoneConfirmed DEF Confirmed, SameRows
<1> QED BY <1>4, <1>5, <1>6, <1>7, <1>8, Together

\* The payment is closed: it was not paid.
LEMMA PaymentOffKeeps ==
    ASSUME IInv, NEW v \in Vouchers, PaymentOff(v)
    PROVE  IInv'
<1>1. TypeOK /\ VInv(v) /\ ConfirmedOnce
  BY DEF IInv
<1>2. UNCHANGED <<token, prepaid, ptt, captured, repeats, reply, unanswered,
                quoted, redeemed, early>>
  BY DEF PaymentOff, At, paypal, till
<1>3. /\ pc[v] = "itemOff" /\ pc'[v] = "paymentOff"
      /\ books'[v] = [books[v] EXCEPT !.payment = "INACTIVE"]
      /\ books[v] \in Books
  BY <1>1 DEF TypeOK, At, PaymentOff
<1>3a. /\ books'[v].item = books[v].item
       /\ books'[v].payment = "INACTIVE"
       /\ books'[v].order = books[v].order
       /\ books'[v].points = books[v].points
  BY <1>3 DEF Books
<1>4. \A w \in Vouchers \ {v} : SameRows(w)
  BY <1>1, <1>2 DEF TypeOK, SameRows, At, PaymentOff
<1>5. CapturedStays
  BY <1>2 DEF CapturedStays
<1>6. TypeOK'
  <2>1. pc' \in [Vouchers -> Steps]
    BY <1>1 DEF TypeOK, At, PaymentOff, Steps, Asking, Paying, Declined
  <2>2. books' \in [Vouchers -> Books]
    <3>1. [books[v] EXCEPT !.payment = "INACTIVE"] \in Books
      BY <1>3, ZenonT(30) DEF Books
    <3> QED BY <1>1, <3>1 DEF TypeOK, PaymentOff
  <2> QED BY <1>1, <1>2, <2>1, <2>2 DEF TypeOK
<1>7. VInv(v)'
  <2>1. StepOf(v)'     BY <1>1, <1>2, <1>3, <1>3a DEF VInv, StepOf, Asking, Paying, Declined
  <2>2. BooksOf(v)'    BY <1>1, <1>2, <1>3, <1>3a DEF VInv, BooksOf, StepOf,
                              Asking, Paying, Declined
  <2>3. ReplyOf(v)'    BY <1>1, <1>2, <1>3, <1>3a DEF VInv, ReplyOf, Confirmed
  <2>4. ShowsOf(v)'    BY <1>1, <1>2, <1>3, <1>3a DEF VInv, ShowsOf
  <2>5. PaidOf(v)'     BY <1>1, <1>2, <1>3, <1>3a DEF VInv, PaidOf, Shown
  <2>6. RedeemedOf(v)' BY <1>1, <1>2, <1>3, <1>3a DEF VInv, RedeemedOf
  <2> QED BY <2>1, <2>2, <2>3, <2>4, <2>5, <2>6 DEF VInv
<1>8. ConfirmedOnce'
  BY <1>1, <1>2, <1>3, <1>4, NoneConfirmed DEF Confirmed, SameRows
<1> QED BY <1>4, <1>5, <1>6, <1>7, <1>8, Together

\* The transaction failed: it was not in force, nor the voucher redeemed.
LEMMA PttFailedKeeps ==
    ASSUME IInv, NEW v \in Vouchers, PttFailed(v)
    PROVE  IInv'
<1>1. TypeOK /\ VInv(v) /\ ConfirmedOnce
  BY DEF IInv
<1>2. UNCHANGED <<token, prepaid, books, captured, repeats, reply, unanswered,
                quoted, redeemed, early>>
  BY DEF PttFailed, At, paypal, till
<1>3. /\ pc[v] = "paymentOff" /\ pc'[v] = "failed"
      /\ ptt'[v].status = "PAY_FAILED"
  BY <1>1 DEF TypeOK, At, PttFailed
<1>4. \A w \in Vouchers \ {v} : SameRows(w)
  BY <1>1, <1>2 DEF TypeOK, SameRows, At, PttFailed
<1>5. CapturedStays
  BY <1>2 DEF CapturedStays
<1>6. TypeOK'
  <2>1. pc' \in [Vouchers -> Steps]
    BY <1>1 DEF TypeOK, At, PttFailed, Steps, Asking, Paying, Declined
  <2>2. ptt' \in [Vouchers -> PttRow]
    BY <1>1 DEF TypeOK, PttFailed, PttRow
  <2> QED BY <1>1, <1>2, <2>1, <2>2 DEF TypeOK
<1>7. VInv(v)'
  <2>1. StepOf(v)'     BY <1>1, <1>2, <1>3 DEF VInv, StepOf, Asking, Paying, Declined
  <2>2. BooksOf(v)'    BY <1>1, <1>2, <1>3 DEF VInv, BooksOf, StepOf,
                              Asking, Paying, Declined
  <2>3. ReplyOf(v)'    BY <1>1, <1>2, <1>3 DEF VInv, ReplyOf, Confirmed
  <2>4. ShowsOf(v)'    BY <1>1, <1>2, <1>3 DEF VInv, ShowsOf
  <2>5. PaidOf(v)'     BY <1>1, <1>2, <1>3 DEF VInv, PaidOf, Shown
  <2>6. RedeemedOf(v)' BY <1>1, <1>2, <1>3 DEF VInv, RedeemedOf
  <2> QED BY <2>1, <2>2, <2>3, <2>4, <2>5, <2>6 DEF VInv
<1>8. ConfirmedOnce'
  BY <1>1, <1>2, <1>3, <1>4, NoneConfirmed DEF Confirmed, SameRows
<1> QED BY <1>4, <1>5, <1>6, <1>7, <1>8, Together

\* Each of these steps writes what the next one rests on.
LEMMA ItemCompletedKeeps ==
    ASSUME IInv, NEW v \in Vouchers, ItemCompleted(v)
    PROVE  IInv'
<1>1. TypeOK /\ VInv(v) /\ ConfirmedOnce
  BY DEF IInv
<1>2. UNCHANGED <<token, prepaid, ptt, captured, repeats, reply, unanswered,
                quoted, redeemed, early>>
  BY DEF ItemCompleted, At, paypal, till
<1>3. /\ pc[v] = "answered" /\ pc'[v] = "item"
      /\ books'[v] = [books[v] EXCEPT !.item = "COMPLETED"]
      /\ books[v] \in Books
  BY <1>1 DEF TypeOK, At, ItemCompleted
<1>3a. /\ books'[v].item = "COMPLETED"
       /\ books'[v].payment = books[v].payment
       /\ books'[v].order = books[v].order
       /\ books'[v].points = books[v].points
  BY <1>3 DEF Books
<1>4. \A w \in Vouchers \ {v} : SameRows(w)
  BY <1>1, <1>2 DEF TypeOK, SameRows, At, ItemCompleted
<1>5. CapturedStays
  BY <1>2 DEF CapturedStays
<1>6. TypeOK'
  <2>1. pc' \in [Vouchers -> Steps]
    BY <1>1 DEF TypeOK, At, ItemCompleted, Steps, Asking, Paying, Declined
  <2>2. books' \in [Vouchers -> Books]
    <3>1. [books[v] EXCEPT !.item = "COMPLETED"] \in Books
      BY <1>3, ZenonT(30) DEF Books
    <3> QED BY <1>1, <3>1 DEF TypeOK, ItemCompleted
  <2> QED BY <1>1, <1>2, <2>1, <2>2 DEF TypeOK
<1>7. VInv(v)'
  <2>1. StepOf(v)'     BY <1>1, <1>2, <1>3, <1>3a DEF VInv, StepOf, Asking, Paying, Declined
  <2>2. BooksOf(v)'    BY <1>1, <1>2, <1>3, <1>3a DEF VInv, BooksOf, StepOf,
                              Asking, Paying, Declined
  <2>3. ReplyOf(v)'    BY <1>1, <1>2, <1>3, <1>3a DEF VInv, ReplyOf, Confirmed
  <2>4. ShowsOf(v)'    BY <1>1, <1>2, <1>3, <1>3a DEF VInv, ShowsOf
  <2>5. PaidOf(v)'     BY <1>1, <1>2, <1>3, <1>3a DEF VInv, PaidOf, Shown
  <2>6. RedeemedOf(v)' BY <1>1, <1>2, <1>3, <1>3a DEF VInv, RedeemedOf
  <2> QED BY <2>1, <2>2, <2>3, <2>4, <2>5, <2>6 DEF VInv
<1>8. ConfirmedOnce'
  BY <1>1, <1>2, <1>3, <1>4, NoneConfirmed DEF Confirmed, SameRows
<1> QED BY <1>4, <1>5, <1>6, <1>7, <1>8, Together

LEMMA PaymentPaidKeeps ==
    ASSUME IInv, NEW v \in Vouchers, PaymentPaid(v)
    PROVE  IInv'
<1>1. TypeOK /\ VInv(v) /\ ConfirmedOnce
  BY DEF IInv
<1>2. UNCHANGED <<token, prepaid, ptt, captured, repeats, reply, unanswered,
                quoted, redeemed, early>>
  BY DEF PaymentPaid, At, paypal, till
<1>3. /\ pc[v] = "item" /\ pc'[v] = "payment"
      /\ books'[v] = [books[v] EXCEPT !.payment = "PAID"]
      /\ books[v] \in Books
  BY <1>1 DEF TypeOK, At, PaymentPaid
<1>3a. /\ books'[v].item = books[v].item
       /\ books'[v].payment = "PAID"
       /\ books'[v].order = books[v].order
       /\ books'[v].points = books[v].points
  BY <1>3 DEF Books
<1>4. \A w \in Vouchers \ {v} : SameRows(w)
  BY <1>1, <1>2 DEF TypeOK, SameRows, At, PaymentPaid
<1>5. CapturedStays
  BY <1>2 DEF CapturedStays
<1>6. TypeOK'
  <2>1. pc' \in [Vouchers -> Steps]
    BY <1>1 DEF TypeOK, At, PaymentPaid, Steps, Asking, Paying, Declined
  <2>2. books' \in [Vouchers -> Books]
    <3>1. [books[v] EXCEPT !.payment = "PAID"] \in Books
      BY <1>3, ZenonT(30) DEF Books
    <3> QED BY <1>1, <3>1 DEF TypeOK, PaymentPaid
  <2> QED BY <1>1, <1>2, <2>1, <2>2 DEF TypeOK
<1>7. VInv(v)'
  <2>1. StepOf(v)'     BY <1>1, <1>2, <1>3, <1>3a DEF VInv, StepOf, Asking, Paying, Declined
  <2>2. BooksOf(v)'    BY <1>1, <1>2, <1>3, <1>3a DEF VInv, BooksOf, StepOf,
                              Asking, Paying, Declined
  <2>3. ReplyOf(v)'    BY <1>1, <1>2, <1>3, <1>3a DEF VInv, ReplyOf, Confirmed
  <2>4. ShowsOf(v)'    BY <1>1, <1>2, <1>3, <1>3a DEF VInv, ShowsOf
  <2>5. PaidOf(v)'     BY <1>1, <1>2, <1>3, <1>3a DEF VInv, PaidOf, Shown
  <2>6. RedeemedOf(v)' BY <1>1, <1>2, <1>3, <1>3a DEF VInv, RedeemedOf
  <2> QED BY <2>1, <2>2, <2>3, <2>4, <2>5, <2>6 DEF VInv
<1>8. ConfirmedOnce'
  BY <1>1, <1>2, <1>3, <1>4, NoneConfirmed DEF Confirmed, SameRows
<1> QED BY <1>4, <1>5, <1>6, <1>7, <1>8, Together

LEMMA OrderCompletedKeeps ==
    ASSUME IInv, NEW v \in Vouchers, OrderCompleted(v)
    PROVE  IInv'
<1>1. TypeOK /\ VInv(v) /\ ConfirmedOnce
  BY DEF IInv
<1>2. UNCHANGED <<token, prepaid, ptt, captured, repeats, reply, unanswered,
                quoted, redeemed, early>>
  BY DEF OrderCompleted, At, paypal, till
<1>3. /\ pc[v] = "payment" /\ pc'[v] = "order"
      /\ books'[v] = [books[v] EXCEPT !.order = "COMPLETED"]
      /\ books[v] \in Books
  BY <1>1 DEF TypeOK, At, OrderCompleted
<1>3a. /\ books'[v].item = books[v].item
       /\ books'[v].payment = books[v].payment
       /\ books'[v].order = "COMPLETED"
       /\ books'[v].points = books[v].points
  BY <1>3 DEF Books
<1>4. \A w \in Vouchers \ {v} : SameRows(w)
  BY <1>1, <1>2 DEF TypeOK, SameRows, At, OrderCompleted
<1>5. CapturedStays
  BY <1>2 DEF CapturedStays
<1>6. TypeOK'
  <2>1. pc' \in [Vouchers -> Steps]
    BY <1>1 DEF TypeOK, At, OrderCompleted, Steps, Asking, Paying, Declined
  <2>2. books' \in [Vouchers -> Books]
    <3>1. [books[v] EXCEPT !.order = "COMPLETED"] \in Books
      BY <1>3, ZenonT(30) DEF Books
    <3> QED BY <1>1, <3>1 DEF TypeOK, OrderCompleted
  <2> QED BY <1>1, <1>2, <2>1, <2>2 DEF TypeOK
<1>7. VInv(v)'
  <2>1. StepOf(v)'     BY <1>1, <1>2, <1>3, <1>3a DEF VInv, StepOf, Asking, Paying, Declined
  <2>2. BooksOf(v)'    BY <1>1, <1>2, <1>3, <1>3a DEF VInv, BooksOf, StepOf,
                              Asking, Paying, Declined
  <2>3. ReplyOf(v)'    BY <1>1, <1>2, <1>3, <1>3a DEF VInv, ReplyOf, Confirmed
  <2>4. ShowsOf(v)'    BY <1>1, <1>2, <1>3, <1>3a DEF VInv, ShowsOf
  <2>5. PaidOf(v)'     BY <1>1, <1>2, <1>3, <1>3a DEF VInv, PaidOf, Shown
  <2>6. RedeemedOf(v)' BY <1>1, <1>2, <1>3, <1>3a DEF VInv, RedeemedOf
  <2> QED BY <2>1, <2>2, <2>3, <2>4, <2>5, <2>6 DEF VInv
<1>8. ConfirmedOnce'
  BY <1>1, <1>2, <1>3, <1>4, NoneConfirmed DEF Confirmed, SameRows
<1> QED BY <1>4, <1>5, <1>6, <1>7, <1>8, Together

LEMMA PttNormalKeeps ==
    ASSUME IInv, NEW v \in Vouchers, PttNormal(v)
    PROVE  IInv'
<1>1. TypeOK /\ VInv(v) /\ ConfirmedOnce
  BY DEF IInv
<1>2. UNCHANGED <<token, prepaid, books, captured, repeats, reply, unanswered,
                quoted, redeemed, early>>
  BY DEF PttNormal, At, paypal, till
<1>3. /\ pc[v] = "order" /\ pc'[v] = "ptt"
      /\ ptt'[v].status = "NORMAL"
  BY <1>1 DEF TypeOK, At, PttNormal
<1>4. \A w \in Vouchers \ {v} : SameRows(w)
  BY <1>1, <1>2 DEF TypeOK, SameRows, At, PttNormal
<1>5. CapturedStays
  BY <1>2 DEF CapturedStays
<1>6. TypeOK'
  <2>1. pc' \in [Vouchers -> Steps]
    BY <1>1 DEF TypeOK, At, PttNormal, Steps, Asking, Paying, Declined
  <2>2. ptt' \in [Vouchers -> PttRow]
    BY <1>1 DEF TypeOK, PttNormal, PttRow
  <2> QED BY <1>1, <1>2, <2>1, <2>2 DEF TypeOK
<1>7. VInv(v)'
  <2>1. StepOf(v)'     BY <1>1, <1>2, <1>3 DEF VInv, StepOf, Asking, Paying, Declined
  <2>2. BooksOf(v)'    BY <1>1, <1>2, <1>3 DEF VInv, BooksOf, StepOf,
                              Asking, Paying, Declined
  <2>3. ReplyOf(v)'    BY <1>1, <1>2, <1>3 DEF VInv, ReplyOf, Confirmed
  <2>4. ShowsOf(v)'    BY <1>1, <1>2, <1>3 DEF VInv, ShowsOf
  <2>5. PaidOf(v)'     BY <1>1, <1>2, <1>3 DEF VInv, PaidOf, Shown
  <2>6. RedeemedOf(v)' BY <1>1, <1>2, <1>3 DEF VInv, RedeemedOf
  <2> QED BY <2>1, <2>2, <2>3, <2>4, <2>5, <2>6 DEF VInv
<1>8. ConfirmedOnce'
  BY <1>1, <1>2, <1>3, <1>4, NoneConfirmed DEF Confirmed, SameRows
<1> QED BY <1>4, <1>5, <1>6, <1>7, <1>8, Together

\* The voucher is opened: it was paid.
LEMMA PrepaidActiveKeeps ==
    ASSUME IInv, NEW v \in Vouchers, PrepaidActive(v)
    PROVE  IInv'
<1>1. TypeOK /\ VInv(v) /\ ConfirmedOnce
  BY DEF IInv
<1>2. UNCHANGED <<token, ptt, books, captured, repeats, reply, unanswered,
                quoted, redeemed, early>>
  BY DEF PrepaidActive, At, paypal, till
<1>3. /\ pc[v] = "ptt" /\ pc'[v] = "prepaid"
  BY <1>1 DEF TypeOK, At, PrepaidActive
<1>4. \A w \in Vouchers \ {v} : SameRows(w)
  BY <1>1, <1>2 DEF TypeOK, SameRows, At, PrepaidActive
<1>5. CapturedStays
  BY <1>2 DEF CapturedStays
<1>6. TypeOK'
  <2>1. pc' \in [Vouchers -> Steps]
    BY <1>1 DEF TypeOK, At, PrepaidActive, Steps, Asking, Paying, Declined
  <2>2. prepaid' \in [Vouchers -> PrepaidRow]
    BY <1>1 DEF TypeOK, PrepaidActive, PrepaidRow
  <2> QED BY <1>1, <1>2, <2>1, <2>2 DEF TypeOK
<1>7. VInv(v)'
  <2>1. StepOf(v)'     BY <1>1, <1>2, <1>3 DEF VInv, StepOf, Asking, Paying, Declined
  <2>2. BooksOf(v)'    BY <1>1, <1>2, <1>3 DEF VInv, BooksOf, StepOf,
                              Asking, Paying, Declined
  <2>3. ReplyOf(v)'    BY <1>1, <1>2, <1>3 DEF VInv, ReplyOf, Confirmed
  <2>4. ShowsOf(v)'    BY <1>1, <1>2, <1>3 DEF VInv, ShowsOf
  <2>5. PaidOf(v)'     BY <1>1, <1>2, <1>3 DEF VInv, PaidOf, Shown, StepOf, ReplyOf, Confirmed, Paying
  <2>6. RedeemedOf(v)' BY <1>1, <1>2, <1>3 DEF VInv, RedeemedOf
  <2> QED BY <2>1, <2>2, <2>3, <2>4, <2>5, <2>6 DEF VInv
<1>8. ConfirmedOnce'
  BY <1>1, <1>2, <1>3, <1>4, NoneConfirmed DEF Confirmed, SameRows
<1> QED BY <1>4, <1>5, <1>6, <1>7, <1>8, Together

LEMMA SetLoyaltyPointsKeeps ==
    ASSUME IInv, NEW v \in Vouchers, SetLoyaltyPoints(v)
    PROVE  IInv'
<1>1. TypeOK /\ VInv(v) /\ ConfirmedOnce
  BY DEF IInv
<1>2. UNCHANGED <<token, prepaid, ptt, captured, repeats, reply, unanswered,
                quoted, redeemed, early>>
  BY DEF SetLoyaltyPoints, At, paypal, till
<1>3. /\ pc[v] = "prepaid" /\ pc'[v] = "done"
      /\ books'[v] = [books[v] EXCEPT !.points = TRUE]
      /\ books[v] \in Books
  BY <1>1 DEF TypeOK, At, SetLoyaltyPoints
<1>3a. /\ books'[v].item = books[v].item
       /\ books'[v].payment = books[v].payment
       /\ books'[v].order = books[v].order
       /\ books'[v].points = TRUE
  BY <1>3 DEF Books
<1>4. \A w \in Vouchers \ {v} : SameRows(w)
  BY <1>1, <1>2 DEF TypeOK, SameRows, At, SetLoyaltyPoints
<1>5. CapturedStays
  BY <1>2 DEF CapturedStays
<1>6. TypeOK'
  <2>1. pc' \in [Vouchers -> Steps]
    BY <1>1 DEF TypeOK, At, SetLoyaltyPoints, Steps, Asking, Paying, Declined
  <2>2. books' \in [Vouchers -> Books]
    <3>1. [books[v] EXCEPT !.points = TRUE] \in Books
      BY <1>3, ZenonT(30) DEF Books
    <3> QED BY <1>1, <3>1 DEF TypeOK, SetLoyaltyPoints
  <2> QED BY <1>1, <1>2, <2>1, <2>2 DEF TypeOK
<1>7. VInv(v)'
  <2>1. StepOf(v)'     BY <1>1, <1>2, <1>3, <1>3a DEF VInv, StepOf, Asking, Paying, Declined
  <2>2. BooksOf(v)'    BY <1>1, <1>2, <1>3, <1>3a DEF VInv, BooksOf, StepOf,
                              Asking, Paying, Declined
  <2>3. ReplyOf(v)'    BY <1>1, <1>2, <1>3, <1>3a DEF VInv, ReplyOf, Confirmed
  <2>4. ShowsOf(v)'    BY <1>1, <1>2, <1>3, <1>3a DEF VInv, ShowsOf
  <2>5. PaidOf(v)'     BY <1>1, <1>2, <1>3, <1>3a DEF VInv, PaidOf, Shown
  <2>6. RedeemedOf(v)' BY <1>1, <1>2, <1>3, <1>3a DEF VInv, RedeemedOf
  <2> QED BY <2>1, <2>2, <2>3, <2>4, <2>5, <2>6 DEF VInv
<1>8. ConfirmedOnce'
  BY <1>1, <1>2, <1>3, <1>4, NoneConfirmed DEF Confirmed, SameRows
<1> QED BY <1>4, <1>5, <1>6, <1>7, <1>8, Together

\* A stopped request leaves its rows as they are.
LEMMA StopKeeps ==
    ASSUME IInv, NEW v \in Vouchers, Stop(v)
    PROVE  IInv'
<1>1. TypeOK /\ VInv(v) /\ ConfirmedOnce
  BY DEF IInv
<1>2. UNCHANGED <<token, prepaid, ptt, books, captured, repeats, reply, unanswered,
                quoted, redeemed>>
  BY DEF Stop, paypal, till
<1>3. /\ pc[v] \in Running /\ pc'[v] = "stopped"
      /\ v \in early \/ pc[v] = "created" <=> v \in early'
  BY <1>1 DEF TypeOK, Stop
<1>4. \A w \in Vouchers \ {v} : SameRows(w)
  BY <1>1, <1>2 DEF TypeOK, SameRows, Stop
<1>5. CapturedStays
  BY <1>2 DEF CapturedStays
<1>6. TypeOK'
  <2>1. pc' \in [Vouchers -> Steps]
    BY <1>1 DEF TypeOK, Stop, Steps
  <2>2. early' \subseteq Vouchers
    BY <1>1 DEF TypeOK, Stop
  <2> QED BY <1>1, <1>2, <2>1, <2>2 DEF TypeOK
<1>7. VInv(v)'
  <2>1. StepOf(v)'     BY <1>1, <1>2, <1>3 DEF VInv, StepOf, Asking, Paying, Declined, Running
  <2>2. BooksOf(v)'    BY <1>1, <1>2, <1>3 DEF VInv, BooksOf, StepOf,
                              Asking, Paying, Declined
  <2>3. ReplyOf(v)'    BY <1>1, <1>2, <1>3 DEF VInv, ReplyOf, Confirmed
  <2>4. ShowsOf(v)'    BY <1>1, <1>2, <1>3 DEF VInv, ShowsOf, Running
  <2>5. PaidOf(v)'     BY <1>1, <1>2, <1>3 DEF VInv, PaidOf, Shown
  <2>6. RedeemedOf(v)' BY <1>1, <1>2, <1>3 DEF VInv, RedeemedOf
  <2> QED BY <2>1, <2>2, <2>3, <2>4, <2>5, <2>6 DEF VInv
<1>8. ConfirmedOnce'
  BY <1>1, <1>2, <1>3, <1>4, NoneConfirmed DEF Confirmed, SameRows
<1> QED BY <1>4, <1>5, <1>6, <1>7, <1>8, Together

\* An open voucher is paid, or an exception from now on.
LEMMA FillCartKeeps ==
    ASSUME IInv, NEW v \in Vouchers, FillCart(v)
    PROVE  IInv'
<1>1. TypeOK /\ VInv(v) /\ ConfirmedOnce
  BY DEF IInv
<1>2. UNCHANGED <<pc, token, prepaid, ptt, books, captured, repeats, reply, unanswered, redeemed>>
  BY DEF FillCart, paypal, till
<1>3. /\ prepaid[v].active
      /\ v \in quoted'
      /\ v \in early \/ pc[v] = "created" <=> v \in early'
  BY <1>1 DEF TypeOK, FillCart
<1>4. \A w \in Vouchers \ {v} : SameRows(w)
  BY <1>1, <1>2 DEF TypeOK, SameRows, FillCart
<1>5. CapturedStays
  BY <1>2 DEF CapturedStays
<1>6. TypeOK'
  <2>1. quoted' \subseteq Vouchers
    BY <1>1 DEF TypeOK, FillCart
  <2>2. early' \subseteq Vouchers
    BY <1>1 DEF TypeOK, FillCart
  <2> QED BY <1>1, <1>2, <2>1, <2>2 DEF TypeOK
<1>7. VInv(v)'
  <2>1. StepOf(v)'     BY <1>1, <1>2, <1>3 DEF VInv, StepOf, Asking, Paying, Declined
  <2>2. BooksOf(v)'    BY <1>1, <1>2, <1>3 DEF VInv, BooksOf, StepOf,
                              Asking, Paying, Declined
  <2>3. ReplyOf(v)'    BY <1>1, <1>2, <1>3 DEF VInv, ReplyOf, Confirmed
  <2>4. ShowsOf(v)'    BY <1>1, <1>2, <1>3 DEF VInv, ShowsOf
  <2>5. PaidOf(v)'     BY <1>1, <1>2, <1>3 DEF VInv, PaidOf, Shown
  <2>6. RedeemedOf(v)' BY <1>1, <1>2, <1>3 DEF VInv, RedeemedOf, ShowsOf
  <2> QED BY <2>1, <2>2, <2>3, <2>4, <2>5, <2>6 DEF VInv
<1>8. ConfirmedOnce'
  BY <1>1, <1>2, <1>3, <1>4, NoneConfirmed DEF Confirmed, SameRows
<1> QED BY <1>4, <1>5, <1>6, <1>7, <1>8, Together

\* The transaction is closed.
LEMMA RedeemKeeps ==
    ASSUME IInv, NEW v \in Vouchers, Redeem(v)
    PROVE  IInv'
<1>1. TypeOK /\ VInv(v) /\ ConfirmedOnce
  BY DEF IInv
<1>2. UNCHANGED <<pc, token, books, captured, repeats, reply, unanswered,
                quoted, early>>
  BY DEF Redeem, paypal, till
<1>3. /\ v \in quoted /\ ptt[v].active
      /\ ~prepaid'[v].active
      /\ ~ptt'[v].active /\ ptt'[v].status = ptt[v].status
      /\ redeemed'[v] = redeemed[v] + 1 /\ redeemed[v] \in Nat
  BY <1>1 DEF TypeOK, Redeem
<1>4. \A w \in Vouchers \ {v} : SameRows(w)
  BY <1>1, <1>2 DEF TypeOK, SameRows, Redeem
<1>5. CapturedStays
  BY <1>2 DEF CapturedStays
<1>6. TypeOK'
  <2>1. prepaid' \in [Vouchers -> PrepaidRow]
    BY <1>1 DEF TypeOK, Redeem, PrepaidRow
  <2>2. ptt' \in [Vouchers -> PttRow]
    BY <1>1 DEF TypeOK, Redeem, PttRow
  <2>3. redeemed' \in [Vouchers -> Nat]
    BY <1>1 DEF TypeOK, Redeem
  <2> QED BY <1>1, <1>2, <2>1, <2>2, <2>3 DEF TypeOK
<1>7. VInv(v)'
  <2>1. StepOf(v)'     BY <1>1, <1>2, <1>3 DEF VInv, StepOf, Asking, Paying, Declined
  <2>2. BooksOf(v)'    BY <1>1, <1>2, <1>3 DEF VInv, BooksOf, StepOf,
                              Asking, Paying, Declined
  <2>3. ReplyOf(v)'    BY <1>1, <1>2, <1>3 DEF VInv, ReplyOf, Confirmed
  <2>4. ShowsOf(v)'    BY <1>1, <1>2, <1>3 DEF VInv, ShowsOf
  <2>5. PaidOf(v)'     BY <1>1, <1>2, <1>3 DEF VInv, PaidOf, Shown
  <2>6. RedeemedOf(v)' BY <1>1, <1>2, <1>3 DEF VInv, RedeemedOf
  <2> QED BY <2>1, <2>2, <2>3, <2>4, <2>5, <2>6 DEF VInv
<1>8. ConfirmedOnce'
  BY <1>1, <1>2, <1>3, <1>4, NoneConfirmed DEF Confirmed, SameRows
<1> QED BY <1>4, <1>5, <1>6, <1>7, <1>8, Together

-----------------------------------------------------------------------------
LEMMA ProceedKeeps ==
    ASSUME IInv, NEW v \in Vouchers, Proceed(v)
    PROVE  IInv'
BY HideKeeps, AskKeeps, ItemOffKeeps, PaymentOffKeeps, PttFailedKeeps,
   ItemCompletedKeeps, PaymentPaidKeeps, OrderCompletedKeeps, PttNormalKeeps,
   PrepaidActiveKeeps, SetLoyaltyPointsKeeps
   DEF Proceed

LEMMA ExchangeKeeps ==
    ASSUME IInv, NEW v \in Vouchers, Exchange(v)
    PROVE  IInv'
BY TreatKeeps, TreatLateKeeps, AnswerKeeps, ResendKeeps, LoseAnswerKeeps DEF Exchange

LEMMA StepKeeps == IInv /\ [Next]_vars => IInv'
<1> SUFFICES ASSUME IInv, [Next]_vars PROVE IInv' OBVIOUS
<1>1. CASE Next
  BY <1>1, ReturnPrepaidKeeps, ProceedKeeps, ExchangeKeeps, StopKeeps, FillCartKeeps,
     RedeemKeeps DEF Next
<1>2. CASE UNCHANGED vars
  <2> USE <1>2 DEF vars, paypal, till
  <2>1. TypeOK' BY DEF IInv, TypeOK
  <2>2. ASSUME NEW w \in Vouchers PROVE VInv(w)'
    BY OthersKeep DEF IInv, SameRows, CapturedStays
  <2>3. ConfirmedOnce' BY NoneConfirmed DEF IInv, Confirmed
  <2> QED BY <2>1, <2>2, <2>3 DEF IInv
<1> QED BY <1>1, <1>2

\* The inductive invariant: at every step of the return page, and wherever it
\* stops, the rows are as far as its commits.
THEOREM Invariance == Spec => []IInv
<1> QED BY InitEstablishes, StepKeeps, PTL DEF Spec

\* Whatever a till would take, from its cart or of its own, has been paid, but
\* for a voucher that was not hidden yet (afterPaypalLogin saves it open and
\* hides it in a later commit; checkOrderItem looks at its flag, the checkout
\* does not).
THEOREM SpendableWasPaid == Spec => []SpendableIsPaid
<1>1. IInv => SpendableIsPaid
  BY DEF IInv, VInv, PaidOf, Shown, SpendableIsPaid, Spendable
<1> QED BY <1>1, Invariance, PTL

\* No voucher is redeemed twice, but for one a till had in its cart before it
\* was hidden, though the checkout (reviewPrepaidWhenPaidByPrepaid) looks only
\* at its transaction and the return page writes both rows whole.
THEOREM IsRedeemedOnce == Spec => []RedeemedOnce
<1>1. IInv => RedeemedOnce
  <2>1. ASSUME IInv, NEW v \in Vouchers, redeemed[v] > 1 PROVE v \in early
    <3>1. RedeemedOf(v) BY <2>1 DEF IInv, VInv
    <3>2. redeemed[v] # 0 /\ redeemed[v] # 1 BY <2>1
    <3> QED BY <3>1, <3>2 DEF RedeemedOf
  <2> QED BY <2>1 DEF RedeemedOnce
<1> QED BY <1>1, Invariance, PTL

\* However often the page is loaded, a purchase puts one voucher in force, if
\* PayPal does not confirm a purchase twice.
THEOREM PurchaseGivesOneVoucher == Spec => []OneVoucherPerPurchase
<1>1. IInv => OneVoucherPerPurchase
  BY DEF IInv, VInv, BooksOf, ConfirmedOnce, Confirmed, OneVoucherPerPurchase
<1> QED BY <1>1, Invariance, PTL

\* Wherever the commits of handlePayment stop, what the customer gets is
\* covered by the books.
THEOREM GoodsAreCovered == Spec => []GoodsFollowBooks
<1>1. IInv => GoodsFollowBooks
  BY DEF IInv, VInv, BooksOf, ReplyOf, Confirmed, GoodsFollowBooks
<1> QED BY <1>1, Invariance, PTL
=============================================================================
