-------------------------- MODULE FormDialogsProofs --------------------------
(***************************************************************************)
(* What TLAPS proves of FormDialogs, for any number of dialogs and of      *)
(* forms sent.  The argument about saving follows the tokens: no two       *)
(* dialogs ever hold one token, and what a dialog holds in the pool, what  *)
(* was accepted and what was saved are together one chance (OneChance).    *)
(* The argument about the stack follows what is on the screen.             *)
(***************************************************************************)
EXTENDS FormDialogs, SequenceTheorems, TLAPS


\* Token i is one that the form of d has, or that a request for it carries.
HasToken(d, i) ==
    \/ form[d].token = i
    \/ form[d].field = i
    \/ \E r \in DOMAIN req : req[r].dialog = d /\ (req[r].token = i \/ req[r].fresh = i)

\* No token is held by two dialogs, nor one that was not made yet.
TokensApart ==
    /\ \A d \in DOMAIN form : \A i \in Nat : HasToken(d, i) => i <= issued
    /\ \A d, e \in DOMAIN form : \A i \in Nat : HasToken(d, i) /\ HasToken(e, i) => d = e

\* Unless two requests raced, a dialog has one chance to be saved: one token in
\* the pool, or one request accepted, or it was saved; and a request that found
\* its token still finds it.
Chance(d) ==
    /\ \A i, j \in pool : HasToken(d, i) /\ HasToken(d, j) => i = j
    /\ \A r, q \in DOMAIN req : /\ req[r].dialog = d /\ req[r].at = "accepted"
                                /\ req[q].dialog = d /\ req[q].at = "accepted"
                                => r = q
    /\ \A r \in DOMAIN req : req[r].dialog = d /\ req[r].at = "accepted"
           => saves[d] = 0 /\ \A i \in pool : ~HasToken(d, i)
    /\ \A i \in pool : HasToken(d, i) => saves[d] = 0
    /\ \A r \in DOMAIN req : req[r].dialog = d /\ req[r].at = "checked" => req[r].token \in pool
    /\ saves[d] <= 1

OneChance == \A d \in DOMAIN form \ raced : Chance(d)

\* The new token of an answer that is awaited is in the pool, and nobody else has
\* it to send.
FreshIsKept ==
    \A r \in Awaited : req[r].fresh # None =>
        /\ req[r].fresh \in pool
        /\ \A d \in DOMAIN form : form[d].token # req[r].fresh /\ form[d].field # req[r].fresh
        /\ \A q \in DOMAIN req : req[q].token # req[r].fresh
        /\ \A q \in DOMAIN req \ {r} : req[q].fresh # req[r].fresh

\* Where a request is when its answer is in, and when it got a new token.
Answered ==
    \A r \in DOMAIN req :
        /\ req[r].at = "saved" => saves[req[r].dialog] > 0
        /\ req[r].at = "invalid" <=> req[r].fresh # None
        /\ ~req[r].awaited /\ req[r].dialog \notin hurt => req[r].at \in {"saved", "invalid", "refused"}

\* A form that is not saved keeps the hidden field only while the answer that will
\* remove it is awaited; its token is good, or an answer to come brings another.
StillUsable ==
    \A d \in DOMAIN form \ hurt : saves[d] = 0 =>
        /\ form[d].field # None => \E r \in Awaited : req[r].dialog = d /\ req[r].dynamic
        /\ \/ form[d].token \in pool
           \/ \E r \in Awaited : req[r].dialog = d /\ req[r].at \in {"accepted", "invalid", "thrown"}

\* A dialog is on the screen once.
Distinct ==
    /\ \A i, j \in DOMAIN open : open[i] = open[j] => i = j
    /\ \A i, j \in DOMAIN hiding : hiding[i] = hiding[j] => i = j
    /\ \A i \in DOMAIN open, j \in DOMAIN hiding : open[i] # hiding[j]

\* The stack is what is on the screen, the one that fades last, unless one came
\* while another faded.
InOrder ==
    ~mixed => \/ hiding = <<>> /\ stack = open
              \/ \E x \in DOMAIN form : hiding = <<x>> /\ stack = Append(open, x)

\* The form whose answer is awaited is on top, unless a dialog came or went.
OnTop ==
    \A r \in Awaited \ turned : hiding = <<>> /\ open # <<>> /\ Last(open) = req[r].dialog

-----------------------------------------------------------------------------
\* The tables are functions on their ids.
LEMMA Rows ==
    ASSUME TypeOK
    PROVE  /\ Len(form) \in Nat /\ DOMAIN form = 1..Len(form)
           /\ Len(req) \in Nat /\ DOMAIN req = 1..Len(req)
           /\ Len(saves) \in Nat /\ DOMAIN saves = DOMAIN form
           /\ \A d \in DOMAIN form : form[d] \in FormRow /\ saves[d] \in Nat
           /\ \A r \in DOMAIN req : req[r] \in ReqRow /\ req[r].dialog \in DOMAIN form
<1>1. Len(form) \in Nat /\ DOMAIN form = 1..Len(form) /\ form \in [1..Len(form) -> FormRow]
  BY LenProperties DEF TypeOK
<1>2. Len(req) \in Nat /\ DOMAIN req = 1..Len(req) /\ req \in [1..Len(req) -> ReqRow]
  BY LenProperties DEF TypeOK
<1>3. /\ Len(saves) \in Nat /\ DOMAIN saves = 1..Len(saves) /\ saves \in [1..Len(saves) -> Nat]
      /\ Len(saves) = Len(form)
  BY LenProperties DEF TypeOK
<1> QED BY <1>1, <1>2, <1>3 DEF TypeOK

\* One row of a table changes.
LEMMA ChangeForm ==
    ASSUME TypeOK, NEW d \in DOMAIN form, NEW row \in FormRow,
           form' = [form EXCEPT ![d] = row]
    PROVE  /\ form' \in Seq(FormRow) /\ Len(form') = Len(form) /\ DOMAIN form' = DOMAIN form
           /\ form'[d] = row
           /\ \A e \in DOMAIN form : e # d => form'[e] = form[e]
<1>1. form \in Seq(FormRow) /\ d \in 1..Len(form)
  BY Rows DEF TypeOK
<1>2. form' \in Seq(FormRow) /\ Len(form') = Len(form)
  BY <1>1, ExceptSeq
<1> QED BY <1>1, <1>2, Rows

LEMMA ChangeReq ==
    ASSUME TypeOK, NEW r \in DOMAIN req, NEW row \in ReqRow,
           req' = [req EXCEPT ![r] = row]
    PROVE  /\ req' \in Seq(ReqRow) /\ Len(req') = Len(req) /\ DOMAIN req' = DOMAIN req
           /\ req'[r] = row
           /\ \A q \in DOMAIN req : q # r => req'[q] = req[q]
<1>1. req \in Seq(ReqRow) /\ r \in 1..Len(req)
  BY Rows DEF TypeOK
<1>2. req' \in Seq(ReqRow) /\ Len(req') = Len(req)
  BY <1>1, ExceptSeq
<1> QED BY <1>1, <1>2, Rows

\* What the form of a dialog sends is a token the dialog has.
LEMMA SendsToken ==
    ASSUME TypeOK, NEW d \in DOMAIN form
    PROVE  Sends(form[d]) \in Nat /\ HasToken(d, Sends(form[d]))
<1>1. form[d].token \in Nat /\ form[d].field \in Nat \union {None}
  BY Rows DEF FormRow
<1> QED BY <1>1 DEF Sends, HasToken

\* Removing one place of a sequence without repetitions removes its element.
LEMMA RemoveAtIs ==
    ASSUME NEW S, NEW s \in Seq(S), NEW i \in 1..Len(s)
    PROVE  /\ RemoveAt(s, i) \in Seq(S) /\ Len(RemoveAt(s, i)) = Len(s) - 1
           /\ \A k \in 1..Len(s) - 1 : RemoveAt(s, i)[k] = IF k < i THEN s[k] ELSE s[k + 1]
<1> DEFINE a == SubSeq(s, 1, i - 1)
           b == SubSeq(s, i + 1, Len(s))
<1>1. Len(s) \in Nat /\ \A k \in 1..Len(s) : s[k] \in S
  BY LenProperties
<1>2. /\ a \in Seq(S) /\ Len(a) = i - 1 /\ \A k \in 1..i - 1 : a[k] = s[k]
  <2>1. (\A k \in 1..(i - 1) : s[k] \in S) /\ 1 \in Int /\ i - 1 \in Int
    BY <1>1
  <2>2. /\ a \in Seq(S) /\ Len(a) = (IF 1 <= i - 1 THEN (i - 1) - 1 + 1 ELSE 0)
        /\ \A k \in 1..(i - 1) - 1 + 1 : a[k] = s[1 + k - 1]
    BY <2>1, SubSeqProperties
  <2> HIDE DEF a
  <2> QED BY <2>2
<1>3. /\ b \in Seq(S) /\ Len(b) = Len(s) - i /\ \A k \in 1..Len(s) - i : b[k] = s[k + i]
  <2>1. (\A k \in (i + 1)..Len(s) : s[k] \in S) /\ i + 1 \in Int /\ Len(s) \in Int
    BY <1>1
  <2>2. /\ b \in Seq(S) /\ Len(b) = (IF i + 1 <= Len(s) THEN Len(s) - (i + 1) + 1 ELSE 0)
        /\ \A k \in 1..Len(s) - (i + 1) + 1 : b[k] = s[(i + 1) + k - 1]
    BY <2>1, SubSeqProperties
  <2> HIDE DEF b
  <2> QED BY <2>2, <1>1
<1> HIDE DEF a, b
<1>4. /\ a \o b \in Seq(S) /\ Len(a \o b) = Len(a) + Len(b)
      /\ \A k \in 1..Len(a) + Len(b) : (a \o b)[k] = IF k <= Len(a) THEN a[k] ELSE b[k - Len(a)]
  BY <1>2, <1>3, ConcatProperties
<1>5. RemoveAt(s, i) = a \o b
  BY DEF RemoveAt, a, b
<1>6. ASSUME NEW k \in 1..Len(s) - 1
      PROVE  (a \o b)[k] = IF k < i THEN s[k] ELSE s[k + 1]
  <2>1. k \in 1..Len(a) + Len(b) /\ Len(a) = i - 1
    BY <1>1, <1>2, <1>3
  <2>2. CASE k < i
    BY <2>1, <2>2, <1>2, <1>4
  <2>3. CASE ~(k < i)
    <3>1. (a \o b)[k] = b[k - (i - 1)] /\ k - (i - 1) \in 1..Len(s) - i
      BY <2>1, <2>3, <1>1, <1>4
    <3> QED BY <3>1, <2>3, <1>3
  <2> QED BY <2>2, <2>3
<1> QED BY <1>1, <1>2, <1>3, <1>4, <1>5, <1>6

-----------------------------------------------------------------------------
(* Types *)

\* A dialog that is closed goes from the open ones to those that fade.
LEMMA ClosedIs ==
    ASSUME TypeOK, NEW d \in DOMAIN form, Closed(d)
    PROVE  /\ open' \in Seq(DOMAIN form) /\ hiding' \in Seq(DOMAIN form)
           /\ Len(open') + Len(hiding') = Len(open) + Len(hiding)
           /\ turned \subseteq turned' /\ turned' \subseteq DOMAIN req
<1>1. /\ open \in Seq(DOMAIN form) /\ hiding \in Seq(DOMAIN form)
      /\ Len(open) \in Nat /\ Len(hiding) \in Nat /\ DOMAIN open = 1..Len(open)
      /\ turned \subseteq DOMAIN req /\ Awaited \subseteq DOMAIN req
  BY LenProperties DEF TypeOK, Awaited
<1>2. CASE UNCHANGED <<open, hiding, turned>>
  BY <1>1, <1>2
<1>3. CASE \E i \in DOMAIN open : /\ open' = RemoveAt(open, i)
                                  /\ hiding' = Append(hiding, d)
                                  /\ turned' = turned \union Awaited
  <2>1. PICK i \in 1..Len(open) : open' = RemoveAt(open, i)
    BY <1>1, <1>3
  <2>2. open' \in Seq(DOMAIN form) /\ Len(open') = Len(open) - 1
    BY <1>1, <2>1, RemoveAtIs
  <2>3. hiding' \in Seq(DOMAIN form) /\ Len(hiding') = Len(hiding) + 1
    BY <1>1, <1>3, AppendProperties
  <2> QED BY <1>1, <1>3, <2>2, <2>3
<1> QED BY <1>2, <1>3 DEF Closed

\* The rows an answer leaves.
LEMMA AlwaysIs ==
    ASSUME TypeOK, NEW r \in DOMAIN req, NEW token \in Nat, Always(r, token),
           NEW d, d = req[r].dialog
    PROVE  /\ d \in DOMAIN form
           /\ req' \in Seq(ReqRow) /\ Len(req') = Len(req) /\ DOMAIN req' = DOMAIN req
           /\ req'[r] = [req[r] EXCEPT !.awaited = FALSE]
           /\ \A q \in DOMAIN req : q # r => req'[q] = req[q]
           /\ form' \in Seq(FormRow) /\ Len(form') = Len(form) /\ DOMAIN form' = DOMAIN form
           /\ form'[d] = [token |-> token,
                          field |-> IF req[r].dynamic THEN None ELSE form[d].field,
                          button |-> "ready"]
           /\ \A e \in DOMAIN form : e # d => form'[e] = form[e]
<1> DEFINE row == [req[r] EXCEPT !.awaited = FALSE]
           new == [token |-> token,
                   field |-> IF req[r].dynamic THEN None ELSE form[d].field,
                   button |-> "ready"]
<1>1. d \in DOMAIN form /\ form[d] \in FormRow /\ req[r] \in ReqRow
  BY Rows
<1>2. row \in ReqRow
  BY <1>1 DEF ReqRow
<1>3. new \in FormRow
  <2>1. form[d].field \in Nat \union {None}
    BY <1>1 DEF FormRow
  <2> QED BY <2>1 DEF FormRow
<1>4. req' = [req EXCEPT ![r] = row] /\ form' = [form EXCEPT ![d] = new]
  BY <1>1 DEF Always
<1> HIDE DEF row, new
<1>5. /\ req' \in Seq(ReqRow) /\ Len(req') = Len(req) /\ DOMAIN req' = DOMAIN req
      /\ req'[r] = row
      /\ \A q \in DOMAIN req : q # r => req'[q] = req[q]
  BY <1>2, <1>4, ChangeReq
<1>6. /\ form' \in Seq(FormRow) /\ Len(form') = Len(form) /\ DOMAIN form' = DOMAIN form
      /\ form'[d] = new
      /\ \A e \in DOMAIN form : e # d => form'[e] = form[e]
  BY <1>1, <1>3, <1>4, ChangeForm
<1> QED BY <1>1, <1>5, <1>6 DEF row, new

\* A request that goes on, its token and its dialog the same.
LEMMA AtIs ==
    ASSUME TypeOK, NEW r \in DOMAIN req, NEW at \in Steps,
           NEW fresh \in Nat \union {None},
           req' = [req EXCEPT ![r] = [req[r] EXCEPT !.at = at, !.fresh = fresh]]
    PROVE  /\ req' \in Seq(ReqRow) /\ Len(req') = Len(req) /\ DOMAIN req' = DOMAIN req
           /\ req'[r] = [req[r] EXCEPT !.at = at, !.fresh = fresh]
           /\ req'[r].dialog = req[r].dialog /\ req'[r].token = req[r].token
           /\ req'[r].awaited = req[r].awaited /\ req'[r].dynamic = req[r].dynamic
           /\ req'[r].at = at /\ req'[r].fresh = fresh
           /\ \A q \in DOMAIN req : q # r => req'[q] = req[q]
<1> DEFINE row == [req[r] EXCEPT !.at = at, !.fresh = fresh]
<1>1. req[r] \in ReqRow
  BY Rows
<1>2. row \in ReqRow
  BY <1>1 DEF ReqRow
<1>3. /\ row.dialog = req[r].dialog /\ row.token = req[r].token
      /\ row.awaited = req[r].awaited /\ row.dynamic = req[r].dynamic
      /\ row.at = at /\ row.fresh = fresh
  BY <1>1 DEF ReqRow
<1> HIDE DEF row
<1>4. /\ req' \in Seq(ReqRow) /\ Len(req') = Len(req) /\ DOMAIN req' = DOMAIN req
      /\ req'[r] = row
      /\ \A q \in DOMAIN req : q # r => req'[q] = req[q]
  <2>1. req' = [req EXCEPT ![r] = row]
    BY DEF row
  <2> QED BY <2>1, <1>2, ChangeReq
<1> QED BY <1>3, <1>4 DEF row

LEMMA InitTypeOK == Init => TypeOK
<1> SUFFICES ASSUME Init PROVE TypeOK
  OBVIOUS
<1>1. \A S : <<>> \in Seq(S)
  OBVIOUS
<1>2. Len(<<>>) = 0 /\ DOMAIN <<>> = {}
  OBVIOUS
<1>3. form \in Seq(FormRow) /\ loads \in Nat /\ Len(form) + loads <= NDialogs
  BY <1>1, <1>2, FormsAssumption DEF Init
<1>4. req \in Seq(ReqRow) /\ Len(req) <= NRequests /\ \A r \in DOMAIN req : req[r].dialog \in DOMAIN form
  BY <1>1, <1>2, FormsAssumption DEF Init
<1>5. /\ stack \in Seq(DOMAIN form) /\ open \in Seq(DOMAIN form) /\ hiding \in Seq(DOMAIN form)
      /\ Len(stack) = Len(open) + Len(hiding)
  BY <1>1, <1>2 DEF Init
<1>6. issued \in Nat /\ pool \subseteq 1..issued /\ saves \in Seq(Nat) /\ Len(saves) = Len(form)
  BY <1>1, <1>2 DEF Init
<1>7. raced \subseteq DOMAIN form /\ hurt \subseteq DOMAIN form
      /\ turned \subseteq DOMAIN req /\ mixed \in BOOLEAN
  BY DEF Init
<1> QED BY <1>3, <1>4, <1>5, <1>6, <1>7 DEF TypeOK

\* What an action must show that does not touch the stack.
LEMMA TypeKept ==
    ASSUME TypeOK, DOMAIN form' = DOMAIN form, Len(form') = Len(form),
           form' \in Seq(FormRow),
           req' \in Seq(ReqRow), Len(req') = Len(req), DOMAIN req' = DOMAIN req,
           \A r \in DOMAIN req : req'[r].dialog = req[r].dialog,
           stack' = stack, loads' = loads,
           open' \in Seq(DOMAIN form), hiding' \in Seq(DOMAIN form),
           Len(open') + Len(hiding') = Len(open) + Len(hiding),
           issued' \in Nat, pool' \subseteq 1..issued',
           saves' \in Seq(Nat), Len(saves') = Len(saves),
           raced' \subseteq DOMAIN form, hurt' \subseteq DOMAIN form,
           turned' \subseteq DOMAIN req, mixed' \in BOOLEAN
    PROVE  TypeOK'
BY DEF TypeOK

LEMMA CreateType == ASSUME TypeOK, Create PROVE TypeOK'
<1>1. loads' \in Nat /\ Len(form) + loads' <= NDialogs
  <2>1. loads \in Nat /\ Len(form) \in Nat /\ NDialogs \in Nat /\ Len(form) + loads < NDialogs
        /\ loads' = loads + 1
    BY Rows, FormsAssumption DEF TypeOK, Create
  <2> QED BY <2>1
<1> QED BY <1>1 DEF TypeOK, Create

LEMMA NotShownType == ASSUME TypeOK, NotShown PROVE TypeOK'
<1>1. loads' \in Nat /\ Len(form) + loads' <= NDialogs
  <2>1. loads \in Nat /\ Len(form) \in Nat /\ NDialogs \in Nat /\ Len(form) + loads <= NDialogs
        /\ loads' = loads - 1 /\ loads > 0
    BY Rows, FormsAssumption DEF TypeOK, NotShown
  <2> QED BY <2>1
<1> QED BY <1>1 DEF TypeOK, NotShown

\* The rows a new dialog leaves.
LEMMA ShowIs ==
    ASSUME TypeOK, Show, NEW d, d = Len(form) + 1
    PROVE  /\ d \notin DOMAIN form /\ DOMAIN form' = DOMAIN form \union {d}
           /\ form' \in Seq(FormRow) /\ Len(form') = Len(form) + 1
           /\ form'[d] = [token |-> issued + 1, field |-> None, button |-> "ready"]
           /\ \A e \in DOMAIN form : form'[e] = form[e]
           /\ saves' \in Seq(Nat) /\ Len(saves') = Len(saves) + 1 /\ saves'[d] = 0
           /\ \A e \in DOMAIN form : saves'[e] = saves[e]
           /\ issued' = issued + 1 /\ pool' = pool \union {issued'}
           /\ issued \in Nat /\ issued' \in Nat
<1> DEFINE new == [token |-> issued + 1, field |-> None, button |-> "ready"]
<1>0. issued \in Nat /\ form \in Seq(FormRow) /\ saves \in Seq(Nat) /\ Len(saves) = Len(form)
  BY DEF TypeOK
<1>1. new \in FormRow
  BY <1>0 DEF FormRow
<1>2. form' = Append(form, new) /\ saves' = Append(saves, 0)
      /\ issued' = issued + 1 /\ pool' = pool \union {issued'}
  BY DEF Show
<1>3. Len(form) \in Nat /\ DOMAIN form = 1..Len(form)
  BY Rows
<1> HIDE DEF new
<1>4. /\ form' \in Seq(FormRow) /\ Len(form') = Len(form) + 1
      /\ (\A e \in 1..Len(form) : form'[e] = form[e]) /\ form'[d] = new
  BY <1>0, <1>1, <1>2, AppendProperties
<1>5. /\ saves' \in Seq(Nat) /\ Len(saves') = Len(saves) + 1
      /\ (\A e \in 1..Len(form) : saves'[e] = saves[e]) /\ saves'[d] = 0
  <2>1. 0 \in Nat
    OBVIOUS
  <2> QED BY <2>1, <1>0, <1>2, AppendProperties
<1>6. DOMAIN form' = 1..Len(form) + 1
  BY <1>4, LenProperties
<1> QED BY <1>0, <1>2, <1>3, <1>4, <1>5, <1>6 DEF new

LEMMA ShowType == ASSUME TypeOK, Show PROVE TypeOK'
<1> DEFINE d == Len(form) + 1
           D == DOMAIN form'
<1>1. /\ DOMAIN form' = DOMAIN form \union {d} /\ DOMAIN form \subseteq D /\ d \in D
      /\ form' \in Seq(FormRow) /\ Len(form') = Len(form) + 1
      /\ saves' \in Seq(Nat) /\ Len(saves') = Len(saves) + 1
      /\ issued' = issued + 1 /\ pool' = pool \union {issued'} /\ issued \in Nat
  BY ShowIs
<1>2. /\ stack' = Append(stack, d) /\ open' = Append(open, d) /\ hiding' = hiding
      /\ loads' = loads - 1 /\ loads > 0 /\ req' = req
      /\ raced' = raced /\ hurt' = hurt /\ turned' = turned \union Awaited
      /\ mixed' = (mixed \/ hiding # <<>>)
  BY DEF Show
<1> HIDE DEF d, D
<1>3. /\ stack \in Seq(DOMAIN form) /\ open \in Seq(DOMAIN form) /\ hiding \in Seq(DOMAIN form)
      /\ loads \in Nat /\ Len(form) \in Nat /\ Len(form) + loads <= NDialogs
      /\ Len(stack) = Len(open) + Len(hiding) /\ Len(open) \in Nat /\ Len(hiding) \in Nat
      /\ Len(saves) = Len(form) /\ pool \subseteq 1..issued
  BY Rows, LenProperties DEF TypeOK
<1>4. stack \in Seq(D) /\ open \in Seq(D) /\ hiding \in Seq(D)
  BY <1>1, <1>3, SeqMonotonic
<1>5. stack' \in Seq(D) /\ Len(stack') = Len(stack) + 1
  BY <1>1, <1>2, <1>4, AppendProperties
<1>6. open' \in Seq(D) /\ Len(open') = Len(open) + 1
  BY <1>1, <1>2, <1>4, AppendProperties
<1>7. loads' \in Nat /\ Len(form') + loads' <= NDialogs
  BY <1>1, <1>2, <1>3, FormsAssumption
<1>8. pool' \subseteq 1..issued' /\ issued' \in Nat
  BY <1>1, <1>3
<1>9. Len(stack') = Len(open') + Len(hiding')
  BY <1>2, <1>3, <1>5, <1>6
<1>10. turned' \subseteq DOMAIN req' /\ mixed' \in BOOLEAN
  BY <1>2 DEF TypeOK, Awaited
<1>11. raced' \subseteq DOMAIN form' /\ hurt' \subseteq DOMAIN form'
  BY <1>1, <1>2 DEF TypeOK
<1>12. req' \in Seq(ReqRow) /\ Len(req') <= NRequests
       /\ \A r \in DOMAIN req' : req'[r].dialog \in DOMAIN form'
  BY <1>1, <1>2 DEF TypeOK
<1> QED BY <1>1, <1>2, <1>3, <1>4, <1>5, <1>6, <1>7, <1>8, <1>9, <1>10, <1>11, <1>12 DEF TypeOK, D

\* The last element of a sequence that has one.
LEMMA LastIs ==
    ASSUME NEW S, NEW s \in Seq(S), s # <<>>
    PROVE  /\ Len(s) \in Nat /\ Len(s) > 0 /\ Len(s) \in DOMAIN s /\ Last(s) = s[Len(s)] /\ Last(s) \in S
           /\ Front(s) \in Seq(S) /\ Len(Front(s)) = Len(s) - 1
           /\ \A k \in 1..Len(s) - 1 : Front(s)[k] = s[k]
<1>1. Len(s) \in Nat /\ Len(s) > 0 /\ DOMAIN s = 1..Len(s) /\ \A k \in 1..Len(s) : s[k] \in S
  BY EmptySeq, LenProperties
<1>2. (\A k \in 1..(Len(s) - 1) : s[k] \in S) /\ 1 \in Int /\ Len(s) - 1 \in Int
  BY <1>1
<1>3. /\ Front(s) \in Seq(S)
      /\ Len(Front(s)) = IF 1 <= Len(s) - 1 THEN (Len(s) - 1) - 1 + 1 ELSE 0
      /\ \A k \in 1..(Len(s) - 1) - 1 + 1 : Front(s)[k] = s[1 + k - 1]
  BY <1>2, SubSeqProperties DEF Front
<1> DEFINE n == Len(s)
<1>4. n \in Nat /\ n > 0 /\ (n - 1) - 1 + 1 = n - 1 /\ \A k \in 1..n - 1 : 1 + k - 1 = k
  BY <1>1
<1>5. Len(Front(s)) = n - 1
  <2>1. Len(Front(s)) = IF 1 <= n - 1 THEN (n - 1) - 1 + 1 ELSE 0
    BY <1>3
  <2> HIDE DEF n
  <2> QED BY <2>1, <1>4
<1>6. \A k \in 1..n - 1 : Front(s)[k] = s[k]
  <2>1. \A k \in 1..(n - 1) - 1 + 1 : Front(s)[k] = s[1 + k - 1]
    BY <1>3
  <2> HIDE DEF n
  <2> QED BY <2>1, <1>4
<1>7. Len(s) \in DOMAIN s /\ s[Len(s)] \in S
  BY <1>1
<1> QED BY <1>1, <1>3, <1>5, <1>6, <1>7 DEF Last

LEMMA CloseType == ASSUME TypeOK, Close PROVE TypeOK'
<1>1. Last(open) \in DOMAIN form /\ Closed(Last(open))
  BY LastIs DEF Close, TypeOK
<1>2. /\ open' \in Seq(DOMAIN form) /\ hiding' \in Seq(DOMAIN form)
      /\ Len(open') + Len(hiding') = Len(open) + Len(hiding) /\ turned' \subseteq DOMAIN req
  BY <1>1, ClosedIs
<1>3. UNCHANGED <<stack, loads, form, req, pool, issued, saves, raced, hurt, mixed>>
  BY DEF Close
<1> QED BY <1>2, <1>3 DEF TypeOK

LEMMA HiddenType == ASSUME TypeOK, Hidden PROVE TypeOK'
<1>1. /\ stack \in Seq(DOMAIN form) /\ open \in Seq(DOMAIN form) /\ hiding \in Seq(DOMAIN form)
      /\ Len(stack) = Len(open) + Len(hiding) /\ Len(open) \in Nat /\ Len(hiding) \in Nat
      /\ Len(stack) \in Nat
  BY LenProperties DEF TypeOK
<1>2. hiding # <<>> /\ hiding' = Tail(hiding) /\ stack' = Front(stack)
      /\ mixed' \in BOOLEAN
      /\ UNCHANGED <<open, loads, form, req, pool, issued, saves, raced, hurt, turned>>
  BY DEF Hidden, TypeOK
<1>3. hiding' \in Seq(DOMAIN form) /\ Len(hiding') = Len(hiding) - 1 /\ Len(hiding) > 0
  BY <1>1, <1>2, HeadTailProperties, EmptySeq
<1>4. stack # <<>>
  BY <1>1, <1>3
<1>5. stack' \in Seq(DOMAIN form) /\ Len(stack') = Len(stack) - 1
  BY <1>1, <1>2, <1>4, LastIs
<1>6. Len(stack') = Len(open') + Len(hiding')
  BY <1>1, <1>2, <1>3, <1>5
<1> QED BY <1>2, <1>3, <1>5, <1>6 DEF TypeOK

\* The rows a form that is sent leaves.
LEMMA SubmitIs ==
    ASSUME TypeOK, Submit, NEW d, d = Last(open), NEW n, n = Len(req) + 1
    PROVE  /\ d \in DOMAIN form /\ n \notin DOMAIN req /\ DOMAIN req' = DOMAIN req \union {n}
           /\ n \in 1..NRequests
           /\ req' \in Seq(ReqRow) /\ Len(req') = Len(req) + 1
           /\ req'[n].dialog = d /\ req'[n].token = Sends(form[d])
           /\ (req'[n].dynamic <=> form[d].field = None)
           /\ req'[n].at = "sent" /\ req'[n].fresh = None /\ req'[n].awaited
           /\ \A q \in DOMAIN req : req'[q] = req[q]
           /\ form' \in Seq(FormRow) /\ Len(form') = Len(form) /\ DOMAIN form' = DOMAIN form
           /\ form'[d].token = form[d].token /\ form'[d].field = Sends(form[d])
           /\ \A e \in DOMAIN form : e # d => form'[e] = form[e]
<1> DEFINE row == [dialog |-> d, token |-> Sends(form[d]),
                   dynamic |-> form[d].field = None, at |-> "sent",
                   fresh |-> None, awaited |-> TRUE]
           new == [form[d] EXCEPT !.field = Sends(form[d]), !.button = "clicked"]
<1>1. d \in DOMAIN form
  BY LastIs DEF Submit, TypeOK
<1>2. form[d] \in FormRow /\ Sends(form[d]) \in Nat
  BY <1>1, Rows, SendsToken
<1>3. d \in Dialogs
  <2>1. Len(form) \in Nat /\ loads \in Nat /\ Len(form) + loads <= NDialogs /\ d \in 1..Len(form)
    BY <1>1, Rows DEF TypeOK
  <2> QED BY <2>1, FormsAssumption DEF Dialogs
<1>4. row \in ReqRow
  <2>1. (form[d].field = None) \in BOOLEAN
    OBVIOUS
  <2> QED BY <2>1, <1>2, <1>3 DEF ReqRow, Steps
<1>13. /\ row.dialog = d /\ row.token = Sends(form[d]) /\ row.at = "sent"
       /\ row.fresh = None /\ row.awaited
  OBVIOUS
<1>14. row.dynamic <=> form[d].field = None
  OBVIOUS
<1>15. new.token = form[d].token /\ new.field = Sends(form[d])
  BY <1>2 DEF FormRow
<1>5. new \in FormRow
  BY <1>2 DEF FormRow
<1>6. req' = Append(req, row)
  BY DEF Submit
<1>7. form' = [form EXCEPT ![d] = new]
  BY <1>1 DEF Submit
<1> HIDE DEF row, new
<1>8. /\ Len(req) \in Nat /\ Len(req) < NRequests /\ DOMAIN req = 1..Len(req) /\ req \in Seq(ReqRow)
      /\ NRequests \in Nat
  BY Rows, FormsAssumption DEF Submit, TypeOK
<1>9. /\ req' \in Seq(ReqRow) /\ Len(req') = Len(req) + 1 /\ req'[n] = row
      /\ \A q \in 1..Len(req) : req'[q] = req[q]
  BY <1>4, <1>6, <1>8, AppendProperties
<1>10. DOMAIN req' = 1..Len(req) + 1
  BY <1>9, LenProperties
<1>11. /\ form' \in Seq(FormRow) /\ Len(form') = Len(form) /\ DOMAIN form' = DOMAIN form
       /\ form'[d] = new
       /\ \A e \in DOMAIN form : e # d => form'[e] = form[e]
  BY <1>1, <1>5, <1>7, ChangeForm
<1>12. n \notin DOMAIN req /\ DOMAIN req' = DOMAIN req \union {n} /\ n \in 1..NRequests
  BY <1>8, <1>10
<1> QED BY <1>1, <1>8, <1>9, <1>11, <1>12, <1>13, <1>14, <1>15

LEMMA SubmitType == ASSUME TypeOK, Submit PROVE TypeOK'
<1> DEFINE d == Last(open)
           n == Len(req) + 1
<1>1. /\ d \in DOMAIN form /\ DOMAIN req' = DOMAIN req \union {n}
      /\ req' \in Seq(ReqRow) /\ Len(req') = Len(req) + 1
      /\ \A q \in DOMAIN req : req'[q] = req[q]
      /\ form' \in Seq(FormRow) /\ Len(form') = Len(form) /\ DOMAIN form' = DOMAIN form
  BY SubmitIs
<1>0. req'[n].dialog = d
  BY SubmitIs
<1>2. UNCHANGED <<stack, open, hiding, loads, pool, issued, saves, raced, hurt, turned, mixed>>
  BY DEF Submit, client
<1>3. Len(req') <= NRequests
  <2>1. Len(req) \in Nat /\ Len(req) < NRequests /\ NRequests \in Nat
    BY Rows, FormsAssumption DEF Submit
  <2> QED BY <1>1, <2>1
<1> HIDE DEF d, n
<1>4. \A r \in DOMAIN req' : req'[r].dialog \in DOMAIN form'
  BY <1>0, <1>1, Rows
<1>5. turned' \subseteq DOMAIN req'
  BY <1>1, <1>2 DEF TypeOK
<1> QED BY <1>1, <1>2, <1>3, <1>4, <1>5 DEF TypeOK

LEMMA DisableButtonIs ==
    ASSUME TypeOK, NEW d \in DOMAIN form, DisableButton(d)
    PROVE  /\ form' \in Seq(FormRow) /\ Len(form') = Len(form) /\ DOMAIN form' = DOMAIN form
           /\ \A e \in DOMAIN form : form'[e].token = form[e].token /\ form'[e].field = form[e].field
<1> DEFINE new == [form[d] EXCEPT !.button = "loading"]
<1>1. form[d] \in FormRow
  BY Rows
<1>2. new \in FormRow /\ new.token = form[d].token /\ new.field = form[d].field
  BY <1>1 DEF FormRow
<1>3. form' = [form EXCEPT ![d] = new]
  BY DEF DisableButton
<1> HIDE DEF new
<1> QED BY <1>2, <1>3, ChangeForm

\* An answer changes rows as Always says, and what it does to the screen.
LEMMA AnswerType ==
    ASSUME TypeOK, NEW r \in DOMAIN req, NEW token \in Nat, Always(r, token),
           open' \in Seq(DOMAIN form), hiding' \in Seq(DOMAIN form),
           Len(open') + Len(hiding') = Len(open) + Len(hiding),
           turned' \subseteq DOMAIN req, hurt' \subseteq DOMAIN form,
           UNCHANGED <<stack, loads, pool, issued, saves, raced, mixed>>
    PROVE  TypeOK'
<1>1. /\ req' \in Seq(ReqRow) /\ Len(req') = Len(req) /\ DOMAIN req' = DOMAIN req
      /\ req'[r] = [req[r] EXCEPT !.awaited = FALSE]
      /\ \A q \in DOMAIN req : q # r => req'[q] = req[q]
      /\ form' \in Seq(FormRow) /\ Len(form') = Len(form) /\ DOMAIN form' = DOMAIN form
  BY AlwaysIs
<1>2. \A q \in DOMAIN req : req'[q].dialog = req[q].dialog
  <2>1. req'[r].dialog = req[r].dialog
    BY <1>1, Rows DEF ReqRow
  <2> QED BY <2>1, <1>1
<1> QED BY <1>1, <1>2, TypeKept DEF TypeOK

LEMMA TokenOfType == ASSUME TypeOK, NEW r \in DOMAIN req PROVE TokenOf(r) \in Nat
BY Rows DEF TokenOf, FormRow

\* What Error does, with the token the form ends up with.
LEMMA ErrorIs ==
    ASSUME TypeOK, NEW r \in DOMAIN req, Error(r)
    PROVE  \E token \in Nat :
              /\ Always(r, token)
              /\ token = IF req[r].fresh = None THEN TokenOf(r) ELSE req[r].fresh
<1>1. req[r].fresh \in Nat \union {None} /\ TokenOf(r) \in Nat
  BY Rows, TokenOfType DEF ReqRow
<1> QED BY <1>1 DEF Error

LEMMA SuccessType == ASSUME TypeOK, NEW r \in DOMAIN req, Success(r) PROVE TypeOK'
<1>1. CASE stack = <<>> /\ req' = [req EXCEPT ![r].awaited = FALSE] /\ UNCHANGED <<form, open, hiding, turned>>
  <2> DEFINE row == [req[r] EXCEPT !.awaited = FALSE]
  <2>1. req[r] \in ReqRow
    BY Rows
  <2>2. row \in ReqRow /\ row.dialog = req[r].dialog
    BY <2>1 DEF ReqRow
  <2>3. req' = [req EXCEPT ![r] = row]
    BY <1>1
  <2> HIDE DEF row
  <2>4. /\ req' \in Seq(ReqRow) /\ Len(req') = Len(req) /\ DOMAIN req' = DOMAIN req
        /\ \A q \in DOMAIN req : req'[q].dialog = req[q].dialog
    BY <2>2, <2>3, ChangeReq
  <2>5. UNCHANGED <<stack, loads, pool, issued, saves, raced, hurt, mixed>>
    BY DEF Success
  <2> QED BY <1>1, <2>4, <2>5, TypeKept DEF TypeOK
<1>2. CASE stack # <<>> /\ Always(r, TokenOf(r)) /\ Closed(Last(stack))
  <2>1. Last(stack) \in DOMAIN form
    BY <1>2, LastIs DEF TypeOK
  <2>2. /\ open' \in Seq(DOMAIN form) /\ hiding' \in Seq(DOMAIN form)
        /\ Len(open') + Len(hiding') = Len(open) + Len(hiding) /\ turned' \subseteq DOMAIN req
    BY <1>2, <2>1, ClosedIs
  <2>3. UNCHANGED <<stack, loads, pool, issued, saves, raced, hurt, mixed>>
    BY DEF Success
  <2> QED BY <1>2, <2>2, <2>3, AnswerType, TokenOfType DEF TypeOK
<1> QED BY <1>1, <1>2 DEF Success

LEMMA ErrorType == ASSUME TypeOK, NEW r \in DOMAIN req, Error(r) PROVE TypeOK'
<1>1. PICK token \in Nat : Always(r, token)
  BY ErrorIs
<1>2. UNCHANGED <<pool, issued, saves, raced, hurt, stack, open, hiding, loads, turned, mixed>>
  BY DEF Error, client
<1> QED BY <1>1, <1>2, AnswerType DEF TypeOK

LEMMA FailedType == ASSUME TypeOK, NEW r \in DOMAIN req, Failed(r) PROVE TypeOK'
<1>1. /\ Always(r, TokenOf(r)) /\ hurt' = hurt \union {req[r].dialog}
      /\ UNCHANGED <<pool, issued, saves, raced, stack, open, hiding, loads, turned, mixed>>
  BY DEF Failed, client
<1>2. hurt' \subseteq DOMAIN form
  BY <1>1, Rows DEF TypeOK
<1> QED BY <1>1, <1>2, AnswerType, TokenOfType DEF TypeOK

\* A request goes on at the server: the rows stay as they are but for its own.
LEMMA ServerType ==
    ASSUME TypeOK, NEW r \in DOMAIN req, NEW at \in Steps,
           NEW fresh \in Nat \union {None},
           req' = [req EXCEPT ![r] = [req[r] EXCEPT !.at = at, !.fresh = fresh]],
           issued' \in Nat, pool' \subseteq 1..issued',
           saves' \in Seq(Nat), Len(saves') = Len(saves), raced' \subseteq DOMAIN form,
           UNCHANGED <<form, hurt, stack, open, hiding, loads, turned, mixed>>
    PROVE  TypeOK'
<1>1. /\ req' \in Seq(ReqRow) /\ Len(req') = Len(req) /\ DOMAIN req' = DOMAIN req
      /\ req'[r].dialog = req[r].dialog
      /\ \A q \in DOMAIN req : q # r => req'[q] = req[q]
  BY AtIs
<1>2. \A q \in DOMAIN req : req'[q].dialog = req[q].dialog
  BY <1>1
<1> QED BY <1>1, <1>2, TypeKept DEF TypeOK

\* The four steps of the server in the same form.
LEMMA CheckTokenIs ==
    ASSUME TypeOK, NEW r \in DOMAIN req, CheckToken(r)
    PROVE  \E at \in {"checked", "refused"} :
              /\ req' = [req EXCEPT ![r] = [req[r] EXCEPT !.at = at, !.fresh = req[r].fresh]]
              /\ at = "checked" => req[r].token \in pool
              /\ UNCHANGED <<form, pool, issued, saves, raced, hurt, stack, open, hiding, loads,
                             turned, mixed>>
<1> DEFINE at == IF req[r].token \in pool THEN "checked" ELSE "refused"
<1>1. req[r] \in ReqRow
  BY Rows
<1>2. [req[r] EXCEPT !.at = at] = [req[r] EXCEPT !.at = at, !.fresh = req[r].fresh]
  BY <1>1 DEF ReqRow
<1>3. req' = [req EXCEPT ![r] = [req[r] EXCEPT !.at = at]]
  BY DEF CheckToken
<1>4. at \in {"checked", "refused"} /\ (at = "checked" => req[r].token \in pool)
  OBVIOUS
<1>5. UNCHANGED <<form, pool, issued, saves, raced, hurt, stack, open, hiding, loads, turned, mixed>>
  BY DEF CheckToken, client
<1> QED BY <1>2, <1>3, <1>4, <1>5

LEMMA RemoveTokenIs ==
    ASSUME TypeOK, NEW r \in DOMAIN req, RemoveToken(r)
    PROVE  /\ req' = [req EXCEPT ![r] = [req[r] EXCEPT !.at = "accepted", !.fresh = req[r].fresh]]
           /\ pool' = pool \ {req[r].token}
           /\ raced' \subseteq DOMAIN form /\ raced \subseteq raced'
           /\ UNCHANGED <<form, issued, saves, hurt, stack, open, hiding, loads, turned, mixed>>
<1>1. req[r] \in ReqRow /\ req[r].dialog \in DOMAIN form
  BY Rows
<1>2. [req[r] EXCEPT !.at = "accepted"] = [req[r] EXCEPT !.at = "accepted", !.fresh = req[r].fresh]
  BY <1>1 DEF ReqRow
<1>3. req' = [req EXCEPT ![r] = [req[r] EXCEPT !.at = "accepted"]]
  BY DEF RemoveToken
<1>4. raced' \subseteq DOMAIN form /\ raced \subseteq raced'
  BY <1>1 DEF RemoveToken, TypeOK
<1>5. /\ UNCHANGED <<form, issued, saves, hurt, stack, open, hiding, loads, turned, mixed>>
      /\ pool' = pool \ {req[r].token}
  BY DEF RemoveToken, client
<1> QED BY <1>2, <1>3, <1>4, <1>5

LEMMA HandleIs ==
    ASSUME TypeOK, NEW r \in DOMAIN req, Handle(r)
    PROVE  /\ \E at \in {"saved", "invalid", "thrown"}, fresh \in Nat \union {None} :
              /\ req' = [req EXCEPT ![r] = [req[r] EXCEPT !.at = at, !.fresh = fresh]]
              /\ IF at = "invalid"
                 THEN /\ fresh = issued + 1 /\ issued' = issued + 1
                      /\ pool' = pool \union {issued + 1} /\ saves' = saves
                 ELSE fresh = req[r].fresh /\ UNCHANGED <<issued, pool>>
              /\ at = "saved" => saves' = [saves EXCEPT ![req[r].dialog] = @ + 1]
           /\ saves' = saves \/ saves' = [saves EXCEPT ![req[r].dialog] = @ + 1]
           /\ UNCHANGED <<form, raced, hurt, stack, open, hiding, loads, turned, mixed>>
<1>1. req[r] \in ReqRow /\ req[r].dialog \in DOMAIN form /\ issued \in Nat
  BY Rows DEF TypeOK
<1>2. req[r].fresh \in Nat \union {None}
  BY <1>1 DEF ReqRow
<1>3. \A at : [req[r] EXCEPT !.at = at] = [req[r] EXCEPT !.at = at, !.fresh = req[r].fresh]
  BY <1>1 DEF ReqRow
<1>4. UNCHANGED <<form, raced, hurt, stack, open, hiding, loads, turned, mixed>>
  BY DEF Handle, client
<1> DEFINE saved == saves' = [saves EXCEPT ![req[r].dialog] = @ + 1]
<1>5. CASE req' = [req EXCEPT ![r].at = "saved"] /\ saved /\ UNCHANGED <<pool, issued>>
  <2>1. req' = [req EXCEPT ![r] = [req[r] EXCEPT !.at = "saved", !.fresh = req[r].fresh]]
    BY <1>3, <1>5
  <2> HIDE DEF saved
  <2> QED BY <1>2, <1>4, <1>5, <2>1 DEF saved
<1>6. CASE /\ req' = [req EXCEPT ![r].at = "invalid", ![r].fresh = issued + 1]
           /\ issued' = issued + 1 /\ pool' = pool \union {issued + 1} /\ UNCHANGED saves
  <2>1. req' = [req EXCEPT ![r] = [req[r] EXCEPT !.at = "invalid", !.fresh = issued + 1]]
    BY <1>6
  <2>2. issued + 1 \in Nat
    BY <1>1
  <2> QED BY <1>4, <1>6, <2>1, <2>2
<1>7. CASE /\ req' = [req EXCEPT ![r].at = "thrown"] /\ (saved \/ UNCHANGED saves)
           /\ UNCHANGED <<pool, issued>>
  <2>1. req' = [req EXCEPT ![r] = [req[r] EXCEPT !.at = "thrown", !.fresh = req[r].fresh]]
    BY <1>3, <1>7
  <2> HIDE DEF saved
  <2> QED BY <1>2, <1>4, <1>7, <2>1 DEF saved
<1> QED BY <1>5, <1>6, <1>7 DEF Handle

LEMMA CheckTokenType == ASSUME TypeOK, NEW r \in DOMAIN req, CheckToken(r) PROVE TypeOK'
<1>1. req[r].fresh \in Nat \union {None}
  BY Rows DEF ReqRow
<1>2. PICK at \in {"checked", "refused"} :
         /\ req' = [req EXCEPT ![r] = [req[r] EXCEPT !.at = at, !.fresh = req[r].fresh]]
         /\ UNCHANGED <<form, pool, issued, saves, raced, hurt, stack, open, hiding, loads,
                        turned, mixed>>
  BY CheckTokenIs
<1>3. at \in Steps
  BY DEF Steps
<1>4. issued' \in Nat /\ pool' \subseteq 1..issued' /\ saves' \in Seq(Nat)
      /\ Len(saves') = Len(saves) /\ raced' \subseteq DOMAIN form
  BY <1>2 DEF TypeOK
<1> QED BY <1>1, <1>2, <1>3, <1>4, ServerType

LEMMA RemoveTokenType == ASSUME TypeOK, NEW r \in DOMAIN req, RemoveToken(r) PROVE TypeOK'
<1>1. req[r].fresh \in Nat \union {None} /\ pool \subseteq 1..issued
  BY Rows DEF ReqRow, TypeOK
<1>2. /\ req' = [req EXCEPT ![r] = [req[r] EXCEPT !.at = "accepted", !.fresh = req[r].fresh]]
      /\ pool' \subseteq pool
      /\ raced' \subseteq DOMAIN form
      /\ UNCHANGED <<form, issued, saves, hurt, stack, open, hiding, loads, turned, mixed>>
  BY RemoveTokenIs
<1>3. "accepted" \in Steps
  BY DEF Steps
<1>4. issued' \in Nat /\ pool' \subseteq 1..issued' /\ saves' \in Seq(Nat)
      /\ Len(saves') = Len(saves) /\ raced' \subseteq DOMAIN form
  BY <1>1, <1>2 DEF TypeOK
<1> QED BY <1>1, <1>2, <1>3, <1>4, ServerType

\* What was saved once more.
LEMMA SavedIs ==
    ASSUME TypeOK, NEW d \in DOMAIN form, saves' = [saves EXCEPT ![d] = @ + 1]
    PROVE  /\ saves' \in Seq(Nat) /\ Len(saves') = Len(saves) /\ saves'[d] = saves[d] + 1
           /\ \A e \in DOMAIN form : e # d => saves'[e] = saves[e]
<1>1. /\ saves \in Seq(Nat) /\ DOMAIN saves = DOMAIN form /\ saves[d] + 1 \in Nat
      /\ DOMAIN saves = 1..Len(saves)
  BY Rows, LenProperties, SMTT(30) DEF TypeOK
<1>2. saves' = [saves EXCEPT ![d] = saves[d] + 1]
  OBVIOUS
<1> QED BY <1>1, <1>2, ExceptSeq

LEMMA HandleType == ASSUME TypeOK, NEW r \in DOMAIN req, Handle(r) PROVE TypeOK'
<1>1. PICK at \in {"saved", "invalid", "thrown"}, fresh \in Nat \union {None} :
          /\ req' = [req EXCEPT ![r] = [req[r] EXCEPT !.at = at, !.fresh = fresh]]
          /\ IF at = "invalid" THEN issued' = issued + 1 /\ pool' = pool \union {issued + 1}
                               ELSE UNCHANGED <<issued, pool>>
  BY HandleIs
<1>2. saves' \in Seq(Nat) /\ Len(saves') = Len(saves)
  <2>1. saves' = saves \/ saves' = [saves EXCEPT ![req[r].dialog] = @ + 1]
    BY HandleIs
  <2> QED BY <2>1, SavedIs, Rows DEF TypeOK
<1>3. issued' \in Nat /\ pool' \subseteq 1..issued'
  <2>1. issued \in Nat /\ pool \subseteq 1..issued
    BY DEF TypeOK
  <2>2. CASE at = "invalid"
    BY <1>1, <2>1, <2>2
  <2>3. CASE at # "invalid"
    BY <1>1, <2>1, <2>3
  <2> QED BY <2>2, <2>3
<1>4. /\ UNCHANGED <<form, raced, hurt, stack, open, hiding, loads, turned, mixed>>
      /\ raced' \subseteq DOMAIN form
  BY HandleIs DEF TypeOK
<1>5. at \in Steps
  BY DEF Steps
<1> QED BY <1>1, <1>2, <1>3, <1>4, <1>5, ServerType

LEMMA DisableButtonType == ASSUME TypeOK, NEW d \in DOMAIN form, DisableButton(d) PROVE TypeOK'
<1>1. UNCHANGED <<req, pool, issued, saves, raced, hurt, stack, open, hiding, loads, turned, mixed>>
  BY DEF DisableButton, client
<1> QED BY <1>1, DisableButtonIs DEF TypeOK

LEMMA NextType == TypeOK /\ [Next]_vars => TypeOK'
<1> SUFFICES ASSUME TypeOK, [Next]_vars PROVE TypeOK'
  OBVIOUS
<1>1. CASE Create \/ Show \/ NotShown \/ Close \/ Hidden \/ Submit
  BY <1>1, CreateType, ShowType, NotShownType, CloseType, HiddenType, SubmitType
<1>2. ASSUME NEW d \in DOMAIN form, DisableButton(d) PROVE TypeOK'
  BY <1>2, DisableButtonType
<1>3. ASSUME NEW r \in DOMAIN req, CheckToken(r) \/ RemoveToken(r) \/ Handle(r) PROVE TypeOK'
  BY <1>3, CheckTokenType, RemoveTokenType, HandleType
<1>4. ASSUME NEW r \in DOMAIN req, Success(r) \/ Error(r) \/ Failed(r) PROVE TypeOK'
  BY <1>4, SuccessType, ErrorType, FailedType
<1>5. CASE UNCHANGED vars
  BY <1>5 DEF vars, TypeOK
<1> QED BY <1>1, <1>2, <1>3, <1>4, <1>5 DEF Next

\* Every table holds rows of its type, and the stack has as many dialogs as the
\* screen: pushed once each, popped once each (dialog.js:415-430).
THEOREM TypeCorrect == Spec => []TypeOK
<1> QED BY InitTypeOK, NextType, PTL DEF Spec

-----------------------------------------------------------------------------
(* Tokens *)

TInv == TokensApart /\ OneChance /\ FreshIsKept /\ Answered /\ StillUsable

\* A step that gives no token to a dialog but at most the one it makes.
LEMMA StayApart ==
    ASSUME TypeOK, TokensApart, NEW new, issued' \in Nat, issued <= issued',
           \A d \in DOMAIN form', i \in Nat : HasToken(d, i)' =>
               \/ d \in DOMAIN form /\ HasToken(d, i)
               \/ d = new /\ i = issued + 1 /\ issued' = issued + 1
    PROVE  TokensApart'
<1>0. issued \in Nat
  BY DEF TypeOK
<1>1. ASSUME NEW d \in DOMAIN form', NEW i \in Nat, HasToken(d, i)'
      PROVE  i <= issued'
  <2>1. CASE d \in DOMAIN form /\ HasToken(d, i)
    <3>1. i <= issued
      BY <2>1 DEF TokensApart
    <3> QED BY <3>1, <1>0
  <2>2. CASE i = issued + 1 /\ issued' = issued + 1
    BY <2>2, <1>0
  <2> QED BY <1>1, <2>1, <2>2
<1>2. ASSUME NEW d \in DOMAIN form', NEW e \in DOMAIN form', NEW i \in Nat,
             HasToken(d, i)', HasToken(e, i)'
      PROVE  d = e
  <2>1. /\ \/ d \in DOMAIN form /\ HasToken(d, i)
           \/ d = new /\ i = issued + 1
        /\ \/ e \in DOMAIN form /\ HasToken(e, i)
           \/ e = new /\ i = issued + 1
    BY <1>2
  <2>2. d \in DOMAIN form /\ HasToken(d, i) => i # issued + 1
    <3>1. d \in DOMAIN form /\ HasToken(d, i) => i <= issued
      BY DEF TokensApart
    <3> QED BY <3>1, <1>0
  <2>3. e \in DOMAIN form /\ HasToken(e, i) => i # issued + 1
    <3>1. e \in DOMAIN form /\ HasToken(e, i) => i <= issued
      BY DEF TokensApart
    <3> QED BY <3>1, <1>0
  <2>4. d \in DOMAIN form /\ HasToken(d, i) /\ e \in DOMAIN form /\ HasToken(e, i) => d = e
    BY DEF TokensApart
  <2> QED BY <2>1, <2>2, <2>3, <2>4
<1> QED
  <2>1. TokensApart' <=>
           /\ \A d \in DOMAIN form' : \A i \in Nat : HasToken(d, i)' => i <= issued'
           /\ \A d, e \in DOMAIN form' : \A i \in Nat : HasToken(d, i)' /\ HasToken(e, i)' => d = e
    BY DEF TokensApart
  <2> QED BY <1>1, <1>2, <2>1

\* A step that neither gives the dialog a token or a request accepted, nor saves it.
LEMMA ChanceKept ==
    ASSUME TypeOK, NEW d \in DOMAIN form, Chance(d),
           \A i \in pool' : i \in Nat /\ (HasToken(d, i)' => HasToken(d, i) /\ i \in pool),
           \A r \in DOMAIN req' : req'[r].dialog = d /\ req'[r].at = "accepted" =>
               r \in DOMAIN req /\ req[r].dialog = d /\ req[r].at = "accepted",
           \A r \in DOMAIN req' : req'[r].dialog = d /\ req'[r].at = "checked" =>
               req'[r].token \in pool',
           saves'[d] = saves[d]
    PROVE  Chance(d)'
<1>1. ASSUME NEW i \in pool', NEW j \in pool', HasToken(d, i)', HasToken(d, j)'
      PROVE  i = j
  BY <1>1 DEF Chance
<1>2. ASSUME NEW r \in DOMAIN req', NEW q \in DOMAIN req',
             req'[r].dialog = d, req'[r].at = "accepted",
             req'[q].dialog = d, req'[q].at = "accepted"
      PROVE  r = q
  BY <1>2 DEF Chance
<1>3. ASSUME NEW r \in DOMAIN req', req'[r].dialog = d, req'[r].at = "accepted"
      PROVE  saves'[d] = 0 /\ \A i \in pool' : ~HasToken(d, i)'
  BY <1>3 DEF Chance
<1>4. ASSUME NEW i \in pool', HasToken(d, i)' PROVE saves'[d] = 0
  BY <1>4 DEF Chance
<1>5. saves'[d] <= 1
  BY DEF Chance
<1> QED
  <2>1. Chance(d)' <=>
        /\ \A i, j \in pool' : HasToken(d, i)' /\ HasToken(d, j)' => i = j
        /\ \A r, q \in DOMAIN req' : /\ req'[r].dialog = d /\ req'[r].at = "accepted"
                                     /\ req'[q].dialog = d /\ req'[q].at = "accepted"
                                     => r = q
        /\ \A r \in DOMAIN req' : req'[r].dialog = d /\ req'[r].at = "accepted"
               => saves'[d] = 0 /\ \A i \in pool' : ~HasToken(d, i)'
        /\ \A i \in pool' : HasToken(d, i)' => saves'[d] = 0
        /\ \A r \in DOMAIN req' : req'[r].dialog = d /\ req'[r].at = "checked"
               => req'[r].token \in pool'
        /\ saves'[d] <= 1
    BY DEF Chance
  <2> QED BY <1>1, <1>2, <1>3, <1>4, <1>5, <2>1

\* The tokens of the pool are numbers.
LEMMA PoolType == ASSUME TypeOK PROVE pool \subseteq Nat /\ issued \in Nat
BY DEF TypeOK

\* The tokens a request carries are tokens of its dialog.
LEMMA CarriesToken ==
    ASSUME TypeOK, NEW r \in DOMAIN req
    PROVE  /\ req[r].token \in Nat /\ HasToken(req[r].dialog, req[r].token)
           /\ req[r].fresh # None => req[r].fresh \in Nat /\ HasToken(req[r].dialog, req[r].fresh)
BY Rows DEF ReqRow, HasToken

\* Steps of the page alone.
LEMMA PageTokens ==
    ASSUME TypeOK, TInv, UNCHANGED <<form, req, pool, issued, saves, raced, hurt>>
    PROVE  TInv'
<1>1. \A d, i : HasToken(d, i)' = HasToken(d, i)
  BY DEF HasToken
<1>2. \A d : Chance(d)' = Chance(d)
  BY <1>1 DEF Chance
<1>3. Awaited' = Awaited
  BY DEF Awaited
<1>4. TokensApart' /\ OneChance'
  BY <1>1, <1>2 DEF TInv, TokensApart, OneChance
<1>5. FreshIsKept' /\ Answered' /\ StillUsable'
  BY <1>3 DEF TInv, FreshIsKept, Answered, StillUsable
<1> QED BY <1>4, <1>5 DEF TInv

LEMMA ShowTokens == ASSUME TypeOK, TInv, Show PROVE TInv'
<1>0. PICK d : d = Len(form) + 1
  OBVIOUS
<1>1. /\ d \notin DOMAIN form /\ DOMAIN form' = DOMAIN form \union {d}
      /\ \A e \in DOMAIN form : form'[e] = form[e]
      /\ saves'[d] = 0
      /\ \A e \in DOMAIN form : saves'[e] = saves[e]
      /\ issued' = issued + 1 /\ pool' = pool \union {issued'}
      /\ issued \in Nat /\ issued' \in Nat
  BY <1>0, ShowIs
<1>2. form'[d].token = issued' /\ form'[d].field = None
  <2>1. form'[d] = [token |-> issued + 1, field |-> None, button |-> "ready"]
    BY <1>0, ShowIs
  <2> QED BY <1>1, <2>1
<1>3. UNCHANGED <<req, raced, hurt>> /\ Awaited' = Awaited
  BY DEF Show, Awaited
<1>4. pool \subseteq Nat /\ \A i \in pool : i <= issued
  BY DEF TypeOK
<1>5. \A r \in DOMAIN req : req[r].dialog \in DOMAIN form /\ req[r] \in ReqRow
  BY Rows
<1>6. ASSUME NEW e \in DOMAIN form, NEW i PROVE HasToken(e, i)' <=> HasToken(e, i)
  BY <1>1, <1>3 DEF HasToken
<1>7. ASSUME NEW i \in Nat, HasToken(d, i)' PROVE i = issued + 1
  <2>1. \/ form'[d].token = i \/ form'[d].field = i
        \/ \E r \in DOMAIN req : req[r].dialog = d
    BY <1>3, <1>7 DEF HasToken
  <2>2. \A r \in DOMAIN req : req[r].dialog # d
    BY <1>1, <1>5
  <2>3. None # i
    BY FormsAssumption
  <2> QED BY <2>1, <2>2, <2>3, <1>1, <1>2
<1>8. TokensApart'
  <2>1. ASSUME NEW e \in DOMAIN form', NEW i \in Nat, HasToken(e, i)'
        PROVE  \/ e \in DOMAIN form /\ HasToken(e, i)
               \/ e = d /\ i = issued + 1 /\ issued' = issued + 1
    <3>1. CASE e \in DOMAIN form
      BY <2>1, <3>1, <1>6
    <3>2. CASE e = d
      BY <2>1, <3>2, <1>1, <1>7
    <3> QED BY <1>1, <3>1, <3>2
  <2>2. issued <= issued'
    BY <1>1
  <2> QED BY <2>1, <2>2, <1>1, StayApart DEF TInv
<1>9. OneChance'
  <2>1. ASSUME NEW e \in DOMAIN form, e \notin raced PROVE Chance(e)'
    <3>1. Chance(e)
      BY <2>1 DEF TInv, OneChance
    <3>2. ASSUME NEW i \in pool'
          PROVE  i \in Nat /\ (HasToken(e, i)' => HasToken(e, i) /\ i \in pool)
      <4>1. CASE i \in pool
        BY <4>1, <1>4, <1>6
      <4>2. CASE i = issued + 1
        <5>1. ~HasToken(e, i)
          BY <4>2, <1>1 DEF TInv, TokensApart
        <5> QED BY <5>1, <4>2, <1>1, <1>6
      <4> QED BY <4>1, <4>2, <1>1
    <3>3. \A r \in DOMAIN req' : req'[r].dialog = e /\ req'[r].at = "checked" => req'[r].token \in pool'
      BY <3>1, <1>1, <1>3 DEF Chance
    <3>4. \A r \in DOMAIN req' : req'[r].dialog = e /\ req'[r].at = "accepted" =>
               r \in DOMAIN req /\ req[r].dialog = e /\ req[r].at = "accepted"
      BY <1>3
    <3> QED BY <3>1, <3>2, <3>3, <3>4, <1>1, ChanceKept
  <2>2. Chance(d)'
    <3>1. \A r \in DOMAIN req' : req'[r].dialog # d
      BY <1>1, <1>3, <1>5
    <3>2. \A i \in pool' : i \in Nat
      BY <1>1, <1>4
    <3>3. \A i, j \in pool' : HasToken(d, i)' /\ HasToken(d, j)' => i = j
      BY <3>2, <1>7
    <3>4. \A i \in pool' : HasToken(d, i)' => saves'[d] = 0
      BY <1>1
    <3>5. saves'[d] <= 1
      BY <1>1
    <3>6. /\ \A r, q \in DOMAIN req' : /\ req'[r].dialog = d /\ req'[r].at = "accepted"
                                       /\ req'[q].dialog = d /\ req'[q].at = "accepted"
                                       => r = q
          /\ \A r \in DOMAIN req' : req'[r].dialog = d /\ req'[r].at = "accepted"
                 => saves'[d] = 0 /\ \A i \in pool' : ~HasToken(d, i)'
          /\ \A r \in DOMAIN req' : req'[r].dialog = d /\ req'[r].at = "checked"
                 => req'[r].token \in pool'
      BY <3>1
    <3> QED BY <3>3, <3>4, <3>5, <3>6 DEF Chance
  <2>3. OneChance' <=> \A e \in DOMAIN form' \ raced' : Chance(e)'
    BY DEF OneChance
  <2> QED BY <2>1, <2>2, <2>3, <1>1, <1>3
<1>10. FreshIsKept'
  <2>1. ASSUME NEW r \in Awaited, req[r].fresh # None
        PROVE  /\ req[r].fresh \in pool'
               /\ \A e \in DOMAIN form' : form'[e].token # req[r].fresh /\ form'[e].field # req[r].fresh
    <3>1. req[r].fresh \in pool /\ \A e \in DOMAIN form : form[e].token # req[r].fresh /\ form[e].field # req[r].fresh
      BY <2>1 DEF TInv, FreshIsKept
    <3>2. req[r].fresh # issued'
      BY <3>1, <1>1, <1>4
    <3> QED BY <3>1, <3>2, <2>1, <1>1, <1>2
  <2>2. ASSUME NEW r \in Awaited, req[r].fresh # None
        PROVE  /\ \A q \in DOMAIN req : req[q].token # req[r].fresh
               /\ \A q \in DOMAIN req \ {r} : req[q].fresh # req[r].fresh
    BY <2>2 DEF TInv, FreshIsKept
  <2> QED BY <2>1, <2>2, <1>3 DEF FreshIsKept
<1>11. Answered'
  <2>1. \A r \in DOMAIN req : saves'[req[r].dialog] = saves[req[r].dialog]
    BY <1>1, <1>5
  <2> QED BY <2>1, <1>3 DEF TInv, Answered
<1>12. StillUsable'
  <2>1. ASSUME NEW e \in DOMAIN form \ hurt, saves'[e] = 0
        PROVE  /\ form'[e].field # None => \E r \in Awaited : req[r].dialog = e /\ req[r].dynamic
               /\ \/ form'[e].token \in pool'
                  \/ \E r \in Awaited : req[r].dialog = e /\ req[r].at \in {"accepted", "invalid", "thrown"}
    BY <2>1, <1>1 DEF TInv, StillUsable
  <2>2. form'[d].field = None /\ form'[d].token \in pool'
    BY <1>1, <1>2
  <2> QED BY <2>1, <2>2, <1>1, <1>3 DEF StillUsable
<1> QED BY <1>8, <1>9, <1>10, <1>11, <1>12 DEF TInv

\* A request is added, with a token the form has.
LEMMA SubmitTokens == ASSUME TypeOK, TInv, Submit PROVE TInv'
<1>0. PICK d, n : d = Last(open) /\ n = Len(req) + 1
  OBVIOUS
<1>1. /\ d \in DOMAIN form /\ n \notin DOMAIN req /\ DOMAIN req' = DOMAIN req \union {n}
      /\ \A q \in DOMAIN req : req'[q] = req[q]
      /\ DOMAIN form' = DOMAIN form
      /\ \A e \in DOMAIN form : e # d => form'[e] = form[e]
  BY <1>0, SubmitIs
<1>2. /\ req'[n].dialog = d /\ req'[n].token = Sends(form[d])
      /\ (req'[n].dynamic <=> form[d].field = None)
      /\ req'[n].at = "sent" /\ req'[n].fresh = None /\ req'[n].awaited
  BY <1>0, SubmitIs
<1>3. form'[d].token = form[d].token /\ form'[d].field = Sends(form[d])
  BY <1>0, SubmitIs
<1>4. UNCHANGED <<pool, issued, saves, raced, hurt>>
  BY DEF Submit
<1>5. Awaited' = Awaited \union {n}
  BY <1>1, <1>2 DEF Awaited
<1>6. Sends(form[d]) \in Nat /\ HasToken(d, Sends(form[d])) /\ issued \in Nat /\ pool \subseteq Nat
  BY <1>1, SendsToken, PoolType
<1>7. ASSUME NEW e \in DOMAIN form, NEW i \in Nat, HasToken(e, i)' PROVE HasToken(e, i)
  <2>1. CASE form'[e].token = i
    BY <2>1, <1>1, <1>3 DEF HasToken
  <2>2. CASE form'[e].field = i
    BY <2>2, <1>1, <1>3, <1>6 DEF HasToken
  <2>3. CASE \E q \in DOMAIN req' : req'[q].dialog = e /\ (req'[q].token = i \/ req'[q].fresh = i)
    <3>1. PICK q \in DOMAIN req' : req'[q].dialog = e /\ (req'[q].token = i \/ req'[q].fresh = i)
      BY <2>3
    <3>2. CASE q = n
      <4>1. None # i
        BY FormsAssumption
      <4> QED BY <3>1, <3>2, <4>1, <1>2, <1>6
    <3>3. CASE q \in DOMAIN req
      BY <3>1, <3>3, <1>1 DEF HasToken
    <3> QED BY <3>2, <3>3, <1>1
  <2> QED BY <1>7, <2>1, <2>2, <2>3 DEF HasToken
<1>8. TokensApart'
  <2>1. \A e \in DOMAIN form', i \in Nat : HasToken(e, i)' => e \in DOMAIN form /\ HasToken(e, i)
    BY <1>1, <1>7
  <2>2. issued' \in Nat /\ issued <= issued'
    BY <1>4, <1>6
  <2> QED BY <2>1, <2>2, StayApart DEF TInv
<1>9. OneChance'
  <2>1. ASSUME NEW e \in DOMAIN form, e \notin raced PROVE Chance(e)'
    <3>1. Chance(e)
      BY <2>1 DEF TInv, OneChance
    <3>2. \A i \in pool' : i \in Nat /\ (HasToken(e, i)' => HasToken(e, i) /\ i \in pool)
      BY <1>4, <1>6, <1>7
    <3>3. \A q \in DOMAIN req' : req'[q].dialog = e /\ req'[q].at = "checked" => req'[q].token \in pool'
      BY <3>1, <1>1, <1>2, <1>4 DEF Chance
    <3>4. \A q \in DOMAIN req' : req'[q].dialog = e /\ req'[q].at = "accepted" =>
               q \in DOMAIN req /\ req[q].dialog = e /\ req[q].at = "accepted"
      BY <1>1, <1>2
    <3> QED BY <3>1, <3>2, <3>3, <3>4, <1>4, ChanceKept
  <2>2. OneChance' <=> \A e \in DOMAIN form' \ raced' : Chance(e)'
    BY DEF OneChance
  <2> QED BY <2>1, <2>2, <1>1, <1>4
<1>10. FreshIsKept'
  <2>1. ASSUME NEW r \in Awaited', req'[r].fresh # None
        PROVE  /\ req'[r].fresh \in pool'
               /\ \A e \in DOMAIN form' : form'[e].token # req'[r].fresh /\ form'[e].field # req'[r].fresh
               /\ \A q \in DOMAIN req' : req'[q].token # req'[r].fresh
               /\ \A q \in DOMAIN req' \ {r} : req'[q].fresh # req'[r].fresh
    <3>1. r \in Awaited /\ r \in DOMAIN req /\ req'[r] = req[r]
      BY <2>1, <1>1, <1>2, <1>5 DEF Awaited
    <3>2. /\ req[r].fresh \in pool
          /\ \A e \in DOMAIN form : form[e].token # req[r].fresh /\ form[e].field # req[r].fresh
          /\ \A q \in DOMAIN req : req[q].token # req[r].fresh
          /\ \A q \in DOMAIN req \ {r} : req[q].fresh # req[r].fresh
      BY <2>1, <3>1 DEF TInv, FreshIsKept
    <3>3. Sends(form[d]) # req[r].fresh
      BY <3>2, <1>1 DEF Sends
    <3>4. \A e \in DOMAIN form' : form'[e].token # req[r].fresh /\ form'[e].field # req[r].fresh
      BY <3>2, <3>3, <1>1, <1>3
    <3>5. \A q \in DOMAIN req' : req'[q].token # req[r].fresh
      BY <3>2, <3>3, <1>1, <1>2
    <3>6. \A q \in DOMAIN req' \ {r} : req'[q].fresh # req[r].fresh
      BY <3>1, <3>2, <2>1, <1>1, <1>2
    <3> QED BY <3>1, <3>2, <3>4, <3>5, <3>6, <1>4
  <2> QED BY <2>1 DEF FreshIsKept
<1>11. Answered'
  BY <1>1, <1>2, <1>4 DEF TInv, Answered
<1>12. StillUsable'
  <2>1. ASSUME NEW e \in DOMAIN form \ hurt, saves[e] = 0, form'[e].field # None
        PROVE  \E r \in Awaited' : req'[r].dialog = e /\ req'[r].dynamic
    <3>1. form[e].field # None => \E r \in Awaited : req[r].dialog = e /\ req[r].dynamic
      BY <2>1 DEF TInv, StillUsable
    <3>2. CASE form[e].field # None
      BY <3>1, <3>2, <1>1, <1>5 DEF Awaited
    <3>3. CASE form[e].field = None
      BY <3>3, <2>1, <1>1, <1>2, <1>5
    <3> QED BY <3>2, <3>3
  <2>2. ASSUME NEW e \in DOMAIN form \ hurt, saves[e] = 0
        PROVE  \/ form'[e].token \in pool
               \/ \E r \in Awaited' : req'[r].dialog = e /\ req'[r].at \in {"accepted", "invalid", "thrown"}
    <3>1. \/ form[e].token \in pool
          \/ \E r \in Awaited : req[r].dialog = e /\ req[r].at \in {"accepted", "invalid", "thrown"}
      BY <2>2 DEF TInv, StillUsable
    <3>2. form'[e].token = form[e].token
      BY <1>1, <1>3
    <3> QED BY <3>1, <3>2, <1>1, <1>5 DEF Awaited
  <2> QED BY <2>1, <2>2, <1>1, <1>4 DEF StillUsable
<1> QED BY <1>8, <1>9, <1>10, <1>11, <1>12 DEF TInv

\* The button is no token.
LEMMA DisableButtonTokens ==
    ASSUME TypeOK, TInv, NEW d \in DOMAIN form, DisableButton(d) PROVE TInv'
<1>1. /\ DOMAIN form' = DOMAIN form
      /\ \A e \in DOMAIN form : form'[e].token = form[e].token /\ form'[e].field = form[e].field
  BY DisableButtonIs
<1>2. UNCHANGED <<req, pool, issued, saves, raced, hurt>>
  BY DEF DisableButton
<1>3. \A e \in DOMAIN form, i \in Nat : HasToken(e, i)' <=> HasToken(e, i)
  BY <1>1, <1>2 DEF HasToken
<1>4. Awaited' = Awaited /\ issued \in Nat /\ pool \subseteq Nat
  BY <1>2, PoolType DEF Awaited
<1>5. TokensApart'
  BY <1>1, <1>2, <1>3, <1>4, StayApart DEF TInv
<1>6. OneChance'
  <2>1. ASSUME NEW e \in DOMAIN form \ raced PROVE Chance(e)'
    <3>1. Chance(e)
      BY DEF TInv, OneChance
    <3>2. \A i \in pool' : i \in Nat /\ (HasToken(e, i)' => HasToken(e, i) /\ i \in pool)
      BY <1>2, <1>3, <1>4
    <3>3. \A q \in DOMAIN req' : req'[q].dialog = e /\ req'[q].at = "checked" => req'[q].token \in pool'
      BY <3>1, <1>2 DEF Chance
    <3> QED BY <3>1, <3>2, <3>3, <1>2, ChanceKept
  <2>2. OneChance' <=> \A e \in DOMAIN form' \ raced' : Chance(e)'
    BY DEF OneChance
  <2> QED BY <2>1, <2>2, <1>1, <1>2
<1>7. FreshIsKept' /\ Answered' /\ StillUsable'
  BY <1>1, <1>2, <1>4 DEF TInv, FreshIsKept, Answered, StillUsable
<1> QED BY <1>5, <1>6, <1>7 DEF TInv

\* An answer leaves the dialog with a token it had or that came with the answer.
LEMMA AnswerTokens ==
    ASSUME TypeOK, TInv, NEW r \in Awaited, NEW token \in Nat, Always(r, token),
           \/ token = req[r].fresh
           \/ token = TokenOf(r) /\ req[r].at \notin {"accepted", "invalid", "thrown"}
           \/ token = TokenOf(r) /\ req[r].dialog \in hurt',
           req[r].at \in {"saved", "invalid", "refused"} \/ req[r].dialog \in hurt',
           hurt \subseteq hurt', UNCHANGED <<pool, issued, saves, raced>>
    PROVE  TInv'
<1>0. r \in DOMAIN req /\ issued \in Nat /\ pool \subseteq Nat
  BY PoolType DEF Awaited
<1> PICK d : d = req[r].dialog
  OBVIOUS
<1>1. /\ d \in DOMAIN form /\ DOMAIN req' = DOMAIN req
      /\ req'[r] = [req[r] EXCEPT !.awaited = FALSE]
      /\ \A q \in DOMAIN req : q # r => req'[q] = req[q]
      /\ DOMAIN form' = DOMAIN form
      /\ form'[d] = [token |-> token,
                     field |-> IF req[r].dynamic THEN None ELSE form[d].field,
                     button |-> "ready"]
      /\ \A e \in DOMAIN form : e # d => form'[e] = form[e]
  BY <1>0, AlwaysIs
<1>2. /\ req'[r].dialog = d /\ req'[r].token = req[r].token /\ req'[r].fresh = req[r].fresh
      /\ req'[r].at = req[r].at /\ ~req'[r].awaited /\ (req'[r].dynamic <=> req[r].dynamic)
  <2>1. req[r] \in ReqRow
    BY <1>0, Rows
  <2> QED BY <2>1, <1>1 DEF ReqRow
<1>3. form'[d].token = token /\ form'[d].field = IF req[r].dynamic THEN None ELSE form[d].field
  BY <1>1
<1>4. Awaited' = Awaited \ {r}
  BY <1>0, <1>1, <1>2 DEF Awaited
<1>5. \A q \in DOMAIN req : /\ req'[q].dialog = req[q].dialog /\ req'[q].token = req[q].token
                            /\ req'[q].fresh = req[q].fresh /\ req'[q].at = req[q].at
  BY <1>1, <1>2
<1>6. token = form[d].token \/ token = req[r].fresh
  BY DEF TokenOf
<1>7. ASSUME NEW e \in DOMAIN form, NEW i \in Nat, HasToken(e, i)' PROVE HasToken(e, i)
  <2>1. CASE form'[e].token = i
    <3>1. CASE e = d
      BY <2>1, <3>1, <1>0, <1>3, <1>6 DEF HasToken
    <3> QED BY <2>1, <3>1, <1>1 DEF HasToken
  <2>2. CASE form'[e].field = i
    <3>1. None # i
      BY FormsAssumption
    <3> QED BY <2>2, <3>1, <1>1, <1>3 DEF HasToken
  <2>3. CASE \E q \in DOMAIN req' : req'[q].dialog = e /\ (req'[q].token = i \/ req'[q].fresh = i)
    BY <2>3, <1>1, <1>5 DEF HasToken
  <2> QED BY <1>7, <2>1, <2>2, <2>3 DEF HasToken
<1>8. TokensApart'
  <2>1. \A e \in DOMAIN form', i \in Nat : HasToken(e, i)' => e \in DOMAIN form /\ HasToken(e, i)
    BY <1>1, <1>7
  <2>2. issued' \in Nat /\ issued <= issued'
    BY <1>0
  <2> QED BY <2>1, <2>2, StayApart DEF TInv
<1>9. OneChance'
  <2>1. ASSUME NEW e \in DOMAIN form, e \notin raced PROVE Chance(e)'
    <3>1. Chance(e)
      BY <2>1 DEF TInv, OneChance
    <3>2. \A i \in pool' : i \in Nat /\ (HasToken(e, i)' => HasToken(e, i) /\ i \in pool)
      BY <1>0, <1>7
    <3>3. \A q \in DOMAIN req' : req'[q].dialog = e /\ req'[q].at = "checked" => req'[q].token \in pool'
      BY <3>1, <1>1, <1>5 DEF Chance
    <3>4. \A q \in DOMAIN req' : req'[q].dialog = e /\ req'[q].at = "accepted" =>
               q \in DOMAIN req /\ req[q].dialog = e /\ req[q].at = "accepted"
      BY <1>1, <1>5
    <3> QED BY <3>1, <3>2, <3>3, <3>4, ChanceKept
  <2>2. OneChance' <=> \A e \in DOMAIN form' \ raced' : Chance(e)'
    BY DEF OneChance
  <2> QED BY <2>1, <2>2, <1>1
<1>10. FreshIsKept'
  <2>1. ASSUME NEW q \in Awaited \ {r}, req[q].fresh # None
        PROVE  /\ req[q].fresh \in pool
               /\ \A e \in DOMAIN form : form'[e].token # req[q].fresh /\ form'[e].field # req[q].fresh
               /\ \A p \in DOMAIN req : req[p].token # req[q].fresh
               /\ \A p \in DOMAIN req \ {q} : req[p].fresh # req[q].fresh
    <3>1. /\ req[q].fresh \in pool
          /\ \A e \in DOMAIN form : form[e].token # req[q].fresh /\ form[e].field # req[q].fresh
          /\ \A p \in DOMAIN req : req[p].token # req[q].fresh
          /\ \A p \in DOMAIN req \ {q} : req[p].fresh # req[q].fresh
      BY <2>1 DEF TInv, FreshIsKept
    <3>2. token # req[q].fresh
      BY <3>1, <1>0, <1>1, <1>6
    <3>3. form'[d].field # req[q].fresh
      BY <3>1, <2>1, <1>1, <1>3
    <3> QED BY <3>1, <3>2, <3>3, <1>1, <1>3
  <2>2. \A q \in Awaited' : q \in Awaited \ {r} /\ q \in DOMAIN req
    BY <1>4 DEF Awaited
  <2> QED BY <2>1, <2>2, <1>1, <1>5 DEF FreshIsKept
<1>11. Answered'
  <2>1. ASSUME NEW q \in DOMAIN req
        PROVE  /\ req'[q].at = "saved" => saves'[req'[q].dialog] > 0
               /\ (req'[q].at = "invalid" <=> req'[q].fresh # None)
    BY <1>5 DEF TInv, Answered
  <2>2. ASSUME NEW q \in DOMAIN req, ~req'[q].awaited, req'[q].dialog \notin hurt'
        PROVE  req'[q].at \in {"saved", "invalid", "refused"}
    BY <2>2, <1>1, <1>5 DEF TInv, Answered
  <2> QED BY <2>1, <2>2, <1>1 DEF Answered
<1>12. StillUsable'
  <2>1. ASSUME NEW e \in DOMAIN form \ hurt', saves[e] = 0, form'[e].field # None
        PROVE  \E q \in Awaited' : req'[q].dialog = e /\ req'[q].dynamic
    <3>1. form[e].field # None /\ (e = d => ~req[r].dynamic)
      BY <2>1, <1>1, <1>3
    <3>2. PICK q \in Awaited : req[q].dialog = e /\ req[q].dynamic
      BY <2>1, <3>1 DEF TInv, StillUsable
    <3>3. q # r
      BY <3>1, <3>2
    <3> QED BY <3>2, <3>3, <1>1, <1>4 DEF Awaited
  <2>2. ASSUME NEW e \in DOMAIN form \ hurt', saves[e] = 0
        PROVE  \/ form'[e].token \in pool
               \/ \E q \in Awaited' : req'[q].dialog = e /\ req'[q].at \in {"accepted", "invalid", "thrown"}
    <3>1. \/ form[e].token \in pool
          \/ \E q \in Awaited : req[q].dialog = e /\ req[q].at \in {"accepted", "invalid", "thrown"}
      BY <2>2 DEF TInv, StillUsable
    <3>2. CASE e # d
      BY <3>1, <3>2, <1>1, <1>4, <1>5 DEF Awaited
    <3>3. CASE e = d /\ token = req[r].fresh
      <4>1. req[r].fresh # None
        BY <3>3, FormsAssumption
      <4>2. token \in pool
        BY <3>3, <4>1 DEF TInv, FreshIsKept
      <4> QED BY <3>3, <4>2, <1>3
    <3>4. CASE e = d /\ token = form[d].token /\ req[r].at \notin {"accepted", "invalid", "thrown"}
      BY <3>1, <3>4, <1>1, <1>3, <1>4 DEF Awaited
    <3> QED BY <2>2, <3>2, <3>3, <3>4 DEF TokenOf
  <2> QED BY <2>1, <2>2, <1>1 DEF StillUsable
<1> QED BY <1>8, <1>9, <1>10, <1>11, <1>12 DEF TInv

LEMMA ErrorTokens == ASSUME TypeOK, TInv, NEW r \in DOMAIN req, Error(r) PROVE TInv'
<1>1. PICK token \in Nat : /\ Always(r, token)
                           /\ token = IF req[r].fresh = None THEN TokenOf(r) ELSE req[r].fresh
  BY ErrorIs
<1>2. /\ r \in Awaited /\ req[r].at \in {"invalid", "refused"}
      /\ UNCHANGED <<pool, issued, saves, raced, hurt>>
  BY DEF Error
<1>3. req[r].at = "invalid" <=> req[r].fresh # None
  BY DEF TInv, Answered
<1>4. token = req[r].fresh \/ (token = TokenOf(r) /\ req[r].at \notin {"accepted", "invalid", "thrown"})
  BY <1>1, <1>2, <1>3
<1> QED BY <1>1, <1>2, <1>4, AnswerTokens

LEMMA FailedTokens == ASSUME TypeOK, TInv, NEW r \in DOMAIN req, Failed(r) PROVE TInv'
<1>1. /\ r \in Awaited /\ Always(r, TokenOf(r)) /\ hurt' = hurt \union {req[r].dialog}
      /\ UNCHANGED <<pool, issued, saves, raced>>
  BY DEF Failed
<1>2. PICK token \in Nat : token = TokenOf(r)
  BY TokenOfType
<1> QED BY <1>1, <1>2, AnswerTokens

LEMMA SuccessTokens == ASSUME TypeOK, TInv, NEW r \in DOMAIN req, Success(r) PROVE TInv'
<1>1. r \in Awaited /\ req[r].at = "saved" /\ UNCHANGED <<pool, issued, saves, raced, hurt>>
  BY DEF Success
<1>2. CASE req' = [req EXCEPT ![r].awaited = FALSE] /\ UNCHANGED form
  <2> DEFINE row == [req[r] EXCEPT !.awaited = FALSE]
  <2>1. req[r] \in ReqRow
    BY Rows
  <2>2. /\ row \in ReqRow /\ row.dialog = req[r].dialog /\ row.token = req[r].token
        /\ row.fresh = req[r].fresh /\ row.at = req[r].at /\ ~row.awaited
    BY <2>1 DEF ReqRow
  <2>3. req' = [req EXCEPT ![r] = row]
    BY <1>2
  <2> HIDE DEF row
  <2>4. /\ DOMAIN req' = DOMAIN req /\ req'[r] = row
        /\ \A q \in DOMAIN req : q # r => req'[q] = req[q]
    BY <2>2, <2>3, ChangeReq
  <2>5. \A q \in DOMAIN req : /\ req'[q].dialog = req[q].dialog /\ req'[q].token = req[q].token
                              /\ req'[q].fresh = req[q].fresh /\ req'[q].at = req[q].at
    BY <2>2, <2>4
  <2>6. Awaited' = Awaited \ {r}
    BY <2>2, <2>4 DEF Awaited
  <2>7. \A e, i : HasToken(e, i)' <=> HasToken(e, i)
    BY <1>2, <2>4, <2>5 DEF HasToken
  <2>8. \A e : Chance(e)' <=> Chance(e)
    BY <1>1, <2>4, <2>5, <2>7 DEF Chance
  <2>9. TokensApart' /\ OneChance'
    BY <1>1, <1>2, <2>7, <2>8 DEF TInv, TokensApart, OneChance
  <2>10. FreshIsKept'
    BY <1>1, <1>2, <2>4, <2>5, <2>6 DEF TInv, FreshIsKept, Awaited
  <2>11. Answered'
    BY <1>1, <2>2, <2>4 DEF TInv, Answered
  <2>12. StillUsable'
    <3>1. saves[req[r].dialog] # 0
      <4>1. saves[req[r].dialog] > 0
        BY <1>1 DEF TInv, Answered
      <4> QED BY <4>1, Rows
    <3> QED BY <1>1, <1>2, <3>1, <2>4, <2>6 DEF TInv, StillUsable, Awaited
  <2> QED BY <2>9, <2>10, <2>11, <2>12 DEF TInv
<1>3. CASE Always(r, TokenOf(r))
  <2>1. PICK token \in Nat : token = TokenOf(r)
    BY TokenOfType
  <2> QED BY <1>1, <1>3, <2>1, AnswerTokens
<1> QED BY <1>2, <1>3 DEF Success

\* A request goes on at the server, maybe with a new token.
Moves(r, at, fresh) ==
    /\ at \in Steps /\ fresh \in Nat \union {None}
    /\ req' = [req EXCEPT ![r] = [req[r] EXCEPT !.at = at, !.fresh = fresh]]
    /\ form' = form /\ hurt' = hurt
    /\ \/ fresh = req[r].fresh /\ issued' = issued
       \/ fresh = issued + 1 /\ issued' = issued + 1

\* What such a step leaves as it was.
LEMMA ServerTokens ==
    ASSUME TypeOK, TInv, NEW r \in DOMAIN req, NEW at, NEW fresh, Moves(r, at, fresh)
    PROVE  /\ Awaited' = Awaited
           /\ TokensApart'
           /\ \A e \in DOMAIN form, i \in Nat : HasToken(e, i)' =>
                  HasToken(e, i) \/ (e = req[r].dialog /\ i = fresh /\ fresh = issued + 1)
           /\ DOMAIN req' = DOMAIN req
           /\ \A q \in DOMAIN req :
                  /\ req'[q].dialog = req[q].dialog /\ req'[q].token = req[q].token
                  /\ req'[q].awaited = req[q].awaited /\ req'[q].dynamic = req[q].dynamic
                  /\ q # r => req'[q].at = req[q].at /\ req'[q].fresh = req[q].fresh
           /\ req'[r].at = at /\ req'[r].fresh = fresh
<1>0. /\ at \in Steps /\ fresh \in Nat \union {None}
      /\ req' = [req EXCEPT ![r] = [req[r] EXCEPT !.at = at, !.fresh = fresh]]
      /\ form' = form /\ hurt' = hurt
      /\ \/ fresh = req[r].fresh /\ issued' = issued
         \/ fresh = issued + 1 /\ issued' = issued + 1
  BY DEF Moves
<1>1. /\ DOMAIN req' = DOMAIN req
      /\ req'[r].dialog = req[r].dialog /\ req'[r].token = req[r].token
      /\ req'[r].awaited = req[r].awaited /\ req'[r].dynamic = req[r].dynamic
      /\ req'[r].at = at /\ req'[r].fresh = fresh
      /\ \A q \in DOMAIN req : q # r => req'[q] = req[q]
  <2>1. DOMAIN req' = DOMAIN req /\ \A q \in DOMAIN req : q # r => req'[q] = req[q]
    BY <1>0, AtIs
  <2>2. req'[r].dialog = req[r].dialog /\ req'[r].token = req[r].token
    BY <1>0, AtIs
  <2>4. req'[r].at = at /\ req'[r].fresh = fresh
    <3>1. req[r] \in ReqRow
      BY Rows
    <3>2. req'[r] = [req[r] EXCEPT !.at = at, !.fresh = fresh]
      BY <1>0, AtIs
    <3> QED BY <3>1, <3>2 DEF ReqRow
  <2>3. req'[r].awaited = req[r].awaited /\ req'[r].dynamic = req[r].dynamic
    BY <1>0, AtIs
  <2> QED BY <2>1, <2>2, <2>3, <2>4
<1>2. Awaited' = Awaited
  BY <1>1 DEF Awaited
<1>3. issued \in Nat /\ req[r].dialog \in DOMAIN form
  BY PoolType, Rows
<1>4. ASSUME NEW e \in DOMAIN form, NEW i \in Nat, HasToken(e, i)'
      PROVE  HasToken(e, i) \/ (e = req[r].dialog /\ i = fresh /\ fresh = issued + 1)
  <2>1. CASE form[e].token = i \/ form[e].field = i
    BY <2>1 DEF HasToken
  <2>2. CASE \E q \in DOMAIN req' : req'[q].dialog = e /\ (req'[q].token = i \/ req'[q].fresh = i)
    <3>1. PICK q \in DOMAIN req : req'[q].dialog = e /\ (req'[q].token = i \/ req'[q].fresh = i)
      BY <2>2, <1>1
    <3>2. CASE q # r
      BY <3>1, <3>2, <1>1 DEF HasToken
    <3>3. CASE q = r /\ req[r].token = i
      BY <3>1, <3>3, <1>1 DEF HasToken
    <3>4. CASE q = r /\ fresh = i /\ fresh = req[r].fresh
      BY <3>1, <3>4, <1>1 DEF HasToken
    <3>5. CASE q = r /\ fresh = i /\ fresh = issued + 1
      BY <3>1, <3>5, <1>1
    <3> QED BY <3>1, <3>2, <3>3, <3>4, <3>5, <1>0, <1>1
  <2> QED BY <1>0, <1>4, <2>1, <2>2 DEF HasToken
<1>5. TokensApart'
  <2>1. issued' \in Nat /\ issued <= issued' /\ form' = form
    BY <1>0, <1>3
  <2>2. CASE fresh = req[r].fresh /\ issued' = issued
    <3>1. ASSUME NEW e \in DOMAIN form, NEW i \in Nat, HasToken(e, i)' PROVE HasToken(e, i)
      <4>1. CASE e = req[r].dialog /\ i = fresh /\ fresh = req[r].fresh
        BY <4>1 DEF HasToken
      <4> QED BY <1>4, <2>2, <3>1, <4>1
    <3>2. \A e \in DOMAIN form', i \in Nat : HasToken(e, i)' => e \in DOMAIN form /\ HasToken(e, i)
      BY <2>1, <3>1
    <3> QED BY <2>1, <3>2, StayApart DEF TInv
  <2>3. CASE fresh = issued + 1 /\ issued' = issued + 1
    <3>1. PICK new : new = req[r].dialog
      OBVIOUS
    <3>2. \A e \in DOMAIN form', i \in Nat : HasToken(e, i)' =>
              \/ e \in DOMAIN form /\ HasToken(e, i)
              \/ e = new /\ i = issued + 1 /\ issued' = issued + 1
      BY <1>4, <2>1, <2>3, <3>1
    <3> QED BY <2>1, <3>2, StayApart DEF TInv
  <2> QED BY <1>0, <2>2, <2>3
<1> QED BY <1>1, <1>2, <1>4, <1>5

\* The tokens of an unraced dialog do not change when a request looks for its own.
LEMMA CheckTokenTokens ==
    ASSUME TypeOK, TInv, NEW r \in DOMAIN req, CheckToken(r) PROVE TInv'
<1>1. PICK at \in {"checked", "refused"} :
         /\ req' = [req EXCEPT ![r] = [req[r] EXCEPT !.at = at, !.fresh = req[r].fresh]]
         /\ at = "checked" => req[r].token \in pool
         /\ UNCHANGED <<form, pool, issued, saves, raced, hurt>>
  BY CheckTokenIs
<1>2. req[r].at = "sent" /\ at \in Steps /\ req[r].fresh \in Nat \union {None}
  BY Rows DEF CheckToken, ReqRow, Steps
<1>3. PICK fresh \in Nat \union {None} : fresh = req[r].fresh
  BY <1>2
<1>4. req' = [req EXCEPT ![r] = [req[r] EXCEPT !.at = at, !.fresh = fresh]]
  BY <1>1, <1>3
<1>5. /\ Awaited' = Awaited /\ TokensApart' /\ DOMAIN req' = DOMAIN req
      /\ \A q \in DOMAIN req :
             /\ req'[q].dialog = req[q].dialog /\ req'[q].token = req[q].token
             /\ req'[q].awaited = req[q].awaited /\ req'[q].dynamic = req[q].dynamic
             /\ q # r => req'[q].at = req[q].at /\ req'[q].fresh = req[q].fresh
      /\ req'[r].at = at /\ req'[r].fresh = fresh
      /\ \A e \in DOMAIN form, i \in Nat : HasToken(e, i)' =>
             HasToken(e, i) \/ (e = req[r].dialog /\ i = fresh /\ fresh = issued + 1)
  <2>1. Moves(r, at, fresh)
    BY <1>1, <1>2, <1>3, <1>4 DEF Moves
  <2> QED BY <2>1, ServerTokens
<1>6. pool \subseteq Nat /\ issued \in Nat /\ \A i \in pool : i <= issued
  BY DEF TypeOK
<1>7. ASSUME NEW e \in DOMAIN form, NEW i \in pool, HasToken(e, i)' PROVE HasToken(e, i)
  BY <1>5, <1>6, <1>7
<1>8. OneChance'
  <2>1. ASSUME NEW e \in DOMAIN form \ raced PROVE Chance(e)'
    <3>1. Chance(e)
      BY DEF TInv, OneChance
    <3>2. \A i \in pool' : i \in Nat /\ (HasToken(e, i)' => HasToken(e, i) /\ i \in pool)
      BY <1>1, <1>6, <1>7
    <3>3. \A q \in DOMAIN req' : req'[q].dialog = e /\ req'[q].at = "checked" => req'[q].token \in pool'
      BY <3>1, <1>1, <1>5 DEF Chance
    <3>4. \A q \in DOMAIN req' : req'[q].dialog = e /\ req'[q].at = "accepted" =>
               q \in DOMAIN req /\ req[q].dialog = e /\ req[q].at = "accepted"
      BY <1>1, <1>5
    <3> QED BY <3>1, <3>2, <3>3, <3>4, <1>1, ChanceKept
  <2>2. OneChance' <=> \A e \in DOMAIN form' \ raced' : Chance(e)'
    BY DEF OneChance
  <2> QED BY <2>1, <2>2, <1>1
<1>9. FreshIsKept'
  <2>1. \A q \in DOMAIN req : req'[q].fresh = req[q].fresh /\ req'[q].token = req[q].token
    BY <1>3, <1>5
  <2>2. \A q \in Awaited : q \in DOMAIN req
    BY DEF Awaited
  <2> QED BY <2>1, <2>2, <1>1, <1>5 DEF TInv, FreshIsKept
<1>10. Answered'
  <2>1. req[r].fresh = None
    BY <1>2 DEF TInv, Answered
  <2>2. ASSUME NEW q \in DOMAIN req
        PROVE  /\ req'[q].at = "saved" => saves'[req'[q].dialog] > 0
               /\ (req'[q].at = "invalid" <=> req'[q].fresh # None)
    BY <2>1, <1>1, <1>3, <1>5 DEF TInv, Answered
  <2>3. ASSUME NEW q \in DOMAIN req, ~req'[q].awaited, req'[q].dialog \notin hurt'
        PROVE  req'[q].at \in {"saved", "invalid", "refused"}
    BY <2>3, <1>1, <1>2, <1>5 DEF TInv, Answered
  <2> QED BY <2>2, <2>3, <1>5 DEF Answered
<1>11. StillUsable'
  <2>1. ASSUME NEW e \in DOMAIN form \ hurt, saves[e] = 0, form[e].field # None
        PROVE  \E q \in Awaited' : req'[q].dialog = e /\ req'[q].dynamic
    BY <2>1, <1>5 DEF TInv, StillUsable, Awaited
  <2>2. ASSUME NEW e \in DOMAIN form \ hurt, saves[e] = 0
        PROVE  \/ form[e].token \in pool
               \/ \E q \in Awaited' : req'[q].dialog = e /\ req'[q].at \in {"accepted", "invalid", "thrown"}
    BY <2>2, <1>2, <1>5 DEF TInv, StillUsable, Awaited
  <2> QED BY <2>1, <2>2, <1>1 DEF StillUsable
<1> QED BY <1>5, <1>8, <1>9, <1>10, <1>11 DEF TInv

\* The token of a request that found it is taken out: of an unraced dialog it was
\* the only one in the pool, and no other request had found it.
LEMMA RemoveTokenTokens ==
    ASSUME TypeOK, TInv, NEW r \in DOMAIN req, RemoveToken(r) PROVE TInv'
<1>1. /\ req' = [req EXCEPT ![r] = [req[r] EXCEPT !.at = "accepted", !.fresh = req[r].fresh]]
      /\ pool' = pool \ {req[r].token} /\ raced \subseteq raced'
      /\ UNCHANGED <<form, issued, saves, hurt>>
  BY RemoveTokenIs
<1>2. req[r].at = "checked" /\ "accepted" \in Steps /\ req[r].fresh \in Nat \union {None}
  BY Rows DEF RemoveToken, ReqRow, Steps
<1> PICK d : d = req[r].dialog
  OBVIOUS
<1>3. PICK fresh \in Nat \union {None}, at \in Steps :
          fresh = req[r].fresh /\ at = "accepted"
  BY <1>2
<1>4. req' = [req EXCEPT ![r] = [req[r] EXCEPT !.at = at, !.fresh = fresh]]
  BY <1>1, <1>3
<1>5. /\ Awaited' = Awaited /\ TokensApart' /\ DOMAIN req' = DOMAIN req
      /\ \A q \in DOMAIN req :
             /\ req'[q].dialog = req[q].dialog /\ req'[q].token = req[q].token
             /\ req'[q].awaited = req[q].awaited /\ req'[q].dynamic = req[q].dynamic
             /\ q # r => req'[q].at = req[q].at /\ req'[q].fresh = req[q].fresh
      /\ req'[r].at = at /\ req'[r].fresh = fresh
      /\ \A e \in DOMAIN form, i \in Nat : HasToken(e, i)' =>
             HasToken(e, i) \/ (e = req[r].dialog /\ i = fresh /\ fresh = issued + 1)
  <2>1. Moves(r, at, fresh)
    BY <1>1, <1>2, <1>3, <1>4 DEF Moves
  <2> QED BY <2>1, ServerTokens
<1>6. pool \subseteq Nat /\ issued \in Nat /\ \A i \in pool : i <= issued
  BY DEF TypeOK
<1>7. ASSUME NEW e \in DOMAIN form, NEW i \in pool, HasToken(e, i)' PROVE HasToken(e, i)
  BY <1>5, <1>6, <1>7
<1>8. d \in DOMAIN form /\ req[r].token \in Nat /\ HasToken(d, req[r].token)
  BY <1>3, Rows, CarriesToken
<1>9. OneChance'
  <2>1. ASSUME NEW e \in DOMAIN form \ raced, e # d PROVE Chance(e)'
    <3>1. Chance(e)
      BY DEF TInv, OneChance
    <3>2. \A i \in pool' : i \in Nat /\ (HasToken(e, i)' => HasToken(e, i) /\ i \in pool)
      BY <1>1, <1>6, <1>7
    <3>3. ASSUME NEW q \in DOMAIN req', req'[q].dialog = e, req'[q].at = "checked"
          PROVE  req'[q].token \in pool'
      <4>1. q \in DOMAIN req /\ req[q].dialog = e /\ req[q].at = "checked"
        BY <3>3, <1>3, <1>5
      <4>2. req[q].token \in pool /\ req[q].token \in Nat /\ HasToken(e, req[q].token)
        BY <3>1, <4>1, CarriesToken DEF Chance
      <4>3. req[q].token # req[r].token
        BY <2>1, <4>2, <1>8 DEF TInv, TokensApart
      <4> QED BY <4>1, <4>2, <4>3, <1>1, <1>5
    <3>4. \A q \in DOMAIN req' : req'[q].dialog = e /\ req'[q].at = "accepted" =>
               q \in DOMAIN req /\ req[q].dialog = e /\ req[q].at = "accepted"
      BY <2>1, <1>3, <1>5
    <3> QED BY <3>1, <3>2, <3>3, <3>4, <1>1, ChanceKept
  <2>2. ASSUME d \notin raced' PROVE Chance(d)'
    <3>1. Chance(d) /\ \A q \in DOMAIN req \ {r} : ~(req[q].at = "checked" /\ req[q].token = req[r].token)
      <4>1. raced' = IF \E q \in DOMAIN req \ {r} : /\ req[q].at = "checked"
                                                    /\ req[q].token = req[r].token
                     THEN raced \union {d} ELSE raced
        BY <1>3 DEF RemoveToken
      <4> QED BY <2>2, <4>1, <1>8 DEF TInv, OneChance
    <3>2. req[r].token \in pool
      BY <3>1, <1>2, <1>3 DEF Chance
    <3>3. saves[d] = 0 /\ \A i \in pool : HasToken(d, i) => i = req[r].token
      BY <3>1, <3>2, <1>8 DEF Chance
    <3>4. \A i \in pool' : ~HasToken(d, i)'
      BY <3>3, <1>1, <1>7, <1>8
    <3>5. ASSUME NEW q \in DOMAIN req', req'[q].dialog = d, req'[q].at = "accepted" PROVE q = r
      <4>1. q # r => req[q].dialog = d /\ req[q].at = "accepted" /\ q \in DOMAIN req
        BY <3>5, <1>5
      <4> QED BY <3>1, <3>2, <4>1, <1>8 DEF Chance
    <3>6. ASSUME NEW q \in DOMAIN req', req'[q].dialog = d, req'[q].at = "checked"
          PROVE  FALSE
      <4>1. q \in DOMAIN req \ {r} /\ req[q].dialog = d /\ req[q].at = "checked"
        BY <3>6, <1>3, <1>5
      <4>2. req[q].token \in pool /\ HasToken(d, req[q].token)
        BY <3>1, <4>1, CarriesToken DEF Chance
      <4> QED BY <3>1, <3>3, <4>1, <4>2
    <3> QED
      <4>1. saves'[d] <= 1 /\ saves'[d] = 0
        BY <3>3, <1>1
      <4> QED BY <3>4, <3>5, <3>6, <4>1 DEF Chance
  <2>3. OneChance' <=> \A e \in DOMAIN form' \ raced' : Chance(e)'
    BY DEF OneChance
  <2> QED BY <2>1, <2>2, <2>3, <1>1
<1>10. FreshIsKept'
  <2>1. \A q \in DOMAIN req : req'[q].fresh = req[q].fresh /\ req'[q].token = req[q].token
    BY <1>3, <1>5
  <2>2. \A q \in Awaited : q \in DOMAIN req
    BY DEF Awaited
  <2>3. \A q \in Awaited : req[q].fresh # None => req[q].fresh \in pool'
    BY <1>1 DEF TInv, FreshIsKept
  <2> QED BY <2>1, <2>2, <2>3, <1>1, <1>5 DEF TInv, FreshIsKept
<1>11. Answered'
  <2>1. req[r].fresh = None
    BY <1>2 DEF TInv, Answered
  <2>2. ASSUME NEW q \in DOMAIN req
        PROVE  /\ req'[q].at = "saved" => saves'[req'[q].dialog] > 0
               /\ (req'[q].at = "invalid" <=> req'[q].fresh # None)
    BY <2>1, <1>1, <1>3, <1>5 DEF TInv, Answered
  <2>3. ASSUME NEW q \in DOMAIN req, ~req'[q].awaited, req'[q].dialog \notin hurt'
        PROVE  req'[q].at \in {"saved", "invalid", "refused"}
    BY <2>3, <1>1, <1>2, <1>5 DEF TInv, Answered
  <2> QED BY <2>2, <2>3, <1>5 DEF Answered
<1>12. StillUsable'
  <2>1. ASSUME NEW e \in DOMAIN form \ hurt, saves[e] = 0, form[e].field # None
        PROVE  \E q \in Awaited' : req'[q].dialog = e /\ req'[q].dynamic
    BY <2>1, <1>5 DEF TInv, StillUsable, Awaited
  <2>2. ASSUME NEW e \in DOMAIN form \ hurt, saves[e] = 0
        PROVE  \/ form[e].token \in pool'
               \/ \E q \in Awaited' : req'[q].dialog = e /\ req'[q].at \in {"accepted", "invalid", "thrown"}
    <3>1. CASE form[e].token = req[r].token
      <4>1. HasToken(e, req[r].token)
        BY <3>1 DEF HasToken
      <4>2. e = d
        BY <4>1, <1>8 DEF TInv, TokensApart
      <4>3. req[r].awaited
        BY <4>2, <2>2, <1>2, <1>3 DEF TInv, Answered
      <4> QED BY <4>2, <4>3, <1>3, <1>5 DEF Awaited
    <3>2. CASE form[e].token # req[r].token
      <4>1. \/ form[e].token \in pool
            \/ \E q \in Awaited : req[q].dialog = e /\ req[q].at \in {"accepted", "invalid", "thrown"}
        BY <2>2 DEF TInv, StillUsable
      <4> QED BY <3>2, <4>1, <1>1, <1>2, <1>5 DEF Awaited
    <3> QED BY <3>1, <3>2
  <2> QED BY <2>1, <2>2, <1>1 DEF StillUsable
<1> QED BY <1>5, <1>9, <1>10, <1>11, <1>12 DEF TInv

\* The handler saves at most once what was accepted, or gives the dialog a token
\* that nobody has.
LEMMA HandleTokens == ASSUME TypeOK, TInv, NEW r \in DOMAIN req, Handle(r) PROVE TInv'
<1>1. PICK at \in {"saved", "invalid", "thrown"}, fresh \in Nat \union {None} :
          /\ req' = [req EXCEPT ![r] = [req[r] EXCEPT !.at = at, !.fresh = fresh]]
          /\ IF at = "invalid"
             THEN /\ fresh = issued + 1 /\ issued' = issued + 1
                  /\ pool' = pool \union {issued + 1} /\ saves' = saves
             ELSE fresh = req[r].fresh /\ UNCHANGED <<issued, pool>>
          /\ at = "saved" => saves' = [saves EXCEPT ![req[r].dialog] = @ + 1]
  BY HandleIs
<1>2. PICK d : d = req[r].dialog
  OBVIOUS
<1>3. req[r].at = "accepted" /\ at \in Steps /\ d \in DOMAIN form
  BY <1>2, Rows DEF Handle, Steps
<1>4. UNCHANGED <<form, raced, hurt>>
  BY HandleIs
<1>5. Moves(r, at, fresh)
  BY <1>1, <1>3, <1>4 DEF Moves
<1>6. /\ Awaited' = Awaited /\ TokensApart' /\ DOMAIN req' = DOMAIN req
      /\ \A q \in DOMAIN req :
             /\ req'[q].dialog = req[q].dialog /\ req'[q].token = req[q].token
             /\ req'[q].awaited = req[q].awaited /\ req'[q].dynamic = req[q].dynamic
             /\ q # r => req'[q].at = req[q].at /\ req'[q].fresh = req[q].fresh
      /\ req'[r].at = at /\ req'[r].fresh = fresh
      /\ \A e \in DOMAIN form, i \in Nat : HasToken(e, i)' =>
             HasToken(e, i) \/ (e = req[r].dialog /\ i = fresh /\ fresh = issued + 1)
  BY <1>5, ServerTokens
<1>7. issued \in Nat /\ pool \subseteq Nat /\ (\A i \in pool : i <= issued) /\ pool \subseteq pool'
  BY <1>1 DEF TypeOK
<1>8. \A i \in pool' : i \in Nat /\ (i \in pool \/ (i = issued + 1 /\ at = "invalid"))
  BY <1>1, <1>7
<1>9. /\ \A e \in DOMAIN form : saves[e] \in Nat /\ (e # d => saves'[e] = saves[e])
      /\ saves'[d] = saves[d] \/ saves'[d] = saves[d] + 1
      /\ at = "saved" => saves'[d] = saves[d] + 1
  <2>1. \A e \in DOMAIN form : saves[e] \in Nat
    BY Rows
  <2>2. CASE saves' = saves /\ at # "saved"
    BY <2>1, <2>2
  <2>3. CASE saves' = [saves EXCEPT ![d] = @ + 1]
    <3>1. saves'[d] = saves[d] + 1 /\ \A e \in DOMAIN form : e # d => saves'[e] = saves[e]
      BY <2>3, <1>3, SavedIs
    <3> QED BY <2>1, <3>1
  <2>4. saves' = saves \/ saves' = [saves EXCEPT ![d] = @ + 1]
    BY <1>2, HandleIs
  <2> QED BY <2>2, <2>3, <2>4, <1>1, <1>2
<1>10. ASSUME NEW e \in DOMAIN form, NEW i \in pool, HasToken(e, i)' PROVE HasToken(e, i)
  BY <1>6, <1>7, <1>10
<1>11. \A e \in DOMAIN form : ~HasToken(e, issued + 1)
  BY <1>7 DEF TInv, TokensApart
<1>12. req[r].fresh = None
  BY <1>3 DEF TInv, Answered
<1>13. OneChance'
  <2>1. ASSUME NEW e \in DOMAIN form \ raced, e # d PROVE Chance(e)'
    <3>1. Chance(e)
      BY DEF TInv, OneChance
    <3>2. ASSUME NEW i \in pool'
          PROVE  i \in Nat /\ (HasToken(e, i)' => HasToken(e, i) /\ i \in pool)
      <4>1. HasToken(e, i)' => HasToken(e, i)
        BY <2>1, <1>2, <1>6, <1>8
      <4> QED BY <4>1, <1>8, <1>11
    <3>3. \A q \in DOMAIN req' : req'[q].dialog = e /\ req'[q].at = "checked" => req'[q].token \in pool'
      BY <3>1, <2>1, <1>2, <1>6, <1>7 DEF Chance
    <3>4. \A q \in DOMAIN req' : req'[q].dialog = e /\ req'[q].at = "accepted" =>
               q \in DOMAIN req /\ req[q].dialog = e /\ req[q].at = "accepted"
      BY <1>1, <1>6
    <3> QED BY <2>1, <3>1, <3>2, <3>3, <3>4, <1>9, ChanceKept
  <2>2. ASSUME d \notin raced PROVE Chance(d)'
    <3>1. Chance(d)
      BY <2>2, <1>3 DEF TInv, OneChance
    <3>2. saves[d] = 0 /\ \A i \in pool : ~HasToken(d, i)
      BY <3>1, <1>2, <1>3 DEF Chance
    <3>3. \A i \in pool' : HasToken(d, i)' => i = issued + 1 /\ at = "invalid"
      BY <3>2, <1>3, <1>8, <1>10
    <3>4. ASSUME NEW q \in DOMAIN req', req'[q].dialog = d, req'[q].at = "accepted" PROVE FALSE
      <4>1. q \in DOMAIN req /\ q # r
        BY <3>4, <1>1, <1>6
      <4>2. req[q].dialog = d /\ req[q].at = "accepted"
        BY <3>4, <4>1, <1>6
      <4> QED BY <3>1, <4>1, <4>2, <1>2, <1>3 DEF Chance
    <3>5. ASSUME NEW q \in DOMAIN req', req'[q].dialog = d, req'[q].at = "checked"
          PROVE  req'[q].token \in pool'
      <4>1. q \in DOMAIN req /\ q # r
        BY <3>5, <1>1, <1>6
      <4>2. req[q].dialog = d /\ req[q].at = "checked"
        BY <3>5, <4>1, <1>6
      <4> QED BY <3>1, <4>1, <4>2, <1>6, <1>7 DEF Chance
    <3>6. at = "invalid" => saves'[d] = 0
      BY <3>2, <1>1
    <3>7. saves'[d] <= 1
      BY <3>2, <1>9
    <3> QED BY <3>3, <3>4, <3>5, <3>6, <3>7 DEF Chance
  <2>3. OneChance' <=> \A e \in DOMAIN form' \ raced' : Chance(e)'
    BY DEF OneChance
  <2> QED BY <2>1, <2>2, <2>3, <1>4
<1>14. FreshIsKept'
  <2>1. ASSUME NEW q \in Awaited, q # r, req[q].fresh # None
        PROVE  /\ req[q].fresh \in pool'
               /\ \A e \in DOMAIN form : form[e].token # req[q].fresh /\ form[e].field # req[q].fresh
               /\ \A p \in DOMAIN req : req[p].token # req[q].fresh
               /\ \A p \in DOMAIN req \ {q} : req'[p].fresh # req[q].fresh
    <3>1. /\ req[q].fresh \in pool
          /\ \A e \in DOMAIN form : form[e].token # req[q].fresh /\ form[e].field # req[q].fresh
          /\ \A p \in DOMAIN req : req[p].token # req[q].fresh
          /\ \A p \in DOMAIN req \ {q} : req[p].fresh # req[q].fresh
      BY <2>1 DEF TInv, FreshIsKept
    <3>2. req[q].fresh # issued + 1
      BY <3>1, <1>7
    <3>3. fresh # req[q].fresh
      BY <3>2, <2>1, <1>1, <1>12
    <3>4. \A p \in DOMAIN req \ {q} : req'[p].fresh # req[q].fresh
      BY <3>1, <3>3, <1>6
    <3> QED BY <3>1, <3>4, <1>7
  <2>2. ASSUME fresh # None
        PROVE  /\ fresh \in pool'
               /\ \A e \in DOMAIN form : form[e].token # fresh /\ form[e].field # fresh
               /\ \A p \in DOMAIN req : req[p].token # fresh
               /\ \A p \in DOMAIN req \ {r} : req'[p].fresh # fresh
    <3>1. fresh = issued + 1 /\ fresh \in pool' /\ fresh \in Nat
      BY <2>2, <1>1, <1>7, <1>12
    <3>2. \A e \in DOMAIN form : form[e].token # fresh /\ form[e].field # fresh
      BY <3>1, <1>11 DEF HasToken
    <3>3. ASSUME NEW p \in DOMAIN req PROVE req[p].token # fresh /\ req[p].fresh # fresh
      <4>1. ~HasToken(req[p].dialog, fresh)
        BY <3>1, <1>11, Rows
      <4> QED BY <4>1 DEF HasToken
    <3> QED BY <3>1, <3>2, <3>3, <1>6
  <2>3. ASSUME NEW q \in Awaited', req'[q].fresh # None
        PROVE  /\ req'[q].fresh \in pool'
               /\ \A e \in DOMAIN form' : form'[e].token # req'[q].fresh /\ form'[e].field # req'[q].fresh
               /\ \A p \in DOMAIN req' : req'[p].token # req'[q].fresh
               /\ \A p \in DOMAIN req' \ {q} : req'[p].fresh # req'[q].fresh
    <3>1. CASE q = r
      BY <2>2, <2>3, <3>1, <1>4, <1>6
    <3>2. CASE q # r
      <4>1. q \in Awaited /\ req'[q].fresh = req[q].fresh
        BY <2>3, <3>2, <1>6 DEF Awaited
      <4> QED BY <2>1, <2>3, <3>2, <4>1, <1>4, <1>6
    <3> QED BY <3>1, <3>2
  <2> QED BY <2>3 DEF FreshIsKept
<1>15. Answered'
  <2>1. ASSUME NEW q \in DOMAIN req, req'[q].at = "saved" PROVE saves'[req'[q].dialog] > 0
    <3>1. req[q].dialog \in DOMAIN form
      BY Rows
    <3>2. CASE q = r
      <4>1. saves'[d] = saves[d] + 1 /\ saves[d] \in Nat
        BY <2>1, <3>2, <1>3, <1>6, <1>9
      <4> QED BY <3>2, <4>1, <1>2, <1>6
    <3>3. CASE q # r
      <4>1. saves[req[q].dialog] > 0 /\ saves[req[q].dialog] \in Nat
        BY <2>1, <3>1, <3>3, <1>6, <1>9 DEF TInv, Answered
      <4>2. saves'[req[q].dialog] = saves[req[q].dialog] \/ saves'[req[q].dialog] = saves[req[q].dialog] + 1
        BY <3>1, <1>9
      <4>3. saves'[req[q].dialog] > 0
        BY <4>1, <4>2
      <4> QED BY <4>3, <1>6
    <3> QED BY <3>2, <3>3
  <2>2. ASSUME NEW q \in DOMAIN req PROVE (req'[q].at = "invalid" <=> req'[q].fresh # None)
    <3>1. CASE q = r
      <4>1. issued + 1 # None
        BY <1>7, FormsAssumption
      <4> QED BY <3>1, <4>1, <1>1, <1>6, <1>12
    <3> QED BY <3>1, <1>6 DEF TInv, Answered
  <2>3. ASSUME NEW q \in DOMAIN req, ~req'[q].awaited, req'[q].dialog \notin hurt'
        PROVE  req'[q].at \in {"saved", "invalid", "refused"}
    <3>1. ~req[q].awaited /\ req[q].dialog \notin hurt
      BY <2>3, <1>4, <1>6
    <3>2. req[q].at \in {"saved", "invalid", "refused"}
      BY <3>1 DEF TInv, Answered
    <3> QED BY <3>2, <1>3, <1>6
  <2> QED BY <2>1, <2>2, <2>3, <1>6 DEF Answered
<1>16. StillUsable'
  <2>1. \A e \in DOMAIN form : saves'[e] = 0 => saves[e] = 0
    BY <1>9
  <2>2. ASSUME NEW e \in DOMAIN form \ hurt, saves[e] = 0, form[e].field # None
        PROVE  \E q \in Awaited' : req'[q].dialog = e /\ req'[q].dynamic
    BY <2>2, <1>6 DEF TInv, StillUsable, Awaited
  <2>3. ASSUME NEW e \in DOMAIN form \ hurt, saves'[e] = 0
        PROVE  \/ form[e].token \in pool'
               \/ \E q \in Awaited' : req'[q].dialog = e /\ req'[q].at \in {"accepted", "invalid", "thrown"}
    <3>1. \/ form[e].token \in pool
          \/ \E q \in Awaited : req[q].dialog = e /\ req[q].at \in {"accepted", "invalid", "thrown"}
      BY <2>1, <2>3 DEF TInv, StillUsable
    <3>2. CASE form[e].token \in pool
      BY <3>2, <1>7
    <3>3. ASSUME NEW q \in Awaited, req[q].dialog = e, req[q].at \in {"accepted", "invalid", "thrown"}
          PROVE  req'[q].dialog = e /\ req'[q].at \in {"accepted", "invalid", "thrown"}
      <4>1. q \in DOMAIN req
        BY DEF Awaited
      <4>2. CASE q = r
        <5>1. at # "saved"
          <6>1. e = d
            BY <3>3, <4>2, <1>2
          <6>2. saves[d] \in Nat /\ (at = "saved" => saves'[d] = saves[d] + 1)
            BY <1>3, <1>9
          <6> QED BY <2>3, <6>1, <6>2
        <5> QED BY <3>3, <4>1, <4>2, <5>1, <1>1, <1>6
      <4> QED BY <3>3, <4>1, <4>2, <1>6
    <3> QED BY <3>1, <3>2, <3>3, <1>6
  <2> QED BY <2>1, <2>2, <2>3, <1>4 DEF StillUsable
<1> QED BY <1>6, <1>13, <1>14, <1>15, <1>16 DEF TInv

LEMMA NextTokens == TypeOK /\ TInv /\ [Next]_vars => TInv'
<1> SUFFICES ASSUME TypeOK, TInv, [Next]_vars PROVE TInv'
  OBVIOUS
<1>1. CASE Create \/ NotShown \/ Close \/ Hidden \/ UNCHANGED vars
  <2>1. UNCHANGED <<form, req, pool, issued, saves, raced, hurt>>
    BY <1>1 DEF Create, NotShown, Close, Hidden, vars
  <2> QED BY <2>1, PageTokens
<1>2. CASE Show \/ Submit
  BY <1>2, ShowTokens, SubmitTokens
<1>3. ASSUME NEW d \in DOMAIN form, DisableButton(d) PROVE TInv'
  BY <1>3, DisableButtonTokens
<1>4. ASSUME NEW r \in DOMAIN req, CheckToken(r) \/ RemoveToken(r) \/ Handle(r) PROVE TInv'
  BY <1>4, CheckTokenTokens, RemoveTokenTokens, HandleTokens
<1>5. ASSUME NEW r \in DOMAIN req, Success(r) \/ Error(r) \/ Failed(r) PROVE TInv'
  BY <1>5, SuccessTokens, ErrorTokens, FailedTokens
<1> QED BY <1>1, <1>2, <1>3, <1>4, <1>5 DEF Next

LEMMA InitTokens == Init => TInv
<1> SUFFICES ASSUME Init PROVE TInv
  OBVIOUS
<1>1. DOMAIN form = {} /\ DOMAIN req = {}
  BY DEF Init
<1> QED BY <1>1 DEF TInv, TokensApart, OneChance, FreshIsKept, Answered, StillUsable, Awaited

LEMMA TokensInv == Spec => [](TypeOK /\ TInv)
<1>1. Init => TypeOK /\ TInv
  BY InitTypeOK, InitTokens
<1>2. TypeOK /\ TInv /\ [Next]_vars => TypeOK' /\ TInv'
  BY NextType, NextTokens
<1> QED BY <1>1, <1>2, PTL DEF Spec

\* However often a form is sent, by double clicks, after lost answers or after a
\* handler that threw, it is saved once: TokenInterceptor takes its token out of
\* the pool before the handler runs, and every token belongs to one dialog.  The
\* exception is two requests that both find the token before one removes it.
THEOREM SavedOnceHolds == Spec => []SavedOnce
<1>1. TypeOK /\ TInv => SavedOnce
  BY Rows DEF TInv, OneChance, Chance, SavedOnce
<1> QED BY <1>1, TokensInv, PTL

\* A form that waits for no answer, was not saved and met no failure can be sent:
\* the token dialog.js would send, from the hidden field or from the form, is one
\* the interceptor will find, whatever answers came and in which order.
THEOREM UsableTokenHolds == Spec => []UsableToken
<1>1. ASSUME TypeOK, TInv, NEW i \in DOMAIN open,
             \A r \in Awaited : req[r].dialog # open[i], saves[open[i]] = 0, open[i] \notin hurt
      PROVE  Sends(form[open[i]]) \in pool
  <2>1. open[i] \in DOMAIN form
    <3>1. open \in Seq(DOMAIN form)
      BY <1>1 DEF TypeOK
    <3> QED BY <3>1, LenProperties, ElementOfSeq
  <2>2. form[open[i]].field = None /\ form[open[i]].token \in pool
    BY <1>1, <2>1 DEF TInv, StillUsable
  <2> QED BY <2>2 DEF Sends
<1>2. TypeOK /\ TInv => UsableToken
  BY <1>1 DEF UsableToken
<1> QED BY <1>2, TokensInv, PTL

-----------------------------------------------------------------------------
(* The screen *)

SInv == Distinct /\ InOrder /\ OnTop

\* Without its last element, and with it again.
LEMMA FrontLast ==
    ASSUME NEW S, NEW s \in Seq(S), s # <<>>
    PROVE  /\ RemoveAt(s, Len(s)) = Front(s)
           /\ s = Append(Front(s), Last(s))
<1>1. /\ Len(s) \in Nat /\ Len(s) > 0 /\ Len(s) \in 1..Len(s)
      /\ Last(s) = s[Len(s)] /\ Last(s) \in S
      /\ Front(s) \in Seq(S) /\ Len(Front(s)) = Len(s) - 1
      /\ \A k \in 1..Len(s) - 1 : Front(s)[k] = s[k]
  BY LastIs
<1>2. /\ RemoveAt(s, Len(s)) \in Seq(S) /\ Len(RemoveAt(s, Len(s))) = Len(s) - 1
      /\ \A k \in 1..Len(s) - 1 : RemoveAt(s, Len(s))[k] = IF k < Len(s) THEN s[k] ELSE s[k + 1]
  BY <1>1, RemoveAtIs
<1>3. RemoveAt(s, Len(s)) = Front(s)
  <2>1. \A k \in 1..Len(s) - 1 : RemoveAt(s, Len(s))[k] = Front(s)[k]
    BY <1>1, <1>2
  <2> QED BY <1>1, <1>2, <2>1, SeqEqual
<1>4. s = Append(Front(s), Last(s))
  <2> DEFINE t == Append(Front(s), Last(s))
  <2>1. /\ t \in Seq(S) /\ Len(t) = Len(Front(s)) + 1
        /\ \A k \in 1..Len(Front(s)) : t[k] = Front(s)[k]
        /\ t[Len(Front(s)) + 1] = Last(s)
    BY <1>1, AppendProperties
  <2> HIDE DEF t
  <2>2. Len(t) = Len(s) /\ \A k \in 1..Len(s) : t[k] = s[k]
    BY <1>1, <2>1
  <2>3. t = s
    BY <2>1, <2>2, SeqEqual
  <2> QED BY <2>3 DEF t
<1> QED BY <1>3, <1>4

LEMMA AppendLast ==
    ASSUME NEW S, NEW s \in Seq(S), NEW x \in S
    PROVE  /\ Append(s, x) # <<>> /\ Append(s, x) \in Seq(S) /\ Len(Append(s, x)) = Len(s) + 1
           /\ Last(Append(s, x)) = x /\ Front(Append(s, x)) = s
<1> DEFINE t == Append(s, x)
<1>1. Len(s) \in Nat
  BY LenProperties
<1>2. /\ t \in Seq(S) /\ Len(t) = Len(s) + 1 /\ t[Len(s) + 1] = x
      /\ \A k \in 1..Len(s) : t[k] = s[k]
  BY AppendProperties
<1> HIDE DEF t
<1>3. t # <<>>
  BY <1>1, <1>2, EmptySeq
<1>4. /\ Last(t) = t[Len(t)] /\ Front(t) \in Seq(S) /\ Len(Front(t)) = Len(t) - 1
      /\ \A k \in 1..Len(t) - 1 : Front(t)[k] = t[k]
  BY <1>2, <1>3, LastIs
<1>5. Last(t) = x
  BY <1>2, <1>4
<1>6. Front(t) = s
  <2>1. Len(Front(t)) = Len(s) /\ \A k \in 1..Len(s) : Front(t)[k] = s[k]
    BY <1>1, <1>2, <1>4
  <2> QED BY <2>1, <1>4, SeqEqual
<1> QED BY <1>2, <1>3, <1>5, <1>6 DEF t

\* A dialog that is closed is no longer among the open ones, and fades once.
LEMMA ClosedDistinct ==
    ASSUME TypeOK, Distinct, NEW d \in DOMAIN form, Closed(d)
    PROVE  Distinct'
<1>1. CASE UNCHANGED <<open, hiding>>
  BY <1>1 DEF Distinct
<1>2. ASSUME NEW i \in DOMAIN open, open[i] = d, open' = RemoveAt(open, i), hiding' = Append(hiding, d)
      PROVE  Distinct'
  <2>1. /\ open \in Seq(DOMAIN form) /\ hiding \in Seq(DOMAIN form)
        /\ Len(open) \in Nat /\ Len(hiding) \in Nat
        /\ DOMAIN open = 1..Len(open) /\ DOMAIN hiding = 1..Len(hiding)
    BY LenProperties DEF TypeOK
  <2>2. /\ open' \in Seq(DOMAIN form) /\ Len(open') = Len(open) - 1
        /\ \A k \in 1..Len(open) - 1 : open'[k] = IF k < i THEN open[k] ELSE open[k + 1]
    <3>1. i \in 1..Len(open)
      BY <2>1
    <3>2. /\ RemoveAt(open, i) \in Seq(DOMAIN form) /\ Len(RemoveAt(open, i)) = Len(open) - 1
          /\ \A k \in 1..Len(open) - 1 : RemoveAt(open, i)[k] = IF k < i THEN open[k] ELSE open[k + 1]
      BY <2>1, <3>1, RemoveAtIs
    <3> QED BY <1>2, <3>2
  <2>3. DOMAIN open' = 1..Len(open) - 1
    BY <2>2, LenProperties
  <2>4. /\ hiding' \in Seq(DOMAIN form) /\ Len(hiding') = Len(hiding) + 1
        /\ hiding'[Len(hiding) + 1] = d /\ \A k \in 1..Len(hiding) : hiding'[k] = hiding[k]
    BY <1>2, <2>1, AppendProperties
  <2>5. DOMAIN hiding' = 1..Len(hiding) + 1
    BY <2>4, LenProperties
  <2>6. ASSUME NEW j \in DOMAIN open'
        PROVE  /\ open'[j] = open[IF j < i THEN j ELSE j + 1]
               /\ (IF j < i THEN j ELSE j + 1) \in DOMAIN open \ {i}
    BY <2>1, <2>2, <2>3
  <2>7. ASSUME NEW j \in DOMAIN open', NEW k \in DOMAIN open', open'[j] = open'[k] PROVE j = k
    <3>1. (IF j < i THEN j ELSE j + 1) = (IF k < i THEN k ELSE k + 1)
      BY <2>6, <2>7 DEF Distinct
    <3> QED BY <3>1, <2>1, <2>3
  <2>8. ASSUME NEW j \in DOMAIN open' PROVE open'[j] # d
    BY <1>2, <2>6 DEF Distinct
  <2>9. ASSUME NEW j \in DOMAIN open', NEW k \in DOMAIN hiding' PROVE open'[j] # hiding'[k]
    <3>1. CASE k = Len(hiding) + 1
      BY <3>1, <2>4, <2>8
    <3>2. CASE k \in DOMAIN hiding
      BY <3>2, <2>1, <2>4, <2>6 DEF Distinct
    <3> QED BY <3>1, <3>2, <2>1, <2>5
  <2>10. ASSUME NEW j \in DOMAIN hiding', NEW k \in DOMAIN hiding', hiding'[j] = hiding'[k] PROVE j = k
    <3>1. \A m \in DOMAIN hiding : hiding'[m] = hiding[m] /\ hiding[m] # d
      BY <1>2, <2>1, <2>4 DEF Distinct
    <3>2. \A m \in DOMAIN hiding' : m \in DOMAIN hiding \/ m = Len(hiding) + 1
      BY <2>1, <2>5
    <3> QED BY <3>1, <3>2, <2>4, <2>10 DEF Distinct
  <2> QED BY <2>7, <2>9, <2>10 DEF Distinct
<1> QED BY <1>1, <1>2 DEF Closed

\* With the order kept, closing the top of the stack keeps it.
LEMMA ClosedInOrder ==
    ASSUME TypeOK, Distinct, InOrder, stack # <<>>, Closed(Last(stack)), stack' = stack, mixed' = mixed,
           DOMAIN form' = DOMAIN form
    PROVE  InOrder'
<1> SUFFICES ASSUME ~mixed
             PROVE  \/ hiding' = <<>> /\ stack = open'
                    \/ \E x \in DOMAIN form : hiding' = <<x>> /\ stack = Append(open', x)
  BY DEF InOrder
<1>1. /\ open \in Seq(DOMAIN form) /\ stack \in Seq(DOMAIN form)
      /\ \A i \in DOMAIN open : open[i] \in DOMAIN form
  BY ElementOfSeq, LenProperties DEF TypeOK
<1>2. CASE hiding = <<>> /\ stack = open
  <2>1. /\ Len(open) \in DOMAIN open /\ Last(open) = open[Len(open)] /\ Last(open) \in DOMAIN form
    BY <1>1, <1>2, LastIs
  <2>2. PICK i \in DOMAIN open : /\ open[i] = Last(open) /\ open' = RemoveAt(open, i)
                                 /\ hiding' = Append(hiding, Last(open))
    BY <1>2, <2>1 DEF Closed
  <2>3. i = Len(open)
    BY <2>1, <2>2 DEF Distinct
  <2>4. open' = Front(open) /\ open = Append(Front(open), Last(open))
    BY <1>1, <1>2, <2>2, <2>3, FrontLast
  <2>5. hiding' = <<Last(open)>>
    BY <1>2, <2>2
  <2> QED BY <1>2, <2>1, <2>4, <2>5
<1>3. ASSUME NEW x \in DOMAIN form, hiding = <<x>>, stack = Append(open, x)
      PROVE  UNCHANGED <<open, hiding>>
  <2>1. Last(stack) = x
    BY <1>1, <1>3, AppendLast
  <2>2. 1 \in DOMAIN hiding /\ hiding[1] = x
    BY <1>3
  <2>3. \A i \in DOMAIN open : open[i] # x
    BY <2>2 DEF Distinct
  <2> QED BY <2>1, <2>3 DEF Closed
<1> QED BY <1>2, <1>3 DEF InOrder

\* A step that leaves the screen alone and waits for no other answers.
LEMMA ScreenKept ==
    ASSUME SInv, UNCHANGED <<stack, open, hiding, turned, mixed>>, DOMAIN form' = DOMAIN form,
           \A r \in Awaited' : r \in Awaited /\ req'[r].dialog = req[r].dialog
    PROVE  SInv'
<1>1. Distinct'
  BY DEF SInv, Distinct
<1>2. InOrder'
  BY DEF SInv, InOrder
<1>3. OnTop'
  BY DEF SInv, OnTop
<1> QED BY <1>1, <1>2, <1>3 DEF SInv

LEMMA CreateScreen == ASSUME TypeOK, SInv, Create \/ NotShown \/ UNCHANGED vars PROVE SInv'
<1>1. UNCHANGED <<stack, open, hiding, turned, mixed, form, req>>
  BY DEF Create, NotShown, vars
<1>2. Awaited' = Awaited
  BY <1>1 DEF Awaited
<1> QED BY <1>1, <1>2, ScreenKept

LEMMA ShowScreen == ASSUME TypeOK, SInv, Show PROVE SInv'
<1>0. PICK d : d = Len(form) + 1
  OBVIOUS
<1>1. d \notin DOMAIN form /\ DOMAIN form' = DOMAIN form \union {d}
  BY <1>0, ShowIs
<1>2. /\ stack' = Append(stack, d) /\ open' = Append(open, d) /\ hiding' = hiding /\ req' = req
      /\ turned' = turned \union Awaited /\ mixed' = (mixed \/ hiding # <<>>)
  BY <1>0 DEF Show
<1>3. /\ open \in Seq(DOMAIN form) /\ hiding \in Seq(DOMAIN form)
      /\ Len(open) \in Nat /\ DOMAIN open = 1..Len(open) /\ DOMAIN hiding = 1..Len(hiding)
      /\ \A i \in DOMAIN open : open[i] \in DOMAIN form
      /\ \A i \in DOMAIN hiding : hiding[i] \in DOMAIN form
  <2>1. open \in Seq(DOMAIN form) /\ hiding \in Seq(DOMAIN form)
    BY DEF TypeOK
  <2> QED BY <2>1, LenProperties, ElementOfSeq
<1>4. /\ DOMAIN open' = 1..Len(open) + 1 /\ open'[Len(open) + 1] = d
      /\ \A k \in 1..Len(open) : open'[k] = open[k]
  <2>1. open \in Seq(DOMAIN form') /\ d \in DOMAIN form'
    BY <1>1, <1>3, SeqMonotonic
  <2>2. /\ open' \in Seq(DOMAIN form') /\ Len(open') = Len(open) + 1
        /\ open'[Len(open) + 1] = d /\ \A k \in 1..Len(open) : open'[k] = open[k]
    BY <1>2, <2>1, AppendProperties
  <2> QED BY <2>2, LenProperties
<1>5. Distinct'
  <2>1. \A i \in DOMAIN open' : i \in DOMAIN open \/ i = Len(open) + 1
    BY <1>3, <1>4
  <2>2. \A i \in DOMAIN open : open'[i] = open[i] /\ open'[i] # d
    BY <1>1, <1>3, <1>4
  <2>3. \A i, j \in DOMAIN open' : open'[i] = open'[j] => i = j
    BY <2>1, <2>2, <1>4 DEF SInv, Distinct
  <2>4. \A i \in DOMAIN open', j \in DOMAIN hiding' : open'[i] # hiding'[j]
    BY <2>1, <2>2, <1>1, <1>2, <1>3, <1>4 DEF SInv, Distinct
  <2>5. \A i, j \in DOMAIN hiding' : hiding'[i] = hiding'[j] => i = j
    BY <1>2 DEF SInv, Distinct
  <2> QED BY <2>3, <2>4, <2>5 DEF Distinct
<1>6. InOrder'
  <2>1. ~mixed' => hiding = <<>> /\ ~mixed
    BY <1>2
  <2>2. ~mixed /\ hiding = <<>> => stack = open
    BY DEF SInv, InOrder
  <2> QED BY <2>1, <2>2, <1>2 DEF InOrder
<1>7. OnTop'
  <2>1. Awaited' = Awaited
    BY <1>2 DEF Awaited
  <2> QED BY <2>1, <1>2 DEF OnTop
<1> QED BY <1>5, <1>6, <1>7 DEF SInv

\* A closing dialog turns away every answer that is awaited.
LEMMA ClosedOnTop ==
    ASSUME OnTop, NEW d, Closed(d),
           \A r \in Awaited' : r \in Awaited /\ req'[r].dialog = req[r].dialog
    PROVE  OnTop'
<1>1. CASE turned' = turned \union Awaited
  BY <1>1 DEF OnTop
<1>2. CASE UNCHANGED <<open, hiding, turned>>
  BY <1>2 DEF OnTop
<1> QED BY <1>1, <1>2 DEF Closed

LEMMA CloseScreen == ASSUME TypeOK, SInv, Close PROVE SInv'
<1>1. /\ hiding = <<>> /\ open # <<>> /\ Closed(Last(open))
      /\ UNCHANGED <<stack, form, req, mixed>>
  BY DEF Close
<1>2. Awaited' = Awaited
  BY <1>1 DEF Awaited
<1>3. open \in Seq(DOMAIN form) /\ Last(open) \in DOMAIN form
  BY <1>1, LastIs DEF TypeOK
<1>4. Distinct'
  BY <1>1, <1>3, ClosedDistinct DEF SInv
<1>5. InOrder'
  <2>1. CASE mixed
    BY <2>1, <1>1 DEF InOrder
  <2>2. CASE ~mixed
    <3>1. stack = open
      BY <2>2, <1>1 DEF SInv, InOrder
    <3> QED BY <3>1, <1>1, ClosedInOrder DEF SInv
  <2> QED BY <2>1, <2>2
<1>6. OnTop'
  BY <1>1, <1>2, ClosedOnTop DEF SInv
<1> QED BY <1>4, <1>5, <1>6 DEF SInv

LEMMA HiddenScreen == ASSUME TypeOK, SInv, Hidden PROVE SInv'
<1>1. /\ hiding # <<>> /\ hiding' = Tail(hiding) /\ stack' = Front(stack)
      /\ (mixed' <=> mixed /\ OnScreen # {Head(hiding)})
      /\ UNCHANGED <<open, form, req, turned>>
  BY DEF Hidden, TypeOK
<1>2. /\ open \in Seq(DOMAIN form) /\ hiding \in Seq(DOMAIN form) /\ stack \in Seq(DOMAIN form)
      /\ Len(open) \in Nat /\ Len(hiding) \in Nat /\ Len(stack) \in Nat
      /\ DOMAIN open = 1..Len(open) /\ DOMAIN hiding = 1..Len(hiding)
      /\ Len(stack) = Len(open) + Len(hiding)
  BY LenProperties DEF TypeOK
<1>3. /\ hiding' \in Seq(DOMAIN form) /\ Len(hiding') = Len(hiding) - 1 /\ Len(hiding) > 0
      /\ \A i \in 1..Len(hiding') : hiding'[i] = hiding[i + 1]
      /\ DOMAIN hiding' = 1..Len(hiding')
  BY <1>1, <1>2, HeadTailProperties, EmptySeq, LenProperties
<1>4. Distinct'
  <2>1. \A i \in DOMAIN hiding' : i + 1 \in DOMAIN hiding /\ hiding'[i] = hiding[i + 1] /\ i \in Nat
    BY <1>2, <1>3
  <2>2. \A i \in DOMAIN open', j \in DOMAIN hiding' : open'[i] # hiding'[j]
    BY <2>1, <1>1 DEF SInv, Distinct
  <2>3. ASSUME NEW i \in DOMAIN hiding', NEW j \in DOMAIN hiding', hiding'[i] = hiding'[j] PROVE i = j
    <3>1. i + 1 = j + 1
      BY <2>1, <2>3 DEF SInv, Distinct
    <3> QED BY <3>1, <2>1
  <2>4. \A i, j \in DOMAIN open' : open'[i] = open'[j] => i = j
    BY <1>1 DEF SInv, Distinct
  <2> QED BY <2>2, <2>3, <2>4 DEF Distinct
<1>5. InOrder'
  <2>1. CASE ~mixed
    <3>1. PICK x \in DOMAIN form : hiding = <<x>> /\ stack = Append(open, x)
      BY <2>1, <1>1 DEF SInv, InOrder
    <3>2. stack' = open'
      BY <3>1, <1>1, <1>2, AppendLast
    <3>3. hiding' = <<>>
      BY <3>1, <1>1
    <3> QED BY <3>2, <3>3 DEF InOrder
  <2>2. CASE OnScreen = {Head(hiding)}
    <3>1. 1 \in DOMAIN hiding /\ Head(hiding) = hiding[1]
      BY <1>2, <1>3
    <3>2. Len(open) = 0
      <4>1. SUFFICES ASSUME Len(open) # 0 PROVE FALSE
        OBVIOUS
      <4>2. 1 \in DOMAIN open
        BY <4>1, <1>2
      <4>3. open[1] \in OnScreen
        BY <4>2 DEF OnScreen
      <4> QED BY <2>2, <3>1, <4>2, <4>3 DEF SInv, Distinct
    <3>3. Len(hiding) = 1
      <4>1. SUFFICES ASSUME Len(hiding) # 1 PROVE FALSE
        OBVIOUS
      <4>2. 2 \in DOMAIN hiding
        BY <4>1, <1>2, <1>3
      <4>3. hiding[2] \in OnScreen
        BY <4>2 DEF OnScreen
      <4> QED BY <2>2, <3>1, <4>2, <4>3 DEF SInv, Distinct
    <3>4. open' = <<>> /\ hiding' = <<>>
      <4>1. Len(hiding') = 0
        BY <3>3, <1>3
      <4> QED BY <3>2, <4>1, <1>1, <1>2, <1>3, EmptySeq
    <3>5. stack' = <<>>
      <4>1. stack # <<>> /\ Len(stack) = 1
        BY <3>2, <3>3, <1>2, EmptySeq
      <4>2. stack' \in Seq(DOMAIN form) /\ Len(stack') = 0
        <5>1. Front(stack) \in Seq(DOMAIN form) /\ Len(Front(stack)) = Len(stack) - 1
          BY <4>1, <1>2, LastIs
        <5> QED BY <4>1, <5>1, <1>1
      <4> QED BY <4>2, EmptySeq
    <3> QED BY <3>4, <3>5 DEF InOrder
  <2>3. CASE mixed /\ OnScreen # {Head(hiding)}
    BY <2>3, <1>1 DEF InOrder
  <2> QED BY <2>1, <2>2, <2>3
<1>6. OnTop'
  <2>1. Awaited' = Awaited
    BY <1>1 DEF Awaited
  <2> QED BY <2>1, <1>1 DEF SInv, OnTop
<1> QED BY <1>4, <1>5, <1>6 DEF SInv

LEMMA SubmitScreen == ASSUME TypeOK, SInv, Submit PROVE SInv'
<1>0. PICK d, n : d = Last(open) /\ n = Len(req) + 1
  OBVIOUS
<1>1. /\ DOMAIN req' = DOMAIN req \union {n} /\ n \notin DOMAIN req
      /\ \A q \in DOMAIN req : req'[q] = req[q]
      /\ DOMAIN form' = DOMAIN form
  BY <1>0, SubmitIs
<1>2. req'[n].dialog = d
  BY <1>0, SubmitIs
<1>3. hiding = <<>> /\ open # <<>> /\ UNCHANGED <<stack, open, hiding, turned, mixed>>
  BY DEF Submit, client
<1>4. Distinct' /\ InOrder'
  BY <1>1, <1>3 DEF SInv, Distinct, InOrder
<1>5. OnTop'
  <2>1. ASSUME NEW r \in Awaited' \ turned' PROVE Last(open) = req'[r].dialog
    <3>1. r \in DOMAIN req'
      BY DEF Awaited
    <3>2. CASE r = n
      BY <3>2, <1>0, <1>2
    <3>3. CASE r \in DOMAIN req
      <4>1. r \in Awaited \ turned
        BY <3>3, <1>1, <1>3 DEF Awaited
      <4> QED BY <3>3, <4>1, <1>1 DEF SInv, OnTop
    <3> QED BY <3>1, <3>2, <3>3, <1>1
  <2> QED BY <2>1, <1>3 DEF OnTop
<1> QED BY <1>4, <1>5 DEF SInv

LEMMA ServerScreen ==
    ASSUME TypeOK, SInv, NEW r \in DOMAIN req, CheckToken(r) \/ RemoveToken(r) \/ Handle(r)
    PROVE  SInv'
<1>1. \E at \in Steps, fresh \in Nat \union {None} :
          req' = [req EXCEPT ![r] = [req[r] EXCEPT !.at = at, !.fresh = fresh]]
  <2>1. req[r].fresh \in Nat \union {None} /\ {"checked", "refused", "accepted", "saved", "invalid", "thrown"} \subseteq Steps
    BY Rows DEF ReqRow, Steps
  <2>2. CASE CheckToken(r)
    <3>1. PICK at \in {"checked", "refused"} :
              req' = [req EXCEPT ![r] = [req[r] EXCEPT !.at = at, !.fresh = req[r].fresh]]
      BY <2>2, CheckTokenIs
    <3>2. at \in Steps
      BY <2>1
    <3> QED BY <3>1, <3>2, <2>1
  <2>3. CASE RemoveToken(r)
    BY <2>1, <2>3, RemoveTokenIs
  <2>4. CASE Handle(r)
    <3>1. PICK at \in {"saved", "invalid", "thrown"}, fresh \in Nat \union {None} :
              req' = [req EXCEPT ![r] = [req[r] EXCEPT !.at = at, !.fresh = fresh]]
      BY <2>4, HandleIs
    <3>2. at \in Steps
      BY <2>1
    <3> QED BY <3>1, <3>2
  <2> QED BY <2>2, <2>3, <2>4
<1>2. UNCHANGED <<form, stack, open, hiding, turned, mixed>>
  BY DEF CheckToken, RemoveToken, Handle, client
<1>3. PICK at \in Steps, fresh \in Nat \union {None} :
          req' = [req EXCEPT ![r] = [req[r] EXCEPT !.at = at, !.fresh = fresh]]
  BY <1>1
<1>4. /\ DOMAIN req' = DOMAIN req
      /\ req'[r].dialog = req[r].dialog /\ req'[r].awaited = req[r].awaited
      /\ \A q \in DOMAIN req : q # r => req'[q] = req[q]
  BY <1>3, AtIs
<1>5. \A q \in Awaited' : q \in Awaited /\ req'[q].dialog = req[q].dialog
  BY <1>4 DEF Awaited
<1> QED BY <1>2, <1>5, ScreenKept

\* An answer is awaited no more.
LEMMA AnswerScreen ==
    ASSUME TypeOK, NEW r \in DOMAIN req, NEW token \in Nat, Always(r, token)
    PROVE  /\ DOMAIN form' = DOMAIN form
           /\ \A q \in Awaited' : q \in Awaited /\ req'[q].dialog = req[q].dialog
<1>1. /\ DOMAIN req' = DOMAIN req /\ DOMAIN form' = DOMAIN form
      /\ req'[r] = [req[r] EXCEPT !.awaited = FALSE]
      /\ \A q \in DOMAIN req : q # r => req'[q] = req[q]
  BY AlwaysIs
<1>2. ~req'[r].awaited
  <2>1. req[r] \in ReqRow
    BY Rows
  <2> QED BY <1>1, <2>1 DEF ReqRow
<1> QED BY <1>1, <1>2 DEF Awaited

LEMMA ErrorScreen == ASSUME TypeOK, SInv, NEW r \in DOMAIN req, Error(r) \/ Failed(r) PROVE SInv'
<1>1. PICK token \in Nat : Always(r, token)
  BY ErrorIs, TokenOfType DEF Failed
<1>2. UNCHANGED <<stack, open, hiding, turned, mixed>>
  BY DEF Error, Failed, client
<1> QED BY <1>1, <1>2, AnswerScreen, ScreenKept

LEMMA SuccessScreen == ASSUME TypeOK, SInv, NEW r \in DOMAIN req, Success(r) PROVE SInv'
<1>1. UNCHANGED <<stack, mixed>>
  BY DEF Success
<1>2. CASE req' = [req EXCEPT ![r].awaited = FALSE] /\ UNCHANGED <<form, open, hiding, turned>>
  <2>1. \A q \in DOMAIN req' : q \in DOMAIN req /\ (q # r => req'[q] = req[q])
    BY <1>2
  <2>2. ~req'[r].awaited
    <3>1. req[r] \in ReqRow /\ req'[r] = [req[r] EXCEPT !.awaited = FALSE]
      BY <1>2, Rows
    <3> QED BY <3>1 DEF ReqRow
  <2>3. \A q \in Awaited' : q \in Awaited /\ req'[q].dialog = req[q].dialog
    BY <2>1, <2>2 DEF Awaited
  <2> QED BY <1>1, <1>2, <2>3, ScreenKept
<1>3. CASE stack # <<>> /\ Always(r, TokenOf(r)) /\ Closed(Last(stack))
  <2>1. PICK token \in Nat : token = TokenOf(r)
    BY TokenOfType
  <2>2. /\ DOMAIN form' = DOMAIN form
        /\ \A q \in Awaited' : q \in Awaited /\ req'[q].dialog = req[q].dialog
    BY <1>3, <2>1, AnswerScreen
  <2>3. Last(stack) \in DOMAIN form
    BY <1>3, LastIs DEF TypeOK
  <2>4. Distinct'
    BY <1>3, <2>3, ClosedDistinct DEF SInv
  <2>5. InOrder'
    BY <1>1, <1>3, <2>2, ClosedInOrder DEF SInv
  <2>6. OnTop'
    BY <1>3, <2>2, ClosedOnTop DEF SInv
  <2> QED BY <2>4, <2>5, <2>6 DEF SInv
<1> QED BY <1>2, <1>3 DEF Success

LEMMA NextScreen == TypeOK /\ SInv /\ [Next]_vars => SInv'
<1> SUFFICES ASSUME TypeOK, SInv, [Next]_vars PROVE SInv'
  OBVIOUS
<1>1. CASE Create \/ NotShown \/ UNCHANGED vars
  BY <1>1, CreateScreen
<1>2. CASE Show \/ Close \/ Hidden \/ Submit
  BY <1>2, ShowScreen, CloseScreen, HiddenScreen, SubmitScreen
<1>3. ASSUME NEW d \in DOMAIN form, DisableButton(d) PROVE SInv'
  <2>1. UNCHANGED <<stack, open, hiding, turned, mixed, req>> /\ Awaited' = Awaited
    BY <1>3 DEF DisableButton, client, Awaited
  <2> QED BY <1>3, <2>1, DisableButtonIs, ScreenKept
<1>4. ASSUME NEW r \in DOMAIN req, CheckToken(r) \/ RemoveToken(r) \/ Handle(r) PROVE SInv'
  BY <1>4, ServerScreen
<1>5. ASSUME NEW r \in DOMAIN req, Success(r) \/ Error(r) \/ Failed(r) PROVE SInv'
  BY <1>5, SuccessScreen, ErrorScreen
<1> QED BY <1>1, <1>2, <1>3, <1>4, <1>5 DEF Next

LEMMA InitScreen == Init => SInv
<1> SUFFICES ASSUME Init PROVE SInv
  OBVIOUS
<1>1. DOMAIN open = {} /\ DOMAIN hiding = {} /\ DOMAIN req = {}
  BY DEF Init
<1> QED BY <1>1 DEF Init, SInv, Distinct, InOrder, OnTop, Awaited

\* The answer to a saved form closes the dialog of that form and no other, when no
\* dialog came or went meanwhile: the stack of dialog.js is then what is on the
\* screen, and the form that waits is on top of it.
THEOREM ClosesItsOwnHolds == Spec => ClosesItsOwn
<1>1. ASSUME TypeOK, SInv, NEW r \in DOMAIN req, r \in Awaited \ turned, ~mixed, Success(r)
      PROVE  \E i \in DOMAIN open : open[i] = req[r].dialog /\ open' = RemoveAt(open, i)
  <2>1. hiding = <<>> /\ open # <<>> /\ Last(open) = req[r].dialog
    BY <1>1 DEF SInv, OnTop
  <2>2. stack = open
    BY <1>1, <2>1 DEF SInv, InOrder
  <2>3. Closed(Last(open))
    BY <1>1, <2>1, <2>2 DEF Success
  <2>4. Len(open) \in DOMAIN open /\ open[Len(open)] = Last(open)
    <3>1. open \in Seq(DOMAIN form)
      BY <1>1 DEF TypeOK
    <3> QED BY <2>1, <3>1, LastIs
  <2> QED BY <2>1, <2>3, <2>4 DEF Closed
<1>2. TypeOK /\ SInv /\ [Next]_vars =>
        [\A r \in DOMAIN req :
             r \in Awaited \ turned /\ ~mixed /\ Success(r)
                 => \E i \in DOMAIN open :
                        open[i] = req[r].dialog /\ open' = RemoveAt(open, i)]_vars
  BY <1>1
<1>3. Init => TypeOK /\ SInv
  BY InitTypeOK, InitScreen
<1>4. TypeOK /\ SInv /\ [Next]_vars => TypeOK' /\ SInv'
  BY NextType, NextScreen
<1> QED BY <1>2, <1>3, <1>4, PTL DEF Spec, ClosesItsOwn

=============================================================================
