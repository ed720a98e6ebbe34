---------------------------- MODULE PrepaidAccount ----------------------------
(***************************************************************************)
(* What a prepaid promises the member who holds it, whatever transactions  *)
(* it is kept in: an account that staff open, correct and close, that a    *)
(* purchase can draw on up to what it holds, and that a refund gives back  *)
(* what the purchase took: exactly for cash, no less for treatments.       *)
(* PrepaidLedger implements it.                                            *)
(***************************************************************************)
EXTENDS Integers

CONSTANTS Accounts, Purchases, None

VARIABLES
    account,    \* what each account holds, None before it is opened and once closed
    paid        \* what each purchase has drawn and from which account, or None

accountVars == <<account, paid>>

Opened == {a \in Accounts : account[a] # None}
Drawing == {s \in Purchases : paid[s] # None}

Init ==
    /\ account = [a \in Accounts |-> None]
    /\ paid = [s \in Purchases |-> None]

\* The account a ends this step with a balance and is of the kind it was.
Rebalanced(a) ==
    /\ account'[a] # None
    /\ account'[a].held \in Nat
    /\ account' = [account EXCEPT ![a] = [cash |-> account[a].cash, held |-> account'[a].held]]

Open(a) ==
    /\ a \notin Opened
    /\ account'[a] # None
    /\ account'[a].held \in Nat
    /\ account'[a].cash \in BOOLEAN
    /\ account' = [account EXCEPT ![a] = [cash |-> account'[a].cash, held |-> account'[a].held]]
    /\ UNCHANGED paid

\* A top-up or a correction: staff may set any balance.
Adjust(a) ==
    /\ a \in Opened
    /\ Rebalanced(a)
    /\ UNCHANGED paid

\* Nothing drawn may be left to refund when an account is closed.
Close(a) ==
    /\ a \in Opened
    /\ \A s \in Drawing : paid[s].from # a
    /\ account' = [account EXCEPT ![a] = None]
    /\ UNCHANGED paid

Spend(a, s) ==
    /\ a \in Opened
    /\ s \notin Drawing
    /\ Rebalanced(a)
    /\ account'[a].held < account[a].held
    /\ paid' = [paid EXCEPT ![s] = [from |-> a, amount |-> account[a].held - account'[a].held]]

Refund(s) ==
    /\ s \in Drawing
    /\ Rebalanced(paid[s].from)
    /\ LET a    == paid[s].from
           back == account'[a].held - account[a].held
       IN  IF account[a].cash THEN back = paid[s].amount ELSE back >= paid[s].amount
    /\ paid' = [paid EXCEPT ![s] = None]

Next ==
    \/ \E a \in Accounts : Open(a) \/ Adjust(a) \/ Close(a)
    \/ \E a \in Accounts, s \in Purchases : Spend(a, s)
    \/ \E s \in Purchases : Refund(s)

Spec == Init /\ [][Next]_accountVars
=============================================================================
