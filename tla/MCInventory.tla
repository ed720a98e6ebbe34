----------------------------- MODULE MCInventory -----------------------------
(***************************************************************************)
(* Inventory for TLC: two shops, two sessions.                             *)
(***************************************************************************)
EXTENDS Inventory

CONSTANTS a, b

InA(n)  == [shop |-> a, in |-> TRUE, qty |-> n]
OutA(n) == [shop |-> a, in |-> FALSE, qty |-> n]

\* New stock, a correction, and two lines on one form.
MCAdjustments == {<<InA(2)>>, <<OutA(1), InA(1)>>}

MCDeliveries == {a :> 1 @@ b :> 0, a :> 1 @@ b :> 1}

SessionSymmetry == Permutations(Sessions)
==============================================================================
