--------------------------- MODULE MCLoyaltyPoints ---------------------------
(***************************************************************************)
(* LoyaltyPoints for TLC: requests are interchangeable, and so are         *)
(* sessions.                                                               *)
(***************************************************************************)
EXTENDS LoyaltyPoints, TLC

LoyaltySymmetry == Permutations(Requests) \union Permutations(Sessions)
=============================================================================
