----------------------------- MODULE MCSalesCart -----------------------------
(***************************************************************************)
(* SalesCart for TLC: packages of cash and treatments with one transaction *)
(* or two, one of them with an expired transaction, and a cash voucher.    *)
(***************************************************************************)
EXTENDS SalesCart, TLC

Prepaid(type, v)   == AddPrepaidDb(EmptyDatabase, 1, 1, type, v, 0, Today)
Twice(type, v, u)  == TopUpDb(Prepaid(type, v), 1, 2, u, 1, Today)
WithExpired(d)     == [d EXCEPT !.ptt[1].expiry = Today - 1]

MCStarts ==
    {Prepaid("CASH_PACKAGE", 3), Prepaid("CASH_PACKAGE", 1), Twice("CASH_PACKAGE", 1, 1),
     Prepaid("CASH_VOUCHER", 2), Twice("TREATMENT_PACKAGE", 2, 1),
     WithExpired(Twice("TREATMENT_PACKAGE", 1, 1))}

PageSymmetry == Permutations(Pages)
=============================================================================
