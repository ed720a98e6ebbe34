-------------------------- MODULE MCPrepaidSessions --------------------------
(***************************************************************************)
(* PrepaidSessions for TLC: a package of cash or treatments with one       *)
(* transaction or two, redeemed or not, or a voucher, open or past its     *)
(* expiry, and every way to overlap the requests.                          *)
(***************************************************************************)
EXTENDS PrepaidSessions, TLC

Package(type)  == AddPrepaidDb(EmptyDatabase, 1, 1, type, 2, 0, Today)
ToppedUp(type) == TopUpDb(Package(type), 1, 2, 1, Today, Today)
Voucher(date)  == AddPrepaidDb(EmptyDatabase, 1, 1, "CASH_VOUCHER", 2, 0, date)

Redeemed(type) == CheckOutDb(ToppedUp(type), 1, 1, Today, 2)

MCStarts ==
    {Package("CASH_PACKAGE"), ToppedUp("TREATMENT_PACKAGE"), Redeemed("CASH_PACKAGE"),
     Voucher(0), Voucher(Today)}

RequestSymmetry == Permutations(Requests)
=============================================================================
