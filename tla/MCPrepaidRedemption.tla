------------------------- MODULE MCPrepaidRedemption -------------------------
(***************************************************************************)
(* PrepaidRedemption for TLC: every database with one prepaid, each of its *)
(* transactions open, inactive or expired, with any balance up to          *)
(* MaxBalance and any order of purchase dates.                             *)
(***************************************************************************)
EXTENDS PrepaidRedemption

CONSTANTS MaxBalance, MCTypes

MCUnitValue == [t \in PttIds |-> t]

\* A row of transaction t: open, inactive, or expired the day before Today.
Rows ==
    {[prepaid |-> 1, root |-> FALSE, active |-> a, date |-> d, expiry |-> e,
      init |-> MaxBalance, remain |-> r] :
        a \in BOOLEAN, d \in {0, 1}, e \in {Today - 1, Today}, r \in 0..MaxBalance}

IsOpenOrClosed(row) == row.active \/ row.expiry = Today

MCInputs ==
    {[prepaid |-> [q \in PrepaidIds |->
                     [type |-> type, active |-> TRUE, init |-> NPtts * MaxBalance,
                      remain |-> Total([t \in PttIds |-> ptts[t].remain], NPtts)]],
      ptt     |-> ptts,
      sale    |-> [s \in SaleIds |-> NoRow]] :
        type \in MCTypes, ptts \in [PttIds -> {row \in Rows : IsOpenOrClosed(row)}]}
=============================================================================
