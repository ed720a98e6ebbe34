--------------------------- MODULE MCPrepaidLedger ---------------------------
(***************************************************************************)
(* PrepaidLedger for TLC.  Refunds of treatments can grow without end: an  *)
(* item paid from two transactions gives its quantity back to each, one    *)
(* paid in part gives back more than it took.  The runs that sell          *)
(* treatments explore balances up to BalanceBound.                         *)
(***************************************************************************)
EXTENDS PrepaidLedger

BalanceBound == 3

BalancesBounded == \A t \in Live(db.ptt) : db.ptt[t].remain <= BalanceBound
=============================================================================
