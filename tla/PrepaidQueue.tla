---------------------------- MODULE PrepaidQueue ----------------------------
(***************************************************************************)
(* The transactions of a prepaid in the order they are redeemed, as a      *)
(* sequence, for the loops that walk it.                                   *)
(***************************************************************************)
EXTENDS PrepaidTables, SequencesExt

\* getActivePrepaidTopUpTransactionsByPrepaid
ActivePtts(db, p, today) ==
    LET usable == {t \in PttsOf(db, p) : IsUsable(db, p, today, t)}
    IN  CHOOSE q \in [1..Cardinality(usable) -> usable] :
            \A i, j \in DOMAIN q : i < j => IsAhead(db, q[i], q[j])
=============================================================================
