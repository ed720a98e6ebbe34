------------------------------ MODULE MCBooking ------------------------------
(***************************************************************************)
(* Booking for TLC: two rooms, one whose id is small and one whose id is   *)
(* not, and two therapists.  A page asks for one treatment, for one that   *)
(* has to wait, or for two that follow each other in one room.             *)
(***************************************************************************)
EXTENDS Booking, TLC

CONSTANTS r1, r2, t1, t2

ModelRooms      == {r1, r2}
ModelTherapists == {t1, t2}
ModelShared     == {r1}

Treatment(r, t, at) == [room |-> r, therapist |-> t, start |-> at, dur |-> 1]

ModelRequests ==
    {<<Treatment(r1, t1, 3)>>, <<Treatment(NoRoom, t1, 0)>>,
     <<Treatment(r1, t1, 0), Treatment(r1, t1, 2)>>,
     <<Treatment(r1, t2, 0), Treatment(r1, t1, 2)>>,
     <<Treatment(r2, t2, 0), Treatment(r2, t1, 2)>>}

ModelMoves == {[room |-> r1, therapist |-> t1, start |-> 1],
               [room |-> r2, therapist |-> t1, start |-> 3],
               [room |-> r2, therapist |-> t2, start |-> 1]}

BookingSymmetry == Permutations(Books) \union Permutations(Sessions)
=============================================================================
