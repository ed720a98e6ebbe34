CONSTANTS
    Books = {b1, b2}
    NItems = 4
    Sessions = {s1, s2}
    r1 = r1
    r2 = r2
    t1 = t1
    t2 = t2
    Rooms <- ModelRooms
    Therapists <- ModelTherapists
    SharedRooms <- ModelShared
    Requests <- ModelRequests
    Moves <- ModelMoves
    Statuses = {"CONFIRM", "CHECKIN_SERVICE", "COMPLETE", "CANCEL"}
    ProcessTime = 1
    MaxChanges = 4
    NoRoom = NoRoom
    None = None
SPECIFICATION Spec
SYMMETRY BookingSymmetry
INVARIANTS SlotsKeptApart CleanedBetweenBookings BookFollowsItems
CHECK_DEADLOCK FALSE
