CONSTANTS
    Books = {b1}
    NItems = 4
    Sessions = {s1}
    r1 = r1
    r2 = r2
    t1 = t1
    t2 = t2
    Rooms <- ModelRooms
    Therapists <- ModelTherapists
    SharedRooms <- ModelShared
    Requests <- ModelRequests
    Moves <- ModelMoves
    Statuses = {"CONFIRM", "CHECKIN_SERVICE", "COMPLETE", "CANCEL"}
    ProcessTime = 1
    MaxChanges = 3
    NoRoom = NoRoom
    None = None
SPECIFICATION Spec
INVARIANTS OneBookingKeepsApart
CHECK_DEADLOCK FALSE
