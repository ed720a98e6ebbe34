CONSTANTS
    NDialogs = 2
    NRequests = 3
    None = None
SPECIFICATION Spec
INVARIANTS SavedOnce UsableToken
PROPERTIES ClosesItsOwn
CHECK_DEADLOCK FALSE
