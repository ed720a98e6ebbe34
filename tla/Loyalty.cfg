CONSTANTS
    NRows = 3
    NOrders = 2
    NPages = 2
    Requests = {r1, r2}
    Sessions = {s1}
    Worths = {2}
    Prices = {1, 3}
    LifeTime = 1
    MaxDay = 1
    NoRow = NoRow
SPECIFICATION Spec
SYMMETRY LoyaltySymmetry
INVARIANTS PointsAccounted OneActiveRecord OneAwardPerPage
PROPERTIES OldestPointsFirst
CHECK_DEADLOCK FALSE
