CONSTANTS
    a = a
    b = b
    Shops = {a, b}
    Sessions = {s1, s2}
    Quantities = {2}
    Adjustments <- MCAdjustments
    Deliveries <- MCDeliveries
    Ordered = {1, 2}
    NEntries = 5
    MaxItems = 2
    MaxChanges = 4
    None = None
SPECIFICATION Spec
SYMMETRY SessionSymmetry
INVARIANTS StockFollowsTransactions StatusFollowsShipments
PROPERTIES TransferKeepsTotal
CHECK_DEADLOCK FALSE
