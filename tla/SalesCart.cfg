CONSTANTS
    NPrepaids = 1
    NPtts = 2
    NSales = 2
    NoRow = NoRow
    NoEntry = NoEntry
    Pages = {g1, g2}
    Starts <- MCStarts
    Quantities = {1, 2}
    MaxItems = 2
    Today = 2
    Whole = 2
SPECIFICATION Spec
SYMMETRY PageSymmetry
INVARIANTS   NeverOverQuoted
