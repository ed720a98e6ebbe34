CONSTANTS
    NPrepaids = 1
    NPtts = 2
    NSales = 2
    NoRow = NoRow
    Requests = {r1, r2, r3}
    Starts <- MCStarts
    Types = {"CASH_VOUCHER"}
    Amounts = {1, 2}
    Remains = {1}
    MaxDay = 1
    Today = 1
SPECIFICATION Spec
SYMMETRY RequestSymmetry
INVARIANTS RightUnlessOverwritten RefundedOnce NoPttOverdrawn StoredRowsRefer VoucherInStepUnlessTorn
PROPERTIES AloneIsLedger
