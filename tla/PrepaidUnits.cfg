CONSTANTS
    NPrepaids = 1
    NPtts = 2
    NSales = 2
    NoRow = NoRow
    Types = {"TREATMENT_PACKAGE", "TREATMENT_VOUCHER", "CASH_VOUCHER"}
    Amounts = {1, 2}
    Remains = {0, 1}
    MaxDay = 0
SPECIFICATION Spec
CONSTRAINT BalancesBounded
INVARIANTS NothingLost
PROPERTIES ImplementsAccount
