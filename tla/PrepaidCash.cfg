CONSTANTS
    NPrepaids = 1
    NPtts = 3
    NSales = 1
    NoRow = NoRow
    Types = {"CASH_PACKAGE", "CASH_VOUCHER"}
    Amounts = {2}
    Remains = {1}
    MaxDay = 1
SPECIFICATION Spec
INVARIANTS Balanced NothingOverdrawn CashConserved Refers VoucherInStep
PROPERTIES OldestFirst
