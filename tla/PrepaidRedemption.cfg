CONSTANTS
    NPrepaids = 1
    NPtts = 2
    NSales = 1
    NoRow = NoRow
    Today = 1
    MaxBalance = 2
    MCTypes = {"CASH_PACKAGE", "CASH_VOUCHER", "TREATMENT_PACKAGE"}
    Quantities = {1, 2, 3}
    Inputs <- MCInputs
    UnitValue <- MCUnitValue
SPECIFICATION Spec
INVARIANTS RedeemsAsOne TakenAddsUp ItemIsValued
PROPERTIES Terminates
