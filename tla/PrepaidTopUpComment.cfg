CONSTANTS
    NPrepaids = 1
    NPtts = 2
    NSales = 1
    NoRow = NoRow
    Types = {"CASH_PACKAGE"}
    Amounts = {1}
    Remains = {1}
    MaxDay = 1
SPECIFICATION Spec
PROPERTIES TopUpCarriesValidOnly
