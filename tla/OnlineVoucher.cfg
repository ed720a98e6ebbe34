CONSTANTS
    Vouchers = {v1, v2}
    Tokens = {t1}
    Retries = 2
SPECIFICATION Spec
INVARIANTS SpendableIsPaid RedeemedOnce OneVoucherPerPurchase GoodsFollowBooks
PROPERTIES PaidIsGiven
CHECK_DEADLOCK FALSE
