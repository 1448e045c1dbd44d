SPECIFICATION Spec
CONSTANTS
    b1 = b1
    b2 = b2
    v1 = v1
    v2 = v2
    r1 = r1
    r2 = r2
    Bill = {b1, b2}
    Voucher = {v1, v2}
    Request = {r1, r2}
    Legacy = {b2}
    Total <- OneTotal
    BillOf <- OneEach
    Amount = {1, 2}
    Withheld = {0}
    ManualTDS = {}
    MaxTxn = 3
    Exclusive = FALSE
SYMMETRY RequestSymmetry
INVARIANTS
    ExpenseRecognisedOnce
    CashBookMatchesBank
    PaidOnlyWhenAccrued
