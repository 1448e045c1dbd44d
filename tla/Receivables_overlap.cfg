SPECIFICATION Spec
CONSTANTS
    i1 = i1
    i2 = i2
    p1 = p1
    p2 = p2
    r1 = r1
    r2 = r2
    n1 = n1
    Direct = Direct
    Invoice = {i1, i2}
    Payment = {p1, p2}
    Request = {r1, r2}
    Serves <- AllThenVerify
    Reference = {n1}
    Via = {n1, "online"}
    Total = {1, 2}
    Amount = {1, 2}
    MaxTxn = 2
SYMMETRY Interchangeable
INVARIANTS
    TypeOK
    ReceiptsAgree
    NeverOverpaid
    ReferencesDistinct
PROPERTY ClaimsStayCovered
CHECK_DEADLOCK FALSE
