SPECIFICATION Spec
CONSTANTS
    basic = basic
    pro = pro
    i1 = i1
    i2 = i2
    p1 = p1
    p2 = p2
    p3 = p3
    p4 = p4
    p5 = p5
    provsub = provsub
    t1 = t1
    t2 = t2
    Message = {p1, p2, p3, p4}
    MayFail = {p3}
    Feed <- LifeCycle
    Invoice = {i1, i2}
    NoInvoice = NoInvoice
    Plan = {basic}
    NoPlan = NoPlan
    ProviderSub = {provsub}
    NoSub = NoSub
    Txn = {t1}
    TxnPlan <- BasicOnly
    Utr = {7}
    NoUtr = NoUtr
    AdminStatus = {"cancelled"}
    Request = {1}
    AdminUntil = 1
    Exclusive = TRUE
CHECK_DEADLOCK FALSE
INVARIANT TypeOK
INVARIANT LatestPaymentWins
PROPERTY RevivedByAdminOnly
PROPERTY DecidedEvidenceFixed
