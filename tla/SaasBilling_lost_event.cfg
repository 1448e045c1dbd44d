SPECIFICATION Spec
CONSTANTS
    basic = basic
    pro = pro
    i1 = i1
    i2 = i2
    p1 = p1
    p2 = p2
    p3 = p3
    p4 = p4
    p5 = p5
    provsub = provsub
    t1 = t1
    t2 = t2
    Message = {p1}
    MayFail = {p1}
    Feed <- OnePayment
    Invoice = {i1}
    NoInvoice = NoInvoice
    Plan = {basic, pro}
    NoPlan = NoPlan
    ProviderSub = {provsub}
    NoSub = NoSub
    Txn = {}
    TxnPlan <- BasicOnly
    Utr = {}
    NoUtr = NoUtr
    AdminStatus = {}
    Request = {1}
    AdminUntil = 0
    Exclusive = TRUE
CHECK_DEADLOCK FALSE
INVARIANT AckedMeansHandled
