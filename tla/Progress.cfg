SPECIFICATION MCFairSpec
CONSTANTS
    basic = basic
    pro = pro
    i1 = i1
    i2 = i2
    p1 = p1
    p2 = p2
    p3 = p3
    p4 = p4
    p5 = p5
    provsub = provsub
    t1 = t1
    t2 = t2
    Message = {p1, p2}
    MayFail = {p1, p2}
    Feed <- OnePaymentTwoEvents
    Invoice = {i1}
    NoInvoice = NoInvoice
    Plan = {basic, pro}
    NoPlan = NoPlan
    ProviderSub = {provsub}
    NoSub = NoSub
    Txn = {}
    TxnPlan <- BasicOnly
    Utr = {}
    NoUtr = NoUtr
    AdminStatus = {}
    Request = {1, 2}
    AdminUntil = 0
    Exclusive = FALSE
    c1 = c1
    c2 = c2
    c3 = c3
    Creator = {c1, c2, c3}
    Existing = {0, 5, 7}
    Attempts = 3
    Base = 3
    Pad = 2
    w1 = w1
    w2 = w2
    Worker = {w1, w2}
    Nobody = Nobody
    Orphan = Orphan
    MaxCrashes = 2
CHECK_DEADLOCK FALSE
INVARIANTS
    ProgressTypesOK
    
PROPERTIES
    AcksComplete
    CreationsComplete
    ScansExclusive
    ScansComplete
