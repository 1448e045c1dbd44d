SPECIFICATION MCSpec
CONSTANTS
    Activity = {a1, a2}
    WorkOrder = {w1}
    NoWorkOrder = NoWorkOrder
    Entering = {e1}
    Amount = {1}
    Planned = 2
    LastDay = 2
    Group = {g1}
    Name = {n1, n2}
    Adding = {x1}
    MaxItem = 3
    Measurement = {m1}
    Bill = {b1}
    Invoice = {i1}
    Billing = {r1}
    Staff = {u1, u2}
    Measured = {1, 2}
    User = {u1, u2}
    Worker = {u1}
    Milestone = {m1}
    Task = {t1}
    Assigning = {r1}
    Percent = {40, 100}
    MaxReports = 2
    SiteRecord = {r1, r2}
    Key = {k1, k2}
    Person = {u1, u2}
    MaxEdits = 1
    Update = {w1, w2}
    Site = {t1, t2}
    Author = {u1}
    Uploading = {r1}
    MaxImages = 1
    ProjectId = {p1, p2, p3}
    Requests = {r1}
    MaxProjects = 1
    Document = {d1}
    DrawingName = {n1}
    MaxDrawing = 2
    MaxContent = 1
    Reviewer = {u1, u2}
    Reviewing = {r1}
    s1 = s1
    s2 = s2
    f1 = f1
    r1 = r1
    r2 = r2
    Project = {s1}
    Transfer = {}
    NoTransfer = NoTransfer
    Request = {r1}
    Serves <- CountThenBuy
    Opening = {0}
    Quantity = {1}
    Count = {1}
    MaxTxn = 3
INVARIANT EveryLineMovesStock
CHECK_DEADLOCK FALSE
