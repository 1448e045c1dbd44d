SPECIFICATION MCSpec
CONSTANTS
    Machine = {q1}
    Workplace = {j1, j2}
    NoWorkplace = NoWorkplace
    Finished = {j2}
    Rental = {l1, l2}
    Service = {k1}
    Requesting = {r1}
    Hours = {1}
    Horizon = 2
    MaxServed = 6
    Expense = {x1}
    Prefix <- OnlyItself
    Purchase = {p1}
    Item = {b1, b2}
    NoItem = NoItem
    Costing = {r1}
    Cost = {1, 2}
    MaxEntries = 3
    Labourer = {l1}
    Workday = {d1, d2}
    Attendance = {1, 2}
    Attending = {r1}
    FullDay = 1
    Attended = {2}
    Advanced = {1}
    MaxAdvances = 1
    Quotation = {q1, q2}
    Client = {c1}
    WorkItem = {i1}
    LabourItem = {l1}
    MaterialItem = {m1}
    ExtraCharge = {e1}
    Priced = {1}
    Discount = {0, 1}
    Quoting = {r1}
    MaxLines = 2
    MaxHandled = 6
    QuotedUnit <- Units
    FamilyOf <- UnitFamily
    ScaleOf <- UnitScale
    Size = {0, 2}
    Price = {1, 2}
    Percent2 = {0, 2}
    bank = bank
    petty_cash = petty_cash
    labour_exp = labour_exp
    liability = liability
    Account = {bank, labour_exp, liability, petty_cash}
    TypeOf <- AccountTypes
    BankLedger = bank
    CashLedger = bank
    PettyCash = petty_cash
    EntryId = {1, 2}
    Template = {t1}
    Running = {r1}
    Sum = {1, 2}
    Today = 2
    Posting <- BankToLiability
    Managed = {labour_exp}
    StatementLine = {s1, s2}
    LineKey = {k1}
    BankEntry = {e1, e2}
    NoEntry = NoEntry
    NearTo <- AllNear
    Receipt = {rc1}
    Deduction = {t1, t2}
    DeductedBill = {b1, b2}
    Asset = {fa1}
    Return = {g1}
    Recording = {r1}
    MaxRecorded = 5
    ContractorBill = {b1}
    BillAmount = 3
    Work = {2, 3}
    Part = {1, 2}
    JoinedProject = {j1}
    Paying = {r1}
    MaxPayments = 4
    Supplier = {s1, s2}
    CompanyOf <- OneCompany
    Contact = {g1}
    NoContact = NoContact
    Bought = {m1}
    Order = {o1}
    Quantity = {0, 1}
    Minimum = 1
    Span = 10
    Ordering = {r1}
    MaxPurchase = 2
    MaxProcessed = 6
CHECK_DEADLOCK FALSE
INVARIANTS
    BusinessTypesOK
    
    
PROPERTIES
    PayrollStands
