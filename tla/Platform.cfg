SPECIFICATION MCSpec
CONSTANTS
    Named = {n1, n2}
    Editing = {r1, r2}
    Ttl = 1
    Span = 0
    MaxRows = 2
    MaxEdits = 2
    Asked = {"material"}
    Verifying = {r1, r2}
    SendLimit = 1
    CodeLife = 1
    FailLimit = 3
    LockLife = 2
    MaxCodes = 2
    MaxTicks = 2
    Member = {u1, u2}
    TokenLife = 2
    MaxTokens = 2
    MaxNow = 5
    Mobile = {m1, m2, m3}
    Staff = {s1, s2}
    UserQuota = 1
    Administering = {r1, r2}
    MaxUsers = 3
    MaxChanges = 2
    r1 = r1
    r2 = r2
    c1 = c1
    c2 = c2
    cs = cs
    admin = admin
    engineer = engineer
    planner = planner
    Code = {c1, c2}
    ModuleOf <- Modules2
    Anything = Anything
    BuiltIn = {"SiteEngineer"}
    Custom = {"Planner"}
    Person = {admin, engineer, planner}
    RoleOf <- Roles2
    Payload <- Payloads
    Ruling = {r1, r2}
    MaxRules = 2
    Chatter = {t1, t2, t3}
    NoChatter = NoChatter
    Marking = {t1}
    Talking = {x1}
    MaxPrivate = 2
    Writer = {t1, t2}
    Attached = {f1}
    MaxMessages = 3
    PageSize = 3
    MarkLimit = 1
    MaxPins = 1
    Posting2 = {x1}
    MaxPosts = 4
SYMMETRY Interchangeable
CHECK_DEADLOCK FALSE
INVARIANTS
    PlatformTypesOK
    
    
