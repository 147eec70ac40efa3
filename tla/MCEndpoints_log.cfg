SPECIFICATION Spec
CONSTANTS
    t1 = t1
    t2 = t2
    u1 = u1
    u2 = u2
    Threads = {t1, t2}
    Urls = {u1, u2}
    Registered = {u1, u2}
    Stocked = {}
    Ops <- NoAdd
    Alone <- Posts
    Outcomes = {TRUE}
    MaxCalls = 4
    Free = Free
    Orphan = Orphan
INVARIANTS
    ListingsTrue
    RecordsComeFree
PROPERTIES
    ImplementsLog
    CreatedIsStored
