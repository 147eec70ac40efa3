SPECIFICATION Spec
CONSTANTS
    t1 = t1
    t2 = t2
    u1 = u1
    u2 = u2
    Threads = {t1}
    Urls = {u1}
    Registered = {u1}
    Stocked = {}
    Ops <- AllCalls
    Alone <- NoCall
    Outcomes = {TRUE}
    MaxCalls = 3
    Free = Free
    Orphan = Orphan
PROPERTIES
    DeletionDeletesObjects
