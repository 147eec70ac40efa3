SPECIFICATION FairSpec
CONSTANTS
    t1 = t1
    t2 = t2
    u1 = u1
    u2 = u2
    Threads = {t1, t2}
    Urls = {u1}
    Registered = {u1}
    Stocked = {u1}
    Ops <- AllCalls
    Alone <- NoCall
    Outcomes = {TRUE, FALSE}
    MaxCalls = 3
    Free = Free
    Orphan = Orphan
INVARIANTS
    TypeOK
    CounterStable
    MapNeverStale
    RowsHaveCopies
    LocksOwned
    DeadlocksMixCalls
PROPERTIES
    EveryCallReturns
