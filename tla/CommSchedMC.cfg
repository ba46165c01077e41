SPECIFICATION CalmSpec
CONSTANTS
    r1 = r1
    r2 = r2
    r3 = r3
    r4 = r4
    t1 = t1
    t2 = t2
    Group = Group
    None = None
    Requests = {r1, r2, r3, r4}
    Targets = {t1, t2}
    MaxLoad <- MCMaxLoad
INVARIANT LoadsAreRight
INVARIANT WaitersMutexIsRight
PROPERTY WaitersServed
