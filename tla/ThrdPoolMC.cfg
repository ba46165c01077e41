SPECIFICATION Spec
CONSTANTS
    w1 = w1
    w2 = w2
    w3 = w3
    Owner = Owner
    None = None
    Threads = {w1, w2, w3}
    NThreads = 2
    MaxTasks = 4
INVARIANT PoolFreedLast
INVARIANT ThreadsJoinedOnce
INVARIANT TasksSettledOnce
PROPERTY DestroyCompletes
CHECK_DEADLOCK FALSE
