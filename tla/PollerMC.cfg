SPECIFICATION Spec
CONSTANTS
    f1 = f1
    n1 = n1
    n2 = n2
    n3 = n3
    None = None
    Fds = {f1}
    Nodes = {n1, n2, n3}
    Timeouts = {0, 1}
    PipeMax = 2
    EventsMax = 2
    MaxTime = 3
    MaxCalls = 5
INVARIANT OneResultEach
INVARIANT EventsAreLive
INVARIANT TimerNeverLate
PROPERTY TimeoutsHappen
CHECK_DEADLOCK FALSE
