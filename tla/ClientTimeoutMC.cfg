SPECIFICATION MCSpec
CONSTANTS
    s1 = s1
    s2 = s2
    c1 = c1
    c2 = c2
    h1 = h1
    h2 = h2
    None = None
    Sessions = {s1}
    Conns = {c1}
    Handlers = {h1}
INVARIANT SetTimeoutNeverFails
