SPECIFICATION Spec
CONSTANTS
    a = a
    b = b
    c = c
    d = d
    e = e
    f = f
    x = x
    p1 = p1
    p2 = p2
    p3 = p3
    root = root
    s1 = s1
    s2 = s2
    s3 = s3
    s4 = s4
    None = None
    Root = root
    Tasks = {a, b, c, d, e, f, x}
    Parallels = {p1, p2, p3}
    AllSeries = {root, s1, s2, s3, s4}
    Content <- MCContent
    Branches <- MCBranches
INVARIANT JoinIsLast
INVARIANT NoUseAfterFree
INVARIANT CancelDestroysRest
PROPERTY EverythingEnds
CHECK_DEADLOCK FALSE
