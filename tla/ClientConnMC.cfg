SPECIFICATION MCSpec
CONSTANTS
    s1 = s1
    s2 = s2
    c1 = c1
    c2 = c2
    h1 = h1
    h2 = h2
    None = None
    Sessions = {s1, s2}
    Conns = {c1, c2}
    Handlers = {h1, h2}
SYMMETRY MCSymmetry
INVARIANT RefCountsResults
INVARIANT NoUseAfterFree
INVARIANT SessionsSettled
INVARIANT ReplyToItsSession
INVARIANT IdleEndIsListed
