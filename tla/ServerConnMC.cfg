SPECIFICATION Spec
CONSTANTS
    c1 = c1
    c2 = c2
    h1 = h1
    h2 = h2
    Main = Main
    None = None
    Conns = {c1, c2}
    MaxSeq <- Requests
    Handlers = {h1, h2}
    MaxConns = 1
INVARIANT RefsCount
INVARIANT NoUseAfterFree
INVARIANT ListedIsAlive
INVARIANT ConnsBounded
INVARIANT ServedOnce
INVARIANT NothingLeaks
SYMMETRY HandlersAlike
