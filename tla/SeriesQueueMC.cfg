SPECIFICATION Spec
CONSTANTS
    w1 = w1
    w2 = w2
    None = None
    Works = {w1, w2}
    BufSize = 2
    MaxDoublings = 2
PROPERTY ImplementsDeque
CHECK_DEADLOCK FALSE
