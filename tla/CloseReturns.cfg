CONSTANTS
    Worker = {w1, w2}
    Request = {r1, r2}
    None = None
SPECIFICATION EndingSpec
PROPERTY CloseReturns
CHECK_DEADLOCK FALSE
