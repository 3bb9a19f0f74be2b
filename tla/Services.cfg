SPECIFICATION Spec
CONSTANTS
    Size <- FourSizes
    min_size = 3
    Handler = {"h"}
    Subscriber = {"s1", "s2"}
    MaxQueueSize = 1
    MaxMessages = 3
    Call = {"c1", "c2"}
    MaxConnections = 3
    Once = {"once"}
    Again = {"again"}
    Exact = {"exact"}
    Delay = 3
    Slop = 1
    MaxAlarms = 3
    MaxLate = 1
INVARIANTS
    WholeMessages
    NoGaps
    NothingLeftBehind
    ClosedStaysClosed
    ApproxInStep
    ApproxSpaced
PROPERTIES
    HeldBytesLeave
    SlowReaderClosed
    CallsEnd
    EachFires
CHECK_DEADLOCK FALSE
