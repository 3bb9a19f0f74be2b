SPECIFICATION BackgroundSpec
CONSTANTS
    Tx = {t1, t2}
    Sid = {s1, s2}
    Block = {b1}
    NoTx = NoTx
    Sizes = {2}
    MaxList = 2
    Lists <- MCLists
    MemoryLimit = 2
    FinalConfirmations = 1
    Reassign = FALSE
    Item = {i1, i2, i3}
    Ttl = 2
    MaxWait = 2
    ExactClock = FALSE
    Worker = {w1, w2}
    Request = {r1, r2}
    None = None
INVARIANTS
    ItemsTypeOK
    NothingStranded
    CleanupsSpaced
    RequestsTypeOK
    NothingLost
    RunAtMostOnce
    CalledBackOnce
PROPERTIES
    HandlersEnd
    Drains
    OutcomeFinal
    EveryRequestEnds
CHECK_DEADLOCK FALSE
