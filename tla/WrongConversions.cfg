SPECIFICATION LinkSpec
CONSTANTS
    Scenarios <- WrongConversions
    MaxSends = 2
INVARIANTS
    AllArrive
CHECK_DEADLOCK FALSE
