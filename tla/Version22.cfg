SPECIFICATION LinkSpec
CONSTANTS
    Scenarios <- Version22
    MaxSends = 2
INVARIANTS
    SupportedStaysOpen
CHECK_DEADLOCK FALSE
