CONSTANTS
    M = 8
    W = 3
    MaxSent = 10
SPECIFICATION Spec
INVARIANTS
    WindowExact
    AcceptsExactlyTheFresh
PROPERTY ImplementsChannel
CHECK_DEADLOCK FALSE
