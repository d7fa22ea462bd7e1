CONSTANTS
    d1 = d1
    d2 = d2
    d3 = d3
    Procs <- MCProcs
    MaxReuse = 1
SPECIFICATION Spec
CHECK_DEADLOCK FALSE
INVARIANT SlotIsClaimedOnce
