SPECIFICATION MCSpec
CONSTANTS
    Conns = {c1, c2}
    Nullifiers = {n1}
    MaxConns = 2
    MaxPerNullifier = 2
    MaxBytes = 2
    MaxChunk = 2
    MaxAddrs = 2
CHECK_DEADLOCK FALSE
INVARIANTS TypeOK NothingLeaks NoOrphanUpstream
PROPERTIES BudgetNotRestored AnsweredInTime RelayEnds
