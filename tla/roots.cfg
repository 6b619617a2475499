SPECIFICATION MCSpec
CONSTANTS
    s1 = s1
    s2 = s2
    Sources = {s1}
    NoRoot = NoRoot
    None = None
    Kinds = {"node", "light"}
    HasStatic = FALSE
    F = 2
    Poll = 1
    Latencies = {0, 1}
    MaxTime = 7
    MaxChanges = 2
CHECK_DEADLOCK FALSE
INVARIANTS UnionBounded EitherFailsClosed EitherCatchesUp SingleRecentAccepted
