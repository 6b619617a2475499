SPECIFICATION SingleSpec
CONSTANTS
    s1 = s1
    s2 = s2
    Sources = {s1}
    NoRoot = NoRoot
    None = None
    Kinds = {"node"}
    HasStatic = TRUE
    F = 2
    Poll = 1
    Latencies = {0}
    MaxTime = 16
    MaxChanges = 1
CHECK_DEADLOCK FALSE
INVARIANTS AcceptedBounded
