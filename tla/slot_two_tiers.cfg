SPECIFICATION Spec
CONSTANTS
    p1 = p1
    p2 = p2
    tier1 = tier1
    tier2 = tier2
    Procs = {p1, p2}
    Leaves = {tier1, tier2}
    LeafOf <- TwoLeafOf
    Limit <- TwoLimit
    MaxEpoch = 1
    MaxGrants = 2
INVARIANTS NullifiersDistinct
