SPECIFICATION MCSpec
CONSTANTS
    p1 = p1
    p2 = p2
    tier1 = tier1
    g1 = g1
    g2 = g2
    new = new
    old = old
    ancient = ancient
    c1 = c1
    c2 = c2
    w1 = w1
    w2 = w2
    Procs = {p1, p2}
    Leaves = {tier1}
    LeafOf <- OneLeafOf
    Limit <- OneLimit
    MaxEpoch = 1
    MaxGrants = 3
    Calls = {c1, c2}
    Gateways = {g1, g2}
    Profiles <- MCProfiles
    Ads <- MCAds
    Accepts <- MCAccepts
    Slots = 2
    LastEpoch = 1
CHECK_DEADLOCK FALSE
INVARIANTS GrantsSurviveCrash NullifiersUnique AccountsExact
PROPERTIES ImplementsLedger CallsEnd
