SPECIFICATION MCSpec
CONSTANTS
    g1 = g1
    g2 = g2
    n1 = n1
    n2 = n2
    Gateways = {g1, g2}
    Nullifiers = {n1, n2}
    EpochOf <- TwoEpochOf
    EpochLen = 2
    Skew <- SomeSkew
    MaxPerEpoch = 1
    MaxBuckets = 2
    MaxTotal = 1
    MaxPerPeer = 1
    MaxInFlight = 2
    Conns = {c1, c2}
    Signals = {"x1", "x2"}
    ReplayWindow = 1
    UseTally = TRUE
    MaxTime = 5
    MaxEnvelopes = 3
INVARIANTS OneSignalPerSlot RetriesInWindow OverSpendSlashed SlashedOnce TallyBounded FleetEvidenceReal
