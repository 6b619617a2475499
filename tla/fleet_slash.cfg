SPECIFICATION FleetSpec
CONSTANTS
    g1 = g1
    g2 = g2
    n1 = n1
    n2 = n2
    Gateways = {g1, g2}
    Nullifiers = {n1}
    EpochOf <- OneEpochOf
    EpochLen = 2
    Skew <- NoSkew
    MaxPerEpoch = 1
    MaxBuckets = 2
    MaxTotal = 1
    MaxPerPeer = 1
    MaxInFlight = 1
    Conns = {c1, c2}
    Signals = {x1, x2}
    ReplayWindow = 0
    UseTally = TRUE
    MaxTime = 3
    MaxEnvelopes = 3
INVARIANTS OverSpendSlashed
