SPECIFICATION MCSpec
CONSTANTS
    o1 = o1
    o2 = o2
    a1 = a1
    a2 = a2
    leaf = leaf
    Onions = {o1}
    Operators = {s1}
    NoOperator = none
    Bond = 1
    UnbondingTime = 1
    RequireStake = TRUE
    Storing = FALSE
    Ttl = 2
    Skew = 1
    MinReannounce = 1
    MaxEntries = 1
    Rate = 1
    Burst = 1
    CacheTime = 1
    Patience = 1
    Lag = 1
    Ahead = 0
    Workers = {w1}
    Pulls = {f1}
    MaxTime = 4
    MaxRecords = 2
    MaxStakes = 1
    MaxCrashes = 1
    MaxAge = 2
    MaxIssued = 4
    MaxSessions = 2
    Commitments = {leaf}
    Zero = Zero
    Blank = Blank
    TierOf <- MCTierOf
    Tiers = {1}
    Depth = 1
    Addresses = {wallet, other}
    NoAddress = nobody
    Wallet = wallet
    Auths = {a1, a2}
    For <- MCFor
    Handlers = {h1}
    Boot = boot
    Overlap = FALSE
    Confirmations = 2
    ReorgDepth = 1
    MaxInflight = 2
    MaxTxs = 3
    MaxBlocks = 4
    MaxFaults = 1
CHECK_DEADLOCK FALSE
INVARIANTS StaysListed ListingBounded ListedWhileStaked BytesCountedOnce RotationFair PaidIsServed OneLeafPerPayment
PROPERTIES DeltaRebuilds PublicationStable FreshNeverBehind PaidStaysPaid
