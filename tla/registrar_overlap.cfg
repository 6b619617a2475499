SPECIFICATION RegistrarSpec
CONSTANTS
    a1 = a1
    a2 = a2
    c1 = c1
    h1 = h1
    h2 = h2
    Auths = {a1}
    For <- MCFor
    Commitments = {c1}
    TierOf <- MCTierOf
    Tiers = {1}
    Zero = Zero
    Blank = Blank
    Depth = 1
    Addresses = {wallet, other}
    Wallet = wallet
    NoAddress = none
    Handlers = {h1, h2}
    Boot = boot
    Overlap = TRUE
    Confirmations = 2
    ReorgDepth = 1
    MaxInflight = 2
    MaxTxs = 3
    MaxBlocks = 4
    MaxFaults = 0
CHECK_DEADLOCK FALSE
INVARIANT PaidIsServed
