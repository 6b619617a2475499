SPECIFICATION MCSpec
CONSTANTS
    a = a
    b = b
    alice = alice
    bob = bob
    nobody = nobody
    Commitments = {a, b, Blank}
    Zero = Zero
    Blank = Blank
    Tiers = {1, 2}
    BondOf <- MCBondOf
    TierOf <- MCTierOf
    Unbonding = 1
    Capacity = 3
    Addresses = {alice, bob}
    NoAddress = nobody
    Depth = 2
    PaidCapacity = 4
    Batches <- MCBatches
    MaxDepth = 2
    MaxTime = 4
    Operators = {alice, bob}
    Bond = 2
    UnbondingTime = 1
    MaxStakes = 3
    MaxCalls = 2
    EndOfTime = 2
CHECK_DEADLOCK FALSE
INVARIANTS Solvent AdmissionExact TreeIsReplay PaidRootExact RegistryExact
PROPERTIES TreeImplemented PaidTreeImplemented CommandHonest
