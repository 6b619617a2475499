SPECIFICATION RelaySpec
CONSTANTS
    MaxRate = 3
    MaxInterval = 3
    Retention = 4
    Delay = 2
    Hour = 1
    Transit = 1
    MaxTime = 6
    MaxBytes = 2
    MaxBoots = 2
    MaxRestarts = 1
CHECK_DEADLOCK FALSE
INVARIANTS RetryAcceptable
