SPECIFICATION RoomySpec
CONSTANTS
    Conns = {c1}
    Nullifiers = {n1}
    MaxConns = 1
    MaxPerNullifier = 1
    MaxBytes = 2
    MaxChunk = 2
    MaxAddrs = 2
CHECK_DEADLOCK FALSE
PROPERTIES TunnelEnds
