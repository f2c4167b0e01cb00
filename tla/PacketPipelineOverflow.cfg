CONSTANTS
    Buffers = {b1, b2, b3, b4, b5, b6, b7, b8}
    Null = Null
    Capacity = 3
    FreeBound = 2
    MaxBatch = 2
    PoolSize = 1
    MaxPackets = 5
    MaxSessions = 1
SPECIFICATION Spec
PROPERTY OverflowOnlyDiscards
