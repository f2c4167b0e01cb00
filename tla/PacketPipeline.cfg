CONSTANTS
    Buffers = {b1, b2, b3, b4, b5, b6, b7, b8, b9, b10}
    Null = Null
    Capacity = 3
    FreeBound = 2
    MaxBatch = 2
    PoolSize = 2
    MaxPackets = 3
    MaxSessions = 2
    Recording <- MCRecording
    MaxPasses = 3
    Datagrams <- MCDatagrams
SPECIFICATION MCSpec
INVARIANT ExclusiveBuffers
PROPERTIES HandledInOrder StopReturns EventuallyDecoded SocketsRight RecordingRight
