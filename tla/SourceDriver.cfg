CONSTANTS
    Streams = {"cloud", "imu"}
    Messages = {m1, m2, m3, m4, m5, m6, m7, m8, m9, m10, m11, m12, m13}
    Null = Null
    QueueBound = 2
    MaxFrames = 4
    MaxSamples = 1
SPECIFICATION FairSpec
INVARIANTS MessagesRight
PROPERTIES PublishedInOrder EventuallyPublished StopEnds
