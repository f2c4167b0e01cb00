CONSTANTS
    Streams = {"cloud"}
    Messages = {m1, m2, m3, m4, m5}
    Null = Null
    QueueBound = 1
    MaxFrames = 1
    MaxSamples = 1
SPECIFICATION Spec
INVARIANT CleanExit
