CONSTANTS
    Models = {"RSM1"}
    Speeds = {10}
    Fields <- McFields
    SplitAngle = 0
    Settings <- McShippedOnly
    PacketsPerFrame = 24
    MaxFrames = 3
    MaxLost = 2
    Lossless = {}
SPECIFICATION MCSpec
INVARIANT FrameIsOneCloud
CHECK_DEADLOCK FALSE
