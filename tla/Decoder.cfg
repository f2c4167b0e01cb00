CONSTANTS
    Models = {"RS16", "RS32", "RSBP_V4", "RS48", "RS80", "RS128", "RSP80V", "RSP128",
              "RSHELIOS_16P", "RSAIRY_48", "RSAIRY_96", "RSFAIRY_48", "RSFAIRY_96",
              "RSM1", "RSM2", "RSEMX"}
    Speeds = {10, 20}
    Fields <- McFields
    SplitAngle = 0
    Settings <- McSettings
    PacketsPerFrame = 24
    MaxFrames = 3
    MaxLost = 2
    Lossless = {"RSM1"}
SPECIFICATION MCSpec
INVARIANTS CloudIsOneFrame FrameIsOneCloud BlockTimesRight PointsInOrder StampOfOwnPoint LayoutRight
CHECK_DEADLOCK FALSE
