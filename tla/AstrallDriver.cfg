CONSTANTS
    Outcomes = {"ok", "unanswered"}
    MaxQueued = 2
    Factor = 10
    Limit = 3
    MaxDelay = 1
    Gaps = {0, 1, 2, 4}
    Clocks = {1, 3, 6}
    MaxTime = 6
    Attempts = 2
    FrameSize = 3
    PipeSize = 4
SPECIFICATION MCSpec
INVARIANT WatchdogArmed
PROPERTIES DampsOnlyLyingDown StillDuringFullDown StaleCommandsStop FullDownEnds OperatorObeyed ImuStampsRight CamerasRight
