SPECIFICATION DebugSpec
CONSTANTS
    Browsers = {b1}
    Viewers = {v1}
    CodeLines = {1, 2}
    BreakLines = {{}, {1}}
    FrameNames = {f}
    MaxDebugDepth = 2
    MaxInstructions = 3
    MaxControls = 3
    EventCapacity = 10
    NotSet = NotSet
INVARIANTS LateViewersSeePause
CHECK_DEADLOCK FALSE
