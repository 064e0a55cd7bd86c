SPECIFICATION FairSpec
CONSTANTS
    Capacity = 1
    MaxFrames = 3
    Steps <- MCSteps
    Depth = 2
INVARIANTS
    CliInv
    NothingIsLost
    StampsFollowTheClock
    ExitLeavesNothing
PROPERTIES
    CaptureEndStops
    CtrlCStops
CHECK_DEADLOCK FALSE
