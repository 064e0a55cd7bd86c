\* Three published lists of three devices, whoever appears or disappears.
SPECIFICATION FairSpec
CONSTANTS
    a = a
    b = b
    c = c
    Device = {a, b, c}
    NoDevice = NoDevice
    MaxUpdates = 3
    MaxCommands = 1
INVARIANTS
    WindowFollowsSnapshot
PROPERTIES
    PressMeansHighlighted
    ListArrives
CHECK_DEADLOCK FALSE
