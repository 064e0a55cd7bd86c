\* Liveness of teardown and start: one renderer, two presses, a channel of 2.
SPECIFICATION FairSpec
CONSTANTS
    d1 = d1
    Device = {d1}
    NoDevice = NoDevice
    MaxCasts = 2
    QueueCap = 2
    MaxLate = 1
PROPERTIES
    StopReleases
    PressAnswered
CHECK_DEADLOCK FALSE
