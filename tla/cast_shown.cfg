\* The window offers Stop while a cast runs?  A stale clear_casting hides it.
SPECIFICATION Spec
CONSTANTS
    d1 = d1
    Device = {d1}
    NoDevice = NoDevice
    MaxCasts = 2
    QueueCap = 1
    MaxLate = 0
INVARIANT RunningCastIsShown
CHECK_DEADLOCK FALSE
