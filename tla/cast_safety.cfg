\* Two presses, two renderers, one late request: every interleaving.
SPECIFICATION Spec
CONSTANTS
    d1 = d1
    d2 = d2
    Device = {d1, d2}
    NoDevice = NoDevice
    MaxCasts = 2
    QueueCap = 1
    MaxLate = 1
SYMMETRY DeviceSymmetry
INVARIANTS
    IInv
    OneCastAtATime
    CastingIsLive
    OrphanNeedsFault
CHECK_DEADLOCK FALSE
