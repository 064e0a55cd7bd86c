\* Does a press mean the row that was clicked?  The list moves under the row.
SPECIFICATION Spec
CONSTANTS
    a = a
    b = b
    Device = {a, b}
    NoDevice = NoDevice
    MaxUpdates = 2
    MaxCommands = 1
INVARIANT PressMeansPicked
CHECK_DEADLOCK FALSE
