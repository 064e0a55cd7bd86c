\* Two connections, a ring of 2, six chunks: either may lag, at any moment.
SPECIFICATION PoliteSpec
CONSTANTS
    c1 = c1
    c2 = c2
    Client = {c1, c2}
    Capacity = 2
    MaxChunks = 6
INVARIANTS
    IInv
    InOrderAndWhole
PROPERTIES
    ImplementsFifo
    CatchesUp
    StopFinishes
CHECK_DEADLOCK FALSE
