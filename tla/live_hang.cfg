\* stop() while a renderer keeps its connection open.
SPECIFICATION FairSpec
CONSTANTS
    c1 = c1
    Client = {c1}
    Capacity = 1
    MaxChunks = 2
PROPERTY StopFinishes
CHECK_DEADLOCK FALSE
