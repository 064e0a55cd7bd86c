\* Two TVs that exchange addresses.
SPECIFICATION Spec
CONSTANTS
    Address = {1, 2}
    AddressRank <- BothV6
    Printed <- MCPrinted
    Identity = {2, 3, 4, 5}
    Value = {1, 2}
    UnknownName = 9
    Ttl = 2
    Tv = {1, 2}
    Offers = {}
    Interval = 1
    FetchMax = 0
    MaxLag = 0
    Settle = 3
INVARIANT DistinctTvsStayApart
CHECK_DEADLOCK FALSE
