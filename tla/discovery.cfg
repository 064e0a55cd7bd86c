\* One TV on two addresses, one of them link-local, switched on and off at any moment.
SPECIFICATION FairSpec
CONSTANTS
    Address = {1, 2}
    AddressRank <- V4AndLink
    Printed <- MCPrinted
    Identity = {2, 3}
    Value = {1}
    UnknownName = 9
    Ttl = 4
    Tv = {1}
    Offers = {"name"}
    Interval = 1
    FetchMax = 1
    MaxLag = 1
    Settle = 0
INVARIANTS
    TypeOK
    PublishedIsRegistry
    StopIsBounded
PROPERTIES
    SurvivesAMissedPass
    GoneIsDropped
CHECK_DEADLOCK FALSE
