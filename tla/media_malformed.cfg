\* Are malformed ranges ignored?  One that begins past the end of the file is refused.
SPECIFICATION PartsSpec
CONSTANTS
    Address = {1, 2, 3, 4}
    AddressRank <- MCRank
    Printed <- MCPrinted
    Identity = {1, 2, 3}
    Value = {1}
    UnknownName = 2
    Ttl = 0
    Sighting <- MCSighting
    Unit <- MCUnit
    MaxUnits = 3
    Connection = {c1}
    MaxSize = 3
    Header <- MCHeader
    MaxRequests = 3
    MaxBody = 2
    Text = {space, avt, text}
    Space = space
    Avt = avt
    MaxServices = 3
    MaxTexts = 1
    Reason = {r1, r2}
    MaxWidth = 5
    MaxHeight = 5
    Padding = {0, 1}
INVARIANT MalformedIsIgnored
CHECK_DEADLOCK FALSE
