SPECIFICATION FairSpec
CONSTANTS
    Methods = {"GET", "HEAD"}
    Lengths = {0, 1, 3}
    MaxHead = 1
    ReadSize = 2
    BodylessHeaders = FALSE
    InterimStatuses = {}
    MaxLines = 4
    MaxRequests = 3
    MaxWire = 6
INVARIANTS
    TypeOK
    WholeResponse
    AlignedWhenKept
PROPERTIES
    ExchangeReturns
