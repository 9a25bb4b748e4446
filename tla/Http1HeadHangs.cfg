SPECIFICATION FairSpec
CONSTANTS
    Methods = {"GET", "HEAD"}
    Lengths = {0, 2}
    MaxHead = 1
    ReadSize = 2
    BodylessHeaders = TRUE
    InterimStatuses = {}
    MaxLines = 4
    MaxRequests = 1
    MaxWire = 4
PROPERTIES
    ExchangeReturns
