SPECIFICATION Spec
CONSTANTS
    Methods = {"GET", "HEAD"}
    Lengths = {0, 1}
    MaxHead = 1
    ReadSize = 2
    BodylessHeaders = FALSE
    InterimStatuses = {}
    MaxLines = 1
    MaxRequests = 2
    MaxWire = 4
INVARIANTS
    ReuseIsSafe
