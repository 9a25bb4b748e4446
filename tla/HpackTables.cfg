SPECIFICATION Spec
CONSTANTS
    Fields <- MCFields
    Weight <- MCWeight
    RequestLists <- MCRequestLists
    ResponseLists <- MCResponseLists
    TableSize = 110
    MAX_TABLE_SIZE_CAP = 110
    ServerLimits <- MCServerLimits
    Updates = {80}
    Garbage = Garbage
    MaxRequests = 2
    MaxBlocks = 3
INVARIANTS
    TypeOK
    IndicesAgree
    RefusedOnlyWhenFull
PROPERTIES
    RequestsArrive
    ResponsesArrive
