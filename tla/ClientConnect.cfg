SPECIFICATION FairConnectSpec
CONSTANTS
    Calls = {c1}
    Origins = {o1, o2}
    Methods = {"POST"}
    Conns = {k1, k2, k3}
    NoConn = NoConn
    MaxRedirects = 2
    LibraryGroups <- MCLibraryGroups
    LibrarySigalgs <- MCLibrarySigalgs
    Configs <- MCConfigs
    NoProxy = NoProxy
    Answers <- MCAnswers
    MAX_RESPONSE_HEADER_BYTES = 5
INVARIANTS
    ConnectType
    NothingSwallowed
    LeadsToOrigin
    MethodKept
PROPERTIES
    SendReturns
    ClientImplemented
