SPECIFICATION FairSpec
CONSTANTS
    InitSendWindow = 1
    ConnRecvMax = 2
    StreamWindow = 2
    MaxWindow = 2
    MinFrame = 1
    MaxFrame = 2
    MaxBody = 2
    MaxHeaderBlock = 1
    MaxStreamId = 1
    Bodies = {0, 2}
    PeerFrameSizes = {1}
    PeerWindows = {2}
    Increments = {1}
    DataSizes = {0, 1}
    EarlyResponse = TRUE
    Trailers = TRUE
    LaterFrameSizes = {2}
    MaxInbox = 2
    MaxSent = 2
    MaxCtl = 1
INVARIANTS
    ReceiveWindowsAgree
    OkEndsExchange
PROPERTIES
    RequestReturns
    HandshakeReturns
