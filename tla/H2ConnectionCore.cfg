SPECIFICATION Spec
CONSTANTS
    InitSendWindow = 2
    ConnRecvMax = 4
    StreamWindow = 3
    MaxWindow = 3
    MinFrame = 1
    MaxFrame = 2
    MaxBody = 4
    MaxHeaderBlock = 2
    MaxStreamId = 3
    Bodies = {0, 3}
    PeerFrameSizes = {2, 3}
    PeerWindows = {3}
    Increments = {1, 2}
    DataSizes = {0, 1, 2}
    EarlyResponse = FALSE
    Trailers = FALSE
    LaterFrameSizes = {}
    MaxInbox = 2
    MaxSent = 5
    MaxCtl = 2
INVARIANTS
    TypeOK
    ReceiveWindowsAgree
    NoReceiveStall
    UploadWithinCredit
    OkIsWhole
    PingsAnswered
PROPERTIES
    NoStreamBeyondGoAway
    UploadFitsFrame
