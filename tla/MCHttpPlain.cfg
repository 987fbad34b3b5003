SPECIFICATION Spec
CONSTANTS
    Kinds = {"http"}
    MaxRequests = 2
    MaxFrames = 0
    MaxUnasked = 0
    FrameSizes = {0}
    MaxEdits <- MCMaxEdits
    MaxConnects = 1
    MaxStreamId = 2
    MaxShort = 1
    MaxMedium = 2
PROPERTIES PlainRequestsAnswered
CHECK_DEADLOCK FALSE
