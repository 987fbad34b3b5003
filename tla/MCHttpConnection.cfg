SPECIFICATION Spec
CONSTANTS
    Kinds = {"http", "https"}
    MaxRequests = 2
    MaxFrames = 2
    MaxUnasked = 1
    FrameSizes = {3}
    MaxEdits <- MCMaxEdits
    MaxConnects = 2
    MaxStreamId = 2
    MaxShort = 1
    MaxMedium = 2
CHECK_DEADLOCK FALSE
INVARIANTS MessagesInOrder SendsTracked
PROPERTIES ModesAgree RequestsAnswered
