CONSTANTS
    Handles = {f1}
    Conns = {c1}
    Threads = {main, t1}
    Raisers = {t1, loop}
    Loop = loop
    Owner = main
    Null = Null
    PipeRead = 1
    Kinds = {"REGISTER_ALL", "REGISTER_ERROR", "REMOVE_READ", "REMOVE_ERROR"}
    MaxRaised = 2
    EarlyOwner = FALSE
SPECIFICATION Spec
INVARIANTS InOrder MapMatchesKernel
PROPERTIES EveryEventReturned
CHECK_DEADLOCK FALSE
