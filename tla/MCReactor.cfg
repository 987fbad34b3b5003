CONSTANTS
    Handles = {f1, f2}
    Conns = {c1, c2}
    Threads = {t1}
    Loop = loop
    Owner = main
    Null = Null
    PipeRead = 2
    LocalCalls = {"register_writable", "set_timeout", "remove"}
    RemoteCalls = {"remove"}
    LateWrites = FALSE
    OwnerStops = FALSE
    MaxCalls = 2
SYMMETRY Symmetric
SPECIFICATION Spec
CHECK_DEADLOCK FALSE
INVARIANTS StateIsTrue WatchedWhileAsleep EventsReachTheirOwner
PROPERTIES CallbacksInOrder RemoveWriteClears
