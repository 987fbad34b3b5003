CONSTANTS
    Handles = {f1}
    Conns = {c1, c2}
    Threads = {t1}
    Loop = loop
    Owner = main
    Null = Null
    PipeRead = 2
    LocalCalls = {"register_writable", "set_timeout", "unset_timeout", "remove"}
    RemoteCalls = {"set_timeout", "remove"}
    LateWrites = FALSE
    OwnerStops = TRUE
    MaxCalls = 1
SPECIFICATION Spec
CHECK_DEADLOCK FALSE
PROPERTIES RequestsTakeEffect HangupReported
