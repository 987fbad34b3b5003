CONSTANTS
    Objects = {k1, k2}
    Msecs = {0, 1, 2}
    TicksPerMs = 2
    Int32Half = 32
    MaxClock = 2
    MaxRequests = 3
    None = None
SPECIFICATION Spec
INVARIANTS Covered
PROPERTIES KeysFire
CHECK_DEADLOCK FALSE
