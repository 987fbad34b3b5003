CONSTANTS
    Objects = {h1, h2}
    Msecs = {0, 1, 2}
    TicksPerMs = 2
    Int32Half = 32
    MaxClock = 2
    MaxRequests = 2
SPECIFICATION Spec
INVARIANTS TimerInv WakesInTime OneTime
PROPERTIES ImplementsService LessThanOneMsEarly TimersFire
