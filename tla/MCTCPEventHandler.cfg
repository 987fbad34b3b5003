CONSTANTS
    Sizes = {0, 2}
    MaxSends = 3
SPECIFICATION Spec
CHECK_DEADLOCK FALSE
INVARIANTS StreamInStep
PROPERTIES ImplementsPipe EverySendReported OutputEventAnswered
