SPECIFICATION Spec
CONSTANTS
    Transports = {"tcp"}
    Sends <- MCSends
    MaxConnects = 2
    MaxQueue <- MCMaxQueue
CHECK_DEADLOCK FALSE
PROPERTIES HangupNoticed
