SPECIFICATION Spec
CONSTANTS
    Transports = {"tcp", "tls"}
    Sends <- MCSends
    MaxConnects = 2
    MaxQueue <- MCMaxQueue
CHECK_DEADLOCK FALSE
INVARIANTS SocketKnown NoCrossTalk
PROPERTIES ImplementsSession ConnectAnswered SendsReported
