SPECIFICATION LiveSpec
CONSTANTS
    PingPeriod = 5
    WriteTimeout = 2
    Grace = 1
    MaxWrite = 1
    MaxPong = 1
    MaxEvents = 2
    MaxErrors = 1
INVARIANTS
    LivePeerStays
    WebSocketInv
    NothingLeftBehind
    NoGap
PROPERTIES
    SessionServes
