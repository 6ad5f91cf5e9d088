CONSTANTS
    PingPeriod = 6
    PongWait = 12
    WriteTimeout = 1
    RoundTrip = 1
    Margin = 2
SPECIFICATION KeepaliveSpec
INVARIANTS
    PingsKeepAlive
