CONSTANTS
    Conns = {c1, c2}
    MaxClients = 2
    AuthEnabled = TRUE
    MaxFrames = 3
SPECIFICATION FairSpec
PROPERTIES
    FrameFannedOut
    SlotFreed
    NoLeak
    FeedSpec
