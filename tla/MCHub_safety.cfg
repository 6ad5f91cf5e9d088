CONSTANTS
    Conns = {c1, c2, c3}
    MaxClients = 2
    AuthEnabled = TRUE
    MaxFrames = 3
SPECIFICATION Spec
SYMMETRY Symmetry
INVARIANTS
    CapRespected
    UpToDate
    InOrder
    NoSendOnClosed
    OnlyAuthorized
