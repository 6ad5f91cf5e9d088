CONSTANTS
    Browsers = {b1, b2}
    Calls = {1, 2}
    MaxLogins = 2
    IssuerKnown = FALSE
SPECIFICATION FairSpec
INVARIANTS
    SessionOwn
    ExchangeOwn
    NoReplay
    OnlyOverlapRefuses
PROPERTIES
    Answered
