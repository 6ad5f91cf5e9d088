CONSTANTS
    Reqs = {r1, r2}
    Loop = loop
    Kids <- MCKids
    Published <- MCPublished
    Usable <- MCUsable
    Throttle = 2
    Interval = 3
    Timeout = 1
SPECIFICATION FairSpec
INVARIANTS
    OneAttemptEach
    StableKeyKnown
PROPERTIES
    Converges
