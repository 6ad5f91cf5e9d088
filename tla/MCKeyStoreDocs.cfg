CONSTANTS
    Reqs = {r1, r2}
    Loop = loop
    Kids <- MCKids
    Published <- MCPublished
    Usable <- MCKids
    Throttle = 2
    Interval = 3
    Timeout = 1
SPECIFICATION DocsSpec
INVARIANTS
    ThrottledOrRotated
