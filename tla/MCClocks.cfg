CONSTANTS
    Addrs = {a1, p1}
    Trusted = {p1}
    Limiters = {l1, l2, l3}
    None = None
    Calls = {1, 2}
    Interval = 2
    Burst = 2
    IdleAfter = 5
    SleepFor = 2
    Delay = 1
    MaxWindow = 2
    PingPeriod = 6
    PongWait = 12
    WriteTimeout = 1
    RoundTrip = 1
    Margin = 2
SYMMETRY LimiterSymmetry
SPECIFICATION ClocksSpec
INVARIANTS
    ResponsiveKept
    SilentReaped
    RateKept
    IdleAreForgotten
PROPERTIES
    NeverForgets
