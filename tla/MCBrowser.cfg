SPECIFICATION FairSpec
CONSTANTS
    Networks = {n1}
    Nodes = {}
    Services = {}
    Standalone = Standalone
    Retries = 2
    MaxFaults = 3
    Second = 1
    MaxInterval = 6
    MaxAttempts = 3
    NavTimes = {1, 3}
    MaxWire = 2
INVARIANTS OneLine SelectionKept
PROPERTIES RetryPace ServingIsHealthy NavigationPace LoginReached CatchesUp
