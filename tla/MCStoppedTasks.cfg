CONSTANTS
    Tasks <- MCTasks
    SlotOf <- MCSlotOf
    Created <- MCCreated
    Grace = 3
SPECIFICATION FairTasksSpec
INVARIANTS
    NoDuplicates
PROPERTIES
    RecentStopShown
    NoEarlyDrop
    Expires
