CONSTANTS
    MaxChanges = 2
    Content <- MCContent
    Orders = {1, 2}
SPECIFICATION FairSpec
INVARIANTS
    NetworksNotOlder
    NeverPartial
PROPERTIES
    NoRepeat
    Fresh
