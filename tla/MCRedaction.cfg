CONSTANTS
    Configs <- MCConfigs
    Swarms <- MCSwarms
    Slices = {s1, s2}
    Specs = {c1, c2, c3}
SPECIFICATION Spec
INVARIANTS
    PublishedKept
    ClearsExactly
    HiddenInServices
SYMMETRY AnyPlace
