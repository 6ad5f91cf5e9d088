CONSTANTS
    Configs <- DocConfigs
    Swarms <- DocSwarms
    Slices = {s1, s2}
    Specs = {c1, c2}
SPECIFICATION DocsSpec
INVARIANTS
    HidesClearsOrKeeps
SYMMETRY AnyPlace
