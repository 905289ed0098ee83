SPECIFICATION Spec
CONSTANTS
    Resource = {r1, r2}
    Store = store
    None = none
    Path = {a, b}
    MaxId = 3
    MaxOpen = 1
    MaxPut = 2
    MaxHandler = 1
SYMMETRY MCSymmetry
CHECK_DEADLOCK FALSE
INVARIANTS RegistryHonest InitializedWhenOpen
