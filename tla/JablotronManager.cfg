SPECIFICATION Spec
CONSTANTS
    first = first
    second = second
    smoke = smoke
    panel = panel
    None = None
    Slots <- MCOutlets
    Outlets = {first, second}
    Lists <- MCSecond
    States = {0, 1}
    Repeats = 2
    Retries = 2
    MaxLines = 0
    MaxSets = 1
    MaxListens = 0
    MaxUnpairs = 1
    MaxUnplugs = 1
    MaxGarbled = 1
INVARIANT OutletsAreSet
CHECK_DEADLOCK FALSE
