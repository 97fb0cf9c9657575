SPECIFICATION Spec
CONSTANTS
    first = first
    second = second
    smoke = smoke
    panel = panel
    None = None
    Slots <- MCSensors
    Outlets = {}
    Lists <- MCAll
    States = {0, 1}
    Repeats = 1
    Retries = 1
    MaxLines = 3
    MaxSets = 0
    MaxListens = 2
    MaxUnpairs = 0
    MaxUnplugs = 1
    MaxGarbled = 0
INVARIANT LinesStayInOrder
PROPERTY ListenEnds
CHECK_DEADLOCK FALSE
