SPECIFICATION Spec
CONSTANTS
    atStart = atStart
    afterListen = afterListen
    lastValue = lastValue
    d1 = d1
    on = on
    off = off
    None = None
    Lists = {atStart, afterListen}
    LastValues = {lastValue}
    OfMain = {atStart, lastValue}
    Devices = {d1}
    Values = {on, off}
    Zero = off
INVARIANTS TypeOK DirtyIsRecorded OneResponse
PROPERTIES ImplementsQueries RequestsAreAnswered
CHECK_DEADLOCK FALSE
