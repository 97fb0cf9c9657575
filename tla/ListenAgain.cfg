SPECIFICATION Spec
CONSTANTS
    sensor = sensor
    reading = reading
    Devices = {sensor}
    Values = {reading}
    MaxListens = 2
    MaxUnpairs = 0
PROPERTY ListenEnds
CHECK_DEADLOCK FALSE
