SPECIFICATION Spec
CONSTANTS
    sensor = sensor
    reading = reading
    Devices = {sensor}
    Values = {reading}
    MaxListens = 1
    MaxUnpairs = 2
INVARIANT MapFollowsNetwork
PROPERTIES ListenEnds ControllerIsReleased StartUpEnds
CHECK_DEADLOCK FALSE
