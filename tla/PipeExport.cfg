SPECIFICATION Spec
CONSTANTS
    sensor1 = sensor1
    sensor2 = sensor2
    broker = broker
    None = None
    Exports = {sensor1, sensor2, broker}
    Length = 3
    PipeBuf = 2
    Capacity = 4
    Attempts = 3
INVARIANTS TypeOK DescriptorIsReleased RecordsStayTogether
PROPERTIES ImplementsLog EveryExportEnds
CHECK_DEADLOCK FALSE
