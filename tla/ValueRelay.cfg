SPECIFICATION RelaySpec
CONSTANTS
    DeviceStates <- MCDevices
    Texts <- MCTexts
    Lines <- MCLines
    Settings <- MCSettings
    Others <- MCOthers
    MaxInFlight = 2
INVARIANTS DecodedAsSent SetThenReported ExportFollowsDevice ReportsAreUnambiguous
CHECK_DEADLOCK FALSE
