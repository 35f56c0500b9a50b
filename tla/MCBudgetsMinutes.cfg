SPECIFICATION Spec
CONSTANTS
    Images = 2
    Children <- MCChildren
    Starts <- MCStarts
    HeaderTimeout = 2
    ProbeTimeout = 3
    WarmTimeout = 60
    ScanTimeout = 90
    ActiveDeadline = 120
    Attempts = 5
PROPERTIES
    WarmMayTakeMinutes
CHECK_DEADLOCK FALSE
