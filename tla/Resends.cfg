CONSTANTS
    BufferLength = 3
    Laps = 3
    Packets = 6
    Data <- MCData
    NULL = NULL
    FREED = FREED
    FirstSeqnum = 15
    MaxDelay = 4
    MaxOutage = 3
    Volumes = {0}
    FlushRequests = {}
    Kinds = {}
    ControlPorts = {0, 1}
SPECIFICATION StreamSpec
PROPERTIES GapsAreAskedFor
CHECK_DEADLOCK FALSE
