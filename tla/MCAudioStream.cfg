CONSTANTS
    BufferLength = 2
    Laps = 3
    Packets = 14
    Data <- MCData
    NULL = NULL
    FREED = FREED
    FirstSeqnum = 9
    MaxDelay = 3
    MaxOutage = 2
    Volumes = {0}
    FlushRequests = {}
    Kinds = {}
    ControlPorts = {0, 1}
SPECIFICATION StreamSpec
INVARIANTS OneLap
PROPERTIES PlayedInOrder
CHECK_DEADLOCK FALSE
