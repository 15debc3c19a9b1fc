\* The smallest ring (one entry, four sequence numbers), one payload, two volumes,
\* a flush with a position (a volume change alone flushes without), both ports.
CONSTANTS
    BufferLength = 1
    Laps = 2
    Data = {d1}
    NULL = NULL
    FREED = FREED
    Volumes <- MCVolumes
    FlushRequests = {2}
    Kinds = {metadata}
    ControlPorts = {0, 1}
SPECIFICATION RtpSpec
CHECK_DEADLOCK FALSE
INVARIANTS StopRestoresInitialState
