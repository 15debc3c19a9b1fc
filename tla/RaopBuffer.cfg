\* A ring of 3 entries and 12 sequence numbers.  One payload: which packet a
\* payload belongs to is checked by AudioStream, where every packet has its own.
CONSTANTS
    BufferLength = 3
    Laps = 2
    Data = {d1}
    NULL = NULL
    FREED = FREED
SPECIFICATION Spec
INVARIANTS TypeOK RingInv NeverHandsOutFreed ResendsNameTheGap
PROPERTIES NeverOverwrites ImplementsWindow
CHECK_DEADLOCK FALSE
