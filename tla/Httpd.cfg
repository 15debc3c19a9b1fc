\* Four connections at most.
CONSTANT max_connections = 4
SPECIFICATION Spec
INVARIANTS HttpdTypeOK ConnectionsAccounted RoomWhenAccepting QuietWhenFreed
PROPERTIES SignalEndsProgram
CHECK_DEADLOCK FALSE
