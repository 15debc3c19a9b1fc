\* Both platforms: a ring of three samples, two delays and two offsets.
CONSTANTS
    DataCount = 3
    Samples <- MCSamples
    MaxDisp = 9
SPECIFICATION Spec
INVARIANTS NtpTypeOK OffsetOfLeastDelayed JoinedIsQuiet
PROPERTIES NtpStopReturns ReceiveReturns
CHECK_DEADLOCK FALSE
