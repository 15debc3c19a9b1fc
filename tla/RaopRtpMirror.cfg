\* Linux, where the receive timeout works.  Blocks of three bytes; a header of two;
\* three messages, or two of the longest, in a connection.
CONSTANTS
    Block = 3
    MaxSize = 4
    MaxStream = 7
    Windows = FALSE
    Header = 2
    Kinds = {"picture", "codec", "other"}
    MaxBytes = 10
SPECIFICATION MirrorSpec
INVARIANTS MirrorThreadTypeOK KeptIsNext QuietWhenJoined
PROPERTIES ImplementsKeystream HandsOverFrames MirrorStopReturns FrameCompletes
CHECK_DEADLOCK FALSE
