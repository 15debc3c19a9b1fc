\* Three messages of three shapes; data_size as in the code, answers of two headers
\* and a body up to five times as long.
CONSTANTS
    Shapes <- MCShapes
    MaxMessages = 3
    DataSize = 1024
    Headers <- MCHeaders
    Bodies = {0, 500, 5000}
    MaxHeaders = 2
SPECIFICATION ConnectionSpec
INVARIANTS RequestAsSent HandledOnce ResponseFits
CHECK_DEADLOCK FALSE
