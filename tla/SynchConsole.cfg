SPECIFICATION FairSpec
CONSTANTS
    a = a
    b = b
    x = x
    null = null
    Thread <- MCThread
    Data <- MCData
    NULL = null
    MaxBytes = 2
    MaxUnits = 2
INVARIANTS
    TypeOK
    OnePutAtATime
    LinesWhole
    InputInOrder
    BufferedIsAnnounced
PROPERTIES
    WriteEnds
    ByteIsRead
CHECK_DEADLOCK FALSE
