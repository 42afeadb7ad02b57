SPECIFICATION Spec
CONSTANTS
    main = main
    a = a
    b = b
    c = c
    disk = disk
    sem = sem
    lock = lock
    null = null
    Thread <- MCFour
    MainThread = main
    Semaphore <- MCDiskSem
    Device <- MCDiskOnly
    Lock <- MCOneLock
    NULL = null
    InitialValue <- MCInitialValue
    MaxValue = 2
    MaxIO = 2
SYMMETRY MCForked
INVARIANTS
    TypeOK
    ThreadPlacement
    CarcassUnreachable
    MutualExclusion
    LockHandoff
    NoLostWakeup
    HaltOnlyWhenStuck
PROPERTIES
    ReadyFIFO
    ImplementsFifoLock
CHECK_DEADLOCK FALSE
