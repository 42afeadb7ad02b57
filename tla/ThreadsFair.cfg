SPECIFICATION FairSpec
CONSTANTS
    main = main
    a = a
    b = b
    c = c
    disk = disk
    sem = sem
    lock = lock
    null = null
    Thread <- MCThread
    MainThread = main
    Semaphore <- MCDiskOnly
    Device <- MCDiskOnly
    Lock <- MCOneLock
    NULL = null
    InitialValue <- MCInitialValue
    MaxValue = 2
    MaxIO = 2
PROPERTIES
    ReadyRuns
    LockGranted
    ImplementsFairLock
CHECK_DEADLOCK FALSE
