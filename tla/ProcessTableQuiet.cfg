SPECIFICATION FairQuietSpec
CONSTANTS
    main = main
    a = a
    b = b
    null = null
    Proc <- MCProc
    Main = main
    NULL = null
    MAXPROCESS = 3
    ExitCode <- MCExitCode
INVARIANTS
    UniqueProcessID
    SlotAccounting
    JoinSeesExit
    ExitKeepsPCB
PROPERTY ExitCompletes
CHECK_DEADLOCK FALSE
