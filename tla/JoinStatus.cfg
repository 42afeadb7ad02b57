SPECIFICATION QuietSpec
CONSTANTS
    main = main
    a = a
    b = b
    null = null
    Proc <- MCProc
    Main = main
    NULL = null
    MAXPROCESS = 3
    ExitCode <- MCExitCode
PROPERTY JoinReturnsStatus
CHECK_DEADLOCK FALSE
