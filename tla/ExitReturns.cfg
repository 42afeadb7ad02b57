SPECIFICATION Spec
CONSTANTS
    main = main
    a = a
    b = b
    null = null
    Proc <- MCProc
    Main = main
    NULL = null
    MAXPROCESS = 3
    ExitCode <- MCExitCode
INVARIANT UniqueSpaceId
CHECK_DEADLOCK FALSE
