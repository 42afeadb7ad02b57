SPECIFICATION FairQuietSpec
CONSTANTS
    main = main
    a = a
    b = b
    null = null
    Proc <- MCProc
    Main = main
    NULL = null
    MAXPROCESS = 3
    ExitCode <- MCExitCode
PROPERTY ChildMayEnd
CHECK_DEADLOCK FALSE
