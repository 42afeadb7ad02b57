SPECIFICATION Spec
CONSTANTS
    main = main
    a = a
    b = b
    null = null
    Proc <- MCProc
    Main = main
    NULL = null
    MAXPROCESS = 3
    ExitCode <- MCExitCode
SYMMETRY MCChildren
INVARIANTS
    TypeOK
    OneLoader
    MarkedIsLive
CHECK_DEADLOCK FALSE
