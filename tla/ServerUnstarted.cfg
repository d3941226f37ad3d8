\* One thread destroys a server that never listened, as test_server.cpp does.
CONSTANTS
    main = main
    second = second
    third = third
    Creator = main
    Caller <- MCOneCaller
    None = None
    UNDEFINED = UNDEFINED
    SUCCESS = SUCCESS
    FAILURE = FAILURE
    BADSTATE = BADSTATE
SPECIFICATION Spec
CHECK_DEADLOCK FALSE
INVARIANT UnusedAfterFree
