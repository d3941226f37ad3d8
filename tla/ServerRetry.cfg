\* One thread tries bind and listen again until they succeed, as test_server.cpp does.
CONSTANTS
    main = main
    second = second
    third = third
    Creator = main
    Caller <- MCOneCaller
    None = None
    UNDEFINED = UNDEFINED
    SUCCESS = SUCCESS
    FAILURE = FAILURE
    BADSTATE = BADSTATE
SPECIFICATION FairSpec
CHECK_DEADLOCK FALSE
PROPERTY RetryReturns
