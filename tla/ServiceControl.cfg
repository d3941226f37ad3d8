\* Three threads use a service, in any order and at once; one creates and destroys it.
\* It may stop: after destroy, after a crash, or with all threads waiting.
CONSTANTS
    main = main
    second = second
    third = third
    Creator = main
    Caller <- MCCallers
    None = None
    UNDEFINED = UNDEFINED
    SUCCESS = SUCCESS
    FAILURE = FAILURE
    BADSTATE = BADSTATE
SPECIFICATION FairSpec
CHECK_DEADLOCK FALSE
INVARIANT StatusTruthful
INVARIANT JoinedOnce
INVARIANT NeverCrashes
INVARIANT FreedAfterExit
INVARIANT SuccessIsReal
PROPERTY ImplementsDirective
PROPERTY CallsReturn
