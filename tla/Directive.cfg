\* Three threads use the API at once; every directive may fail or not.
CONSTANTS
    Start = Start
    Create = Create
    Stop = Stop
    c1 = c1
    c2 = c2
    c3 = c3
    None = None
    UNDEFINED = UNDEFINED
    SUCCESS = SUCCESS
    Type <- MCType
    Caller <- MCCallers
    Result <- MCResult
    Answers <- MCAnswers
SPECIFICATION FairSpec
INVARIANT TypeOK
INVARIANT WaitReturnsDirective
INVARIANT NoResultWithDirective
INVARIANT NoLostSignal
INVARIANT ServesTheCall
INVARIANT RightAnswer
PROPERTY CallsReturn
