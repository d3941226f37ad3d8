\* A user accepts and destroys at once.
CONSTANTS
    Asock <- MCAsock
    FD <- MCMoreFD
    Free = Free
    Listening = Listening
    ListenFd = 0
    MaxOut = 0
    MaxConnects = 0
    Stops = FALSE
SPECIFICATION Spec
CHECK_DEADLOCK FALSE
INVARIANT DestroyedUnshared
