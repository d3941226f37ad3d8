\* A descriptor number is used again: whose bytes a user reads.
CONSTANTS
    Asock <- MCThreeAsocks
    FD <- MCMoreFD
    Free = Free
    Listening = Listening
    ListenFd = 0
    MaxOut = 0
    MaxConnects = 0
    Stops = FALSE
SPECIFICATION Spec
CHECK_DEADLOCK FALSE
INVARIANT ReadsItsOwn
