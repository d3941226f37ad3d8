\* Three connections that are accepted, used and destroyed; the server may stop.
\* Three descriptors, one for listening: the number of a closed connection is
\* soon used again.  After the server has stopped nothing may be left to do.
CONSTANTS
    Asock <- MCThreeAsocks
    FD <- MCFD
    Free = Free
    Listening = Listening
    ListenFd = 0
    MaxOut = 1
    MaxConnects = 0
    Stops = TRUE
SPECIFICATION FairSpec
CHECK_DEADLOCK FALSE
INVARIANT HeldIsLive
INVARIANT LiveIsReachable
PROPERTY OwnSocket
PROPERTY OwnBytes
PROPERTY DestroyedIsFreed
