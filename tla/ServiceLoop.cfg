\* Two asocks that are created, connected, used and destroyed; the service may stop.
\* Four descriptors: the number of a closed connection is soon used again.
\* After the service has stopped nothing may be left to do.
CONSTANTS
    Asock <- MCAsock
    FD <- MCFD
    Free = Free
    MaxOut = 1
    MaxConnects = 1
    Stops = TRUE
SPECIFICATION FairSpec
CHECK_DEADLOCK FALSE
INVARIANT HeldIsLive
INVARIANT FreedIsClosed
PROPERTY RefsCounted
PROPERTY OwnSocket
PROPERTY StateDiagram
PROPERTY DestroyedIsFreed
PROPERTY ConnectSettles
