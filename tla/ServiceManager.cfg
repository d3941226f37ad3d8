\* Two threads create and connect asocks in two namespaces, of which the table
\* has room for two; the library is left and initialised again.
CONSTANTS
    t1 = t1
    t2 = t2
    host = host
    other = other
    v1 = v1
    v2 = v2
    v3 = v3
    Thread <- MCThread
    NetNs <- MCNetNs
    Service <- MCService
    NoName = NoName
    Dangling = Dangling
    NoService = NoService
    MaxServices = 2
SPECIFICATION Spec
CHECK_DEADLOCK FALSE
SYMMETRY MCSymmetry
INVARIANT PendingNameHasWorker
INVARIANT GivenIsAlive
INVARIANT RightNamespace
PROPERTY NothingLost
