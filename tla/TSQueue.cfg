\* Growth 1 -> 2 -> 4 and 1 -> 4, batches that wrap, realloc that fails.
CONSTANTS
    a = a
    b = b
    user = user
    service = service
    Item <- MCItem
    Thread <- MCThread
    Capacities <- MCCapacities
    Junk = Junk
    NoThread = NoThread
    MaxBatch = 3
    ReallocFails = TRUE
SPECIFICATION Spec
SYMMETRY MCSymmetry
INVARIANT TypeOK
INVARIANT RingInvariant
PROPERTY ImplementsFifo
