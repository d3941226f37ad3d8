\* Vectors of capacity 0, 1, 2 and 3 that grow up to 6, with two items;
\* realloc may fail.  Growth 1 -> 2 -> 4 and 3 -> 6.
CONSTANTS
    a = a
    b = b
    Item <- MCItem
    InitCapacities <- MCInitCapacities
    Junk = Junk
    Success = Success
    Failure = Failure
    NoItem = NoItem
    NoIndex = NoIndex
    MaxCapacity = 6
    MaxIndex = 6
SPECIFICATION Spec
SYMMETRY MCSymmetry
INVARIANT Fits
PROPERTY ImplementsList
