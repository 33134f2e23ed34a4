\* Four buckets, which cannot become more: a buffer of 128 bytes overflows size_t.
SPECIFICATION Spec
CONSTANTS
    Keys = {1, 2, 3, 4}
    Values = {a, b}
    Hash <- MCHash
    OccupiedBit = 16
    BucketSize = 24
    MinBufferBytes = 96
    SizeBits = 7
    Reservations = {1, 2, 3, 4}
INVARIANTS
    TypeOK
    ProbeInv
    NothingLost
    IterationSound
PROPERTIES
    MapSpec
