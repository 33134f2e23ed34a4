\* Two buckets, which have to become five for the third key.  As in the library,
\* nobody but autk_hash_table_insert reserves.
SPECIFICATION Spec
CONSTANTS
    Keys = {1, 2, 3, 4}
    Values = {a}
    Hash <- MCHash
    OccupiedBit = 16
    BucketSize = 24
    MinBufferBytes = 48
    SizeBits = 16
    Reservations = {}
INVARIANT
    NothingLost
