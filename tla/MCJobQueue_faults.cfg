\* Three producers, a ring of two nodes, a counter that wraps, failing system calls.
SPECIFICATION Spec
CONSTANTS
    NoJob = NoJob
    Producers = {p1, p2, p3}
    TryPushers = {p2}
    Jobs = {j1, j2, j3, j4, j5}
    MAX = 2
    Wrap = 4
    PipeCapacity = 2
    ReadSize = 1
    Faults = {"sem_wait", "sem_post", "write"}
SYMMETRY JobSymmetry
INVARIANTS
    TypeOK
    SlotExclusive
    FifoOrder
    PermitConservation
    CountAccurate
    RingInv
    FiniOnce
