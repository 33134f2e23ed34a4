\* The same ring with calls that succeed, under fairness.
SPECIFICATION FairSpec
CONSTANTS
    NoJob = NoJob
    Producers = {p1, p2}
    TryPushers = {p2}
    Jobs = {j1, j2, j3}
    MAX = 2
    Wrap = 4
    PipeCapacity = 2
    ReadSize = 1
    Faults = {}

INVARIANTS
    NoLostWakeup
PROPERTIES
    ClaimedIsExecuted
    LineSpec
