\* Three events in batches of at most two, any order of three sequence numbers.
SPECIFICATION FairSpec
CONSTANTS
    MaxSeq = 3
    MaxEvents = 3
    MaxBatch = 2
CHECK_DEADLOCK FALSE
INVARIANTS
    TypeOK
    OnDiskInOrder
    AckedReadable
    ReplayReturnsAcked
PROPERTIES
    StoreSpec
    EveryAppendSettles
