\* x reads as handleEvents does, y takes its time.
SPECIFICATION FairSpec
CONSTANTS
    Clients = {x, y}
    Capacity = 3
    MaxEvents = 6
    Paced = {y}
INVARIANT SeenOnceInOrder
PROPERTIES
    LostOnlyWhenEvicted
    StreamEnds
CHECK_DEADLOCK FALSE
