SPECIFICATION FairSpec
CONSTANTS
    t1 = t1
    t2 = t2
    p1 = p1
    p2 = p2
    h1 = h1
    h2 = h2
    b1 = b1
    b2 = b2
    b3 = b3
    NoThread = NoThread
    None = None
    Thread <- Threads
    Ptr <- Ptrs
    Handle <- Handles
    Block = {b1, b2, b3}
    Empty = {b3}
    HasDestructor = {b1}
    User <- OneEach
    CanFail = {h1}
    MaxTracker = 2
INVARIANTS TypeOK RefCounted UseCounted SpinsAfterFailure
PROPERTIES PointersStay Deleted
ACTION_CONSTRAINT Others
CHECK_DEADLOCK FALSE
