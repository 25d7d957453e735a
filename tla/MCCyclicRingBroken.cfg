SPECIFICATION Spec
CONSTANTS
    t1 = t1
    t2 = t2
    c1 = c1
    c2 = c2
    c3 = c3
    c4 = c4
    NoThread = NoThread
    None = None
    Thread <- OneThread
    User <- OneThread
    Owner <- OneThread
    Chunk <- FourChunks
    Size <- Sizes
    MemoryMax = 20
    SwapSize = 21
    SwapOutTarget = 16
    MaxPreemptive = 2
    KeepFree = 2
    PreemptiveSwapIn = TRUE
    PreemptiveSwapOut = TRUE
    MaxFrees = 0
SYMMETRY Symmetry
INVARIANT RingWhole
CHECK_DEADLOCK FALSE
