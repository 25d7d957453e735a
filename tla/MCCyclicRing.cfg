SPECIFICATION Spec
CONSTANTS
    t1 = t1
    t2 = t2
    c1 = c1
    c2 = c2
    c3 = c3
    c4 = c4
    NoThread = NoThread
    None = None
    Thread <- TwoThreads
    User <- OneThread
    Owner <- TheOther
    Chunk <- FourChunks
    Size <- Sizes
    MemoryMax = 20
    SwapSize = 21
    SwapOutTarget = 16
    MaxPreemptive = 2
    KeepFree = 2
    PreemptiveSwapIn = TRUE
    PreemptiveSwapOut = TRUE
    MaxFrees = 1
SYMMETRY Symmetry
INVARIANTS TypeOK GuessesCounted GuessesBounded GuessesInRam BudgetKept
PROPERTY RingKept
CHECK_DEADLOCK FALSE
