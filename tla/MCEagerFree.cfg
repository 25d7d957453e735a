SPECIFICATION Spec
CONSTANTS
    t1 = t1  t2 = t2
    c1 = c1  c2 = c2  c3 = c3
    Worker = Worker  NoThread = NoThread  NoChunk = NoChunk
    Thread <- TwoThreads
    Chunk <- ThreeChunks
    Size <- UnitSizes
    MemoryLimits = {2}
    InitialLimit = 2
    SwapSize = 2
    SwapOutPercent = 25
    SwapInPercent = 75
    OutOfSwapIsFatal = TRUE
    PreemptiveSwapOut = FALSE
    LoadImmediately = TRUE
SYMMETRY Symmetry
INVARIANTS NoDoubleFree
