SPECIFICATION Spec
CONSTANTS
    t1 = t1  t2 = t2
    c1 = c1  c2 = c2  c3 = c3
    Worker = Worker  NoThread = NoThread  NoChunk = NoChunk
    Thread <- TwoThreads
    Chunk <- ThreeChunks
    Size <- MixedSizes
    MemoryLimits = {3}
    InitialLimit = 3
    SwapSize = 2
    SwapOutPercent = 25
    SwapInPercent = 50
    OutOfSwapIsFatal = FALSE
    PreemptiveSwapOut = TRUE
    LoadImmediately = TRUE
SYMMETRY ThreadSymmetry
INVARIANTS Budget PinnedResident SleepersHavePending AwaitedChunkComes
