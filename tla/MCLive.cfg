SPECIFICATION LiveSpec
CONSTANTS
    t1 = t1  t2 = t2
    c1 = c1  c2 = c2  c3 = c3
    Worker = Worker  NoThread = NoThread  NoChunk = NoChunk
    Thread <- TwoThreads
    Chunk <- TwoChunks
    Size <- UnitSizes
    MemoryLimits = {1}
    InitialLimit = 1
    SwapSize = 1
    SwapOutPercent = 0
    SwapInPercent = 0
    OutOfSwapIsFatal = TRUE
    PreemptiveSwapOut = TRUE
    LoadImmediately = TRUE
    MaxRequests <- ThreeAndTwo
PROPERTIES CallsReturn TransfersComplete MutexReleased 
