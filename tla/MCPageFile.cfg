SPECIFICATION Spec
CONSTANTS
    c1 = c1  c2 = c2  c3 = c3  c4 = c4
    NoChunk = NoChunk
    Chunk <- FourChunks
    Size <- Sizes
    PageFileSize = 4
    InitialFiles = 1
    MaxFiles = 2
    Requests = {0, 3}
    MemoryAlignment = 1
    LocationSize = 2
    Modulus = 64
    Policy = "autoextendable"
INVARIANTS TypeOK Tiling Chains SwapFreeExact RoomCounted MergesBack
PROPERTIES ImplementsSwapSpace
