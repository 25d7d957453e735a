SPECIFICATION Spec
CONSTANTS
    t1 = t1  t2 = t2  w1 = w1  w2 = w2  c1 = c1  c2 = c2
    Arriver = Arriver  NoThread = NoThread  Null = Null
    User <- TwoUsers
    Worker <- OneWorker
    Chunk <- TwoChunks
    Parts <- Scattered
INVARIANTS TypeOK TransferCounted ClosedQuiet
PROPERTIES Ends
