--------------------------- MODULE MCAioTransfer ---------------------------
(* Small instances of AioTransfer for TLC.                                 *)
EXTENDS AioTransfer

CONSTANTS t1, t2, w1, w2, c1, c2

TwoUsers   == {t1, t2}
OneUser    == {t1}
TwoWorkers == {w1, w2}
OneWorker  == {w1}
TwoChunks  == {c1, c2}
OneChunk   == {c1}

\* One chunk is scattered over two locations of the page file.
Scattered == [x \in Chunk |-> IF x = c1 THEN 2 ELSE 1]
=============================================================================
