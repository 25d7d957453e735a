-------------------------- MODULE MCManagedMemory --------------------------
(* Small instances of ManagedMemory for TLC.                               *)
EXTENDS ManagedMemory, TLC

CONSTANTS t1, t2, c1, c2, c3

TwoThreads  == {t1, t2}
TwoChunks   == {c1, c2}
ThreeChunks == {c1, c2, c3}

UnitSizes == [c \in Chunk |-> 1]
\* One chunk is twice as large as the others.
MixedSizes == [c \in Chunk |-> IF c = c1 THEN 2 ELSE 1]

Symmetry == Permutations(Thread) \cup Permutations(Chunk)
ThreadSymmetry == Permutations(Thread)
=============================================================================
