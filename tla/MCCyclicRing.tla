---------------------------- MODULE MCCyclicRing ----------------------------
(* Instances of CyclicRing: a large chunk that nearly fills memory and three *)
(* small ones, two of which fit into the budget of guesses at a time.        *)
EXTENDS CyclicRing, TLC

CONSTANTS t1, t2, c1, c2, c3, c4

OneThread  == {t1}
TheOther   == {t2}
TwoThreads == {t1, t2}
FourChunks == {c1, c2, c3, c4}
Sizes      == [x \in Chunk |-> IF x = c1 THEN 18 ELSE 1]
Symmetry   == Permutations({c2, c3, c4})
=============================================================================
