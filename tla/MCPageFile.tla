----------------------------- MODULE MCPageFile -----------------------------
(* Small instances of PageFile for TLC.                                    *)
EXTENDS PageFile

CONSTANTS c1, c2, c3, c4

ThreeChunks == {c1, c2, c3}
FourChunks  == ThreeChunks \cup {c4}

\* Sizes that leave rests smaller and larger than a location, and fill a file.
Sizes == [c \in Chunk |-> CASE c = c1 -> 1 [] c = c2 -> 2 [] OTHER -> 4]
SmallSizes == [c \in Chunk |-> CASE c = c1 -> 1 [] c = c2 -> 2 [] OTHER -> 3]
=============================================================================
