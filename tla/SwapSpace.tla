----------------------------- MODULE SwapSpace -----------------------------
(***************************************************************************)
(* What a swap promises about room: chunks get bytes of their own, as many *)
(* as they need, keep them until they give them back, and more room may be *)
(* added.  Nothing is said about where the bytes are.                      *)
(***************************************************************************)
EXTENDS Integers, FiniteSets

CONSTANTS
    Chunk,      \* who may own room
    Size        \* Size[c]: bytes chunk c needs

VARIABLES
    room,       \* number of bytes
    owned       \* owned[c]: the bytes of chunk c

OnlyFor(c) == \A d \in Chunk \ {c} : owned'[d] = owned[d]

Acquire(c) ==
    /\ owned[c] = {}
    /\ owned'[c] \subseteq (0..(room - 1)) \ UNION {owned[d] : d \in Chunk}
    /\ Cardinality(owned'[c]) = Size[c]
    /\ OnlyFor(c)
    /\ UNCHANGED room

\* All at once or in pieces.
GiveBack(c) ==
    /\ owned'[c] \subseteq owned[c] /\ owned'[c] # owned[c]
    /\ OnlyFor(c)
    /\ UNCHANGED room

Grow ==
    /\ room' \in Nat /\ room' > room
    /\ UNCHANGED owned

Init == room \in Nat /\ owned = [c \in Chunk |-> {}]
Next == Grow \/ \E c \in Chunk : Acquire(c) \/ GiveBack(c)
Spec == Init /\ [][Next]_<<room, owned>>
=============================================================================
