-------------------------- MODULE MCHandleProtocol --------------------------
(* Instances of HandleProtocol: two threads, a chunk with a destructor, one  *)
(* without, and a managedPtr with no elements.                               *)
EXTENDS HandleProtocol

CONSTANTS t1, t2, p1, p2, h1, h2, b1, b2, b3

Threads  == {t1, t2}
Ptrs     == {p1, p2}
Handles  == {h1, h2}
OneEach  == [x \in Handle |-> IF x = h1 THEN {t1} ELSE {t2}]
\* A bound: no handle is assigned to itself.
Others   == \A t \in Thread : Len(on'[t]) = 2 /\ on'[t][1] \in Handle => on'[t][1] # on'[t][2]
\* Handles that threads share (no run: see the README).
Together == [x \in Handle |-> Thread]
=============================================================================
