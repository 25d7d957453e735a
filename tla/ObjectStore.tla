----------------------------- MODULE ObjectStore -----------------------------
(***************************************************************************)
(* What the memory manager promises the threads of a program, with limits, *)
(* swap and asynchronous IO left out: live objects keep their contents     *)
(* wherever they are stored, and an object a thread holds stays at the     *)
(* address the thread was given.                                           *)
(***************************************************************************)
CONSTANTS Thread, Chunk

VARIABLES
    live,       \* the objects that exist
    intact,     \* the objects the last value written to can be read back from
    resident,   \* the objects that are in RAM and ready for use
    holders     \* holders[c]: the threads holding a pointer into c

vars == <<live, intact, resident, holders>>

TypeOK ==
    /\ live \subseteq Chunk /\ intact \subseteq Chunk /\ resident \subseteq Chunk
    /\ holders \in [Chunk -> SUBSET Thread]

Init ==
    /\ live = {} /\ intact = {} /\ resident = {}
    /\ holders = [c \in Chunk |-> {}]

Create(c) ==
    /\ c \notin live
    /\ live' = live \cup {c}
    /\ resident' = resident \cup {c}
    /\ UNCHANGED holders

Destroy(c) ==
    /\ c \in live /\ holders[c] = {}
    /\ live' = live \ {c}
    /\ resident' = resident \ {c}
    /\ UNCHANGED holders

Acquire(t, c) ==
    /\ c \in resident /\ t \notin holders[c]
    /\ holders' = [holders EXCEPT ![c] = @ \cup {t}]
    /\ UNCHANGED <<live, resident>>

Release(t, c) ==
    /\ t \in holders[c]
    /\ holders' = [holders EXCEPT ![c] = @ \ {t}]
    /\ UNCHANGED <<live, resident>>

\* Objects come back to RAM, several at a time.
Load(S) ==
    /\ resident' = resident \cup S
    /\ UNCHANGED <<live, holders>>

\* An object leaves RAM; nobody may be holding it.
Evict(c) ==
    /\ c \in resident /\ holders[c] = {}
    /\ resident' = resident \ {c}
    /\ UNCHANGED <<live, holders>>

Next ==
    /\ \/ \E c \in Chunk : Create(c) \/ Destroy(c) \/ Evict(c)
       \/ \E c \in Chunk, t \in Thread : Acquire(t, c) \/ Release(t, c)
       \/ \E S \in SUBSET (live \ resident) : Load(S)
    /\ intact' = live'

Spec == Init /\ [][Next]_vars
=============================================================================
