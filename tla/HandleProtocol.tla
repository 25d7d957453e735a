--------------------------- MODULE HandleProtocol ---------------------------
(***************************************************************************)
(* What a program holds of rambrain: managedPtr, a counted reference to a  *)
(* chunk, and adhereTo, a handle that sets use of the chunk of a           *)
(* managedPtr when a pointer to its data is pulled.                        *)
(*                                                                         *)
(* Both are plain C++ objects without a lock.  What is atomic is a change  *)
(* of a tracker, the compare-and-swap on a flag of a handle, and each call *)
(* of the manager; `todo' holds the calls a thread has still to make.  The *)
(* manager is reduced to the status and the use count of the chunks (see   *)
(* ManagedMemory).  An object is changed by one thread at a time and not   *)
(* while others work on it; only pulling from a handle may be done by      *)
(* several threads at once, which is what the compare-and-swap is for.     *)
(***************************************************************************)
EXTENDS Integers, FiniteSets, Sequences, SequencesExt

CONSTANTS
    Thread, NoThread,
    Ptr,            \* managedPtr objects
    Handle,         \* adhereTo objects
    None,           \* an object that is not alive
    Block,          \* trackers, each with its chunk
    Empty,          \* trackers of managedPtrs with no elements and no chunk
    HasDestructor,  \* chunks of a class type: mDelete calls its destructors
    User,           \* which threads use a handle
    CanFail,        \* operations on which objects may find no room in RAM
    MaxTracker      \* bound of the model: trackers are not copied beyond

ASSUME HandleAssumption ==
    /\ IsFiniteSet(Thread) /\ NoThread \notin Thread
    /\ IsFiniteSet(Ptr) /\ IsFiniteSet(Handle) /\ IsFiniteSet(Block)
    /\ None \notin Ptr \cup Block /\ Ptr \cap Handle = {}
    /\ Empty \subseteq Block /\ HasDestructor \subseteq Block \ Empty
    /\ User \in [Handle -> SUBSET Thread]
    /\ CanFail \subseteq Ptr \cup Handle
    /\ MaxTracker \in Nat

VARIABLES
    tracker,    \* *tracker, 0 when it is deleted
    status,     \* managedMemoryChunk::status
    useCnt,     \* managedMemoryChunk::useCnt
    ptr,        \* the tracker and chunk of a managedPtr
    data,       \* adhereTo::data
    loaded,     \* loadedReadable and loadedWritable of a handle
    given,      \* handles that have given out a pointer to the data
    failed,     \* handles whose setUse has thrown
    todo,       \* per thread: the steps left of its operation
    on,         \* per thread: the objects it works on
    mutex,      \* the thread that spins with stateChangeMutex
    ended       \* an exception left a constructor or a destructor

objects == <<ptr, data, loaded>>
manager == <<status, useCnt>>
vars == <<tracker, status, useCnt, ptr, data, loaded, given, failed, todo, on, mutex, ended>>

Flags   == {"read", "write"}
Present == {"ALLOCATED", "INUSE"}
Outside == {"SWAPOUT", "SWAPPED"}

Step(op, b)   == [op |-> op, b |-> b]
Set(b, flag)  == [op |-> "set", b |-> b, flag |-> flag]
Unset(b, n)   == [op |-> "unset", b |-> b, n |-> n]
Adopts(b, fs) == [op |-> "adopt", b |-> b, flags |-> fs]

\* A call of setUse for each flag in S.
SetUses(b, S) ==
    (IF "write" \in S THEN <<Set(b, "write")>> ELSE <<>>) \o
    (IF "read" \in S THEN <<Set(b, "read")>> ELSE <<>>)

\* mDelete, for a class type and for any other.
MDelete(b) ==
    IF b \in Empty THEN <<>>
    ELSE IF b \in HasDestructor
    THEN <<Set(b, "write"), Unset(b, 1), Step("mfree", b)>>
    ELSE <<Step("mfree", b)>>

Init ==
    /\ tracker = [b \in Block |-> 0]
    /\ status = [b \in Block |-> "ABSENT"] /\ useCnt = [b \in Block |-> 0]
    /\ ptr = [p \in Ptr |-> None]
    /\ data = [h \in Handle |-> None] /\ loaded = [h \in Handle |-> {}]
    /\ given = {} /\ failed = {}
    /\ todo = [t \in Thread |-> <<>>] /\ on = [t \in Thread |-> <<>>]
    /\ mutex = NoThread /\ ended = FALSE
-----------------------------------------------------------------------------
(* Operations are sequences of steps.                                      *)

Alone(t, objs) == \A u \in Thread \ {t} : Range(on[u]) \cap Range(objs) = {}

\* An operation on these objects begins, with these steps to take.
Begin(t, objs, steps) ==
    /\ ~ ended /\ todo[t] = <<>>
    /\ todo' = [todo EXCEPT ![t] = steps]
    /\ on' = [on EXCEPT ![t] = IF steps = <<>> THEN <<>> ELSE objs]

\* Calls of the manager lock stateChangeMutex.
At(t, op)    == ~ ended /\ todo[t] # <<>> /\ Head(todo[t]).op = op
Locks(t, op) == At(t, op) /\ mutex = NoThread
Subject(t)   == Head(todo[t]).b

Continue(t, steps) ==
    /\ todo' = [todo EXCEPT ![t] = steps]
    /\ on' = IF steps = <<>> THEN [on EXCEPT ![t] = <<>>] ELSE on

Done(t) == Continue(t, Tail(todo[t]))
-----------------------------------------------------------------------------
(* managedPtr.                                                             *)

\* Its constructor: a tracker, and a chunk in which the elements are
\* constructed under a use of their own.
Construct(t, p, b) ==
    /\ ptr[p] = None /\ Alone(t, <<p>>)
    /\ tracker[b] = 0 /\ status[b] = "ABSENT" /\ (b \notin Empty => mutex = NoThread)
    /\ tracker' = [tracker EXCEPT ![b] = 1]
    /\ ptr' = [ptr EXCEPT ![p] = b]
    /\ status' = IF b \in Empty THEN status ELSE [status EXCEPT ![b] = "ALLOCATED"]
    /\ Begin(t, <<p>>, IF b \in Empty THEN <<>> ELSE <<Set(b, "write"), Unset(b, 1)>>)
    /\ UNCHANGED <<useCnt, data, loaded, given, failed, mutex, ended>>

Copy(t, p, q) ==
    /\ ptr[p] = None /\ ptr[q] # None /\ Alone(t, <<p, q>>)
    /\ tracker[ptr[q]] < MaxTracker
    /\ ptr' = [ptr EXCEPT ![p] = ptr[q]]
    /\ tracker' = [tracker EXCEPT ![ptr[q]] = @ + 1]
    /\ Begin(t, <<p, q>>, <<>>)
    /\ UNCHANGED <<manager, data, loaded, given, failed, mutex, ended>>

\* A managedPtr outlives the handles on it.
Handled(p) == \E h \in Handle : data[h] = p

\* Mutant: the last reference does not delete the chunk.
ReleaseOnly(t, p, objs, rest) ==
    /\ tracker' = [tracker EXCEPT ![ptr[p]] = @ - 1]
    /\ ptr' = [ptr EXCEPT ![p] = None]
    /\ Begin(t, objs, rest)

\* One reference less; the last one deletes the chunk.
Release(t, p, objs, rest) ==
    /\ tracker' = [tracker EXCEPT ![ptr[p]] = @ - 1]
    /\ ptr' = [ptr EXCEPT ![p] = None]
    /\ Begin(t, objs, (IF tracker[ptr[p]] = 1 THEN MDelete(ptr[p]) ELSE <<>>) \o rest)

Destroy(t, p) ==
    /\ ptr[p] # None /\ Alone(t, <<p>>) /\ ~ Handled(p)
    /\ Release(t, p, <<p>>, <<>>)
    /\ UNCHANGED <<manager, data, loaded, given, failed, mutex, ended>>

\* operator=.  The tracker of a reference to no chunk is not released.
Reassign(t, p, q) ==
    /\ ptr[p] # None /\ ptr[q] # None /\ Alone(t, <<p, q>>) /\ ~ Handled(p)
    /\ tracker[ptr[q]] < MaxTracker
    /\ IF ptr[p] \in Empty
       THEN /\ ptr' = [ptr EXCEPT ![p] = None] /\ UNCHANGED tracker
            /\ Begin(t, <<p, q>>, <<Step("take", ptr[q])>>)
       ELSE Release(t, p, <<p, q>>, <<Step("take", ptr[q])>>)
    /\ UNCHANGED <<manager, data, loaded, given, failed, mutex, ended>>

\* Mutant: two references to one chunk are assigned like any other.
AssignAnyway(t, p, q) == Reassign(t, p, q)

\* Nothing happens between two references to one chunk.
Assign(t, p, q) == (ptr[p] \in Empty \/ ptr[p] # ptr[q]) /\ Reassign(t, p, q)

Take(t) ==
    /\ At(t, "take")
    /\ ptr' = [ptr EXCEPT ![on[t][1]] = Subject(t)]
    /\ tracker' = [tracker EXCEPT ![Subject(t)] = @ + 1]
    /\ Done(t)
    /\ UNCHANGED <<manager, data, loaded, given, failed, mutex, ended>>
-----------------------------------------------------------------------------
(* adhereTo.                                                               *)

Chunk(h) == ptr[data[h]]

\* Its constructor, which may ask for the chunk ahead of use.
Adhere(t, h, p) ==
    /\ t \in User[h] /\ data[h] = None /\ ptr[p] # None /\ Alone(t, <<h, p>>)
    /\ data' = [data EXCEPT ![h] = p]
    /\ \E loadImmediately \in BOOLEAN :
          Begin(t, <<h, p>>, IF loadImmediately /\ ptr[p] \notin Empty
                             THEN <<Step("prepare", ptr[p])>> ELSE <<>>)
    /\ UNCHANGED <<tracker, manager, ptr, loaded, given, failed, mutex, ended>>

\* Mutant: the flags are copied, no use is set for them.
CopyHandleUnused(t, g, h) ==
    /\ t \in User[g] /\ data[g] = None /\ data[h] # None /\ Alone(t, <<g, h>>)
    /\ data' = [data EXCEPT ![g] = data[h]]
    /\ loaded' = [loaded EXCEPT ![g] = loaded[h]]
    /\ Begin(t, <<g, h>>, <<>>)
    /\ UNCHANGED <<tracker, manager, ptr, given, failed, mutex, ended>>

\* The copy constructor: a use for each use of the original.
CopyHandle(t, g, h) ==
    /\ t \in User[g] /\ data[g] = None /\ data[h] # None /\ Alone(t, <<g, h>>)
    /\ data' = [data EXCEPT ![g] = data[h]]
    /\ loaded' = [loaded EXCEPT ![g] = loaded[h]]
    /\ Begin(t, <<g, h>>, SetUses(Chunk(h), loaded[h]))
    /\ UNCHANGED <<tracker, manager, ptr, given, failed, mutex, ended>>

\* A pull of a const (read) or any other pointer (write).  The flag of the
\* handle decides, by compare-and-swap, whether to set use.
Pulls(u, h) == on[u] = <<h>> /\ Last(todo[u]).op = "loc"

Pull(t, h, flag) ==
    /\ t \in User[h] /\ data[h] # None /\ Chunk(h) \notin Empty
    /\ \A u \in Thread \ {t} : h \in Range(on[u]) => Pulls(u, h)
    /\ loaded' = [loaded EXCEPT ![h] = @ \cup {flag}]
    /\ Begin(t, <<h>>, SetUses(Chunk(h), {flag} \ loaded[h]) \o <<Step("loc", Chunk(h))>>)
    /\ UNCHANGED <<tracker, manager, ptr, data, given, failed, mutex, ended>>

LetsGo(h) ==
    /\ loaded' = [loaded EXCEPT ![h] = {}]
    /\ given' = given \ {h} /\ failed' = failed \ {h}

\* Mutant: both uses are unset, whatever was loaded.
DestroyHandleBoth(t, h) ==
    /\ t \in User[h] /\ data[h] # None /\ Alone(t, <<h>>)
    /\ LetsGo(h)
    /\ data' = [data EXCEPT ![h] = None]
    /\ Begin(t, <<h, data[h]>>, IF loaded[h] # {} THEN <<Unset(Chunk(h), 2)>> ELSE <<>>)
    /\ UNCHANGED <<tracker, manager, ptr, mutex, ended>>

DestroyHandle(t, h) ==
    LET n == Cardinality(loaded[h])
    IN  /\ t \in User[h] /\ data[h] # None /\ Alone(t, <<h>>)
        /\ LetsGo(h)
        /\ data' = [data EXCEPT ![h] = None]
        /\ Begin(t, <<h, data[h]>>, IF n > 0 THEN <<Unset(Chunk(h), n)>> ELSE <<>>)
        /\ UNCHANGED <<tracker, manager, ptr, mutex, ended>>

\* Mutant: data is assigned before the uses are unset.
AssignHandleFirst(t, g, h) ==
    /\ t \in User[g] /\ data[g] # None /\ data[h] # None /\ Alone(t, <<g, h>>)
    /\ LetsGo(g)
    /\ Begin(t, <<g, h>>, [i \in 1..Cardinality(loaded[g]) |-> Unset(Chunk(h), 1)]
                          \o <<Adopts(Chunk(h), loaded[h])>>)
    /\ UNCHANGED <<tracker, manager, ptr, data, mutex, ended>>

\* operator=: the uses of the old chunk are unset one by one, then those of the
\* other handle are set.
AssignHandle(t, g, h) ==
    /\ t \in User[g] /\ data[g] # None /\ data[h] # None /\ Alone(t, <<g, h>>)
    /\ LetsGo(g)
    /\ Begin(t, <<g, h>>, [i \in 1..Cardinality(loaded[g]) |-> Unset(Chunk(g), 1)]
                          \o <<Adopts(Chunk(h), loaded[h])>>)
    /\ UNCHANGED <<tracker, manager, ptr, data, mutex, ended>>

Adopt(t) ==
    LET g == on[t][1]
        h == on[t][2]
    IN  /\ At(t, "adopt")
        /\ data' = [data EXCEPT ![g] = data[h]]
        /\ loaded' = [loaded EXCEPT ![g] = Head(todo[t]).flags]
        /\ Continue(t, SetUses(Chunk(h), Head(todo[t]).flags))
        /\ UNCHANGED <<tracker, manager, ptr, given, failed, mutex, ended>>

\* getLocPtr and getConstLocPtr.
GivePointer(t) ==
    /\ At(t, "loc") /\ status[Subject(t)] \in Present
    /\ given' = given \cup {on[t][1]}
    /\ Done(t)
    /\ UNCHANGED <<tracker, manager, objects, failed, mutex, ended>>

\* waitForSwapin: the mutex is given up only for a chunk that is being read.
Spin(t) ==
    /\ Locks(t, "loc") /\ status[Subject(t)] \in Outside
    /\ mutex' = t
    /\ UNCHANGED <<tracker, manager, objects, given, failed, todo, on, ended>>
-----------------------------------------------------------------------------
(* The calls of the manager.                                               *)

\* setUse: the use counts at once; a chunk that is not there is waited for.
SetUse(t) ==
    LET b == Subject(t)
    IN  /\ Locks(t, "set")
        /\ useCnt' = [useCnt EXCEPT ![b] = @ + 1]
        /\ IF status[b] \in Present
           THEN status' = [status EXCEPT ![b] = "INUSE"] /\ Done(t)
           ELSE /\ Continue(t, <<[Head(todo[t]) EXCEPT !.op = "await"]>> \o Tail(todo[t]))
                /\ UNCHANGED status
        /\ UNCHANGED <<tracker, objects, given, failed, mutex, ended>>

Grant(t) ==
    /\ Locks(t, "await") /\ status[Subject(t)] \in Present
    /\ status' = [status EXCEPT ![Subject(t)] = "INUSE"]
    /\ Done(t)
    /\ UNCHANGED <<tracker, useCnt, objects, given, failed, mutex, ended>>

\* No room for the chunk: an exception.  A pull leaves the flag and the use
\* behind; out of a constructor, operator= or mDelete the model ends.
SetUseThrows(t) ==
    /\ Locks(t, "await") /\ on[t][1] \in CanFail /\ status[Subject(t)] = "SWAPPED"
    /\ IF Last(todo[t]).op = "loc"
       THEN failed' = failed \cup {on[t][1]} /\ Continue(t, <<>>) /\ UNCHANGED ended
       ELSE ended' = TRUE /\ UNCHANGED <<failed, todo, on>>
    /\ UNCHANGED <<tracker, manager, objects, given, mutex>>

\* prepareUse: the chunk is asked for, nobody waits for it, and it can go again.
PrepareUse(t) ==
    /\ Locks(t, "prepare") /\ status[Subject(t)] # "SWAPOUT"
    /\ status' = [status EXCEPT ![Subject(t)] = IF @ = "SWAPPED" THEN "SWAPIN" ELSE @]
    /\ Done(t)
    /\ UNCHANGED <<tracker, useCnt, objects, given, failed, mutex, ended>>

PrepareUseThrows(t) ==
    /\ Locks(t, "prepare") /\ on[t][1] \in CanFail /\ status[Subject(t)] = "SWAPPED"
    /\ data' = [data EXCEPT ![on[t][1]] = None]
    /\ Done(t)
    /\ UNCHANGED <<tracker, manager, ptr, loaded, given, failed, mutex, ended>>

UnsetUse(t) ==
    LET b == Subject(t)
        left == useCnt[b] - Head(todo[t]).n
    IN  /\ Locks(t, "unset")
        /\ useCnt' = [useCnt EXCEPT ![b] = left]
        /\ status' = [status EXCEPT ![b] = IF @ = "INUSE" /\ left = 0 THEN "ALLOCATED" ELSE @]
        /\ Done(t)
        /\ UNCHANGED <<tracker, objects, given, failed, mutex, ended>>

\* mfree: the chunk leaves the scheduler.  While it is being transferred, pffree
\* waits.
Mfree(t) ==
    LET b == Subject(t)
    IN  /\ Locks(t, "mfree") /\ status[b] # "INUSE"
        /\ IF status[b] \in {"SWAPIN", "SWAPOUT"}
           THEN /\ Continue(t, <<Step("pffree", b)>> \o Tail(todo[t]))
                /\ UNCHANGED status
           ELSE status' = [status EXCEPT ![b] = "ABSENT"] /\ Done(t)
        /\ UNCHANGED <<tracker, useCnt, objects, given, failed, mutex, ended>>

MfreeDone(t) ==
    /\ Locks(t, "pffree") /\ status[Subject(t)] \in {"ALLOCATED", "SWAPPED"}
    /\ status' = [status EXCEPT ![Subject(t)] = "ABSENT"]
    /\ Done(t)
    /\ UNCHANGED <<tracker, useCnt, objects, given, failed, mutex, ended>>

\* Chunks the scheduler knows.
Scheduled(b) == \A t \in Thread : ~ (At(t, "pffree") /\ Subject(t) = b)

\* What the manager does on its own or for others: a chunk without a use is
\* written out, or dropped if its copy is good; one that is out is read.
Evict(b) ==
    /\ mutex = NoThread /\ status[b] = "ALLOCATED" /\ useCnt[b] = 0 /\ Scheduled(b)
    /\ \E s \in Outside : status' = [status EXCEPT ![b] = s]
    /\ UNCHANGED <<tracker, useCnt, objects, given, failed, todo, on, mutex, ended>>

Fetch(b) ==
    /\ mutex = NoThread /\ status[b] = "SWAPPED" /\ Scheduled(b)
    /\ status' = [status EXCEPT ![b] = "SWAPIN"]
    /\ UNCHANGED <<tracker, useCnt, objects, given, failed, todo, on, mutex, ended>>

Arrive(b) ==
    /\ mutex = NoThread /\ status[b] \in {"SWAPIN", "SWAPOUT"}
    /\ status' = [status EXCEPT ![b] = IF @ = "SWAPOUT" THEN "SWAPPED"
                                       ELSE IF useCnt[b] = 0 THEN "ALLOCATED" ELSE "INUSE"]
    /\ UNCHANGED <<tracker, useCnt, objects, given, failed, todo, on, mutex, ended>>

Calls(t) ==
    \/ SetUse(t) \/ Grant(t) \/ SetUseThrows(t) \/ PrepareUse(t) \/ PrepareUseThrows(t)
    \/ UnsetUse(t) \/ Mfree(t) \/ MfreeDone(t) \/ Take(t) \/ Adopt(t) \/ GivePointer(t) \/ Spin(t)

Operations(t) ==
    \/ \E p \in Ptr, b \in Block : Construct(t, p, b)
    \/ \E p, q \in Ptr : Copy(t, p, q) \/ Assign(t, p, q)
    \/ \E p \in Ptr : Destroy(t, p)
    \/ \E h \in Handle, p \in Ptr : Adhere(t, h, p)
    \/ \E h \in Handle, flag \in Flags : Pull(t, h, flag)
    \/ \E g, h \in Handle : CopyHandle(t, g, h) \/ AssignHandle(t, g, h)
    \/ \E h \in Handle : DestroyHandle(t, h)

Next ==
    \/ \E t \in Thread : Calls(t) \/ Operations(t)
    \/ \E b \in Block : Evict(b) \/ Fetch(b) \/ Arrive(b)

Spec == Init /\ [][Next]_vars

\* A thread goes on with what it has begun, transfers are completed, and a chunk
\* somebody waits for is read in.
Fairness ==
    /\ \A t \in Thread : WF_vars(Calls(t))
    /\ \A b \in Block \ Empty : WF_vars(Fetch(b) \/ Arrive(b))

FairSpec == Spec /\ Fairness
-----------------------------------------------------------------------------
(* Properties.                                                             *)


TypeOK ==
    /\ tracker \in [Block -> Nat]
    /\ status \in [Block -> Present \cup Outside \cup {"ABSENT", "SWAPIN"}]
    /\ useCnt \in [Block -> Nat]
    /\ ptr \in [Ptr -> Block \cup {None}] /\ data \in [Handle -> Ptr \cup {None}]
    /\ loaded \in [Handle -> SUBSET Flags]
    /\ given \cup failed \subseteq {h \in Handle : data[h] # None}
    /\ mutex \in Thread \cup {NoThread} /\ ended \in BOOLEAN

References(b) == {p \in Ptr : ptr[p] = b}

\* The tracker counts the managedPtrs of a chunk, through copies, assignments and
\* destructors of several threads; a chunk that is referred to is there, and one
\* that is being deleted is not in use.
RefCounted ==
    /\ \A b \in Block \ Empty : /\ tracker[b] = Cardinality(References(b))
                                /\ tracker[b] > 0 => status[b] # "ABSENT"
    /\ \A b \in Empty : tracker[b] >= Cardinality(References(b))
    /\ \A t \in Thread : todo[t] # <<>> /\ Head(todo[t]).op = "mfree" =>
          status[Subject(t)] \notin {"INUSE", "ABSENT"}

\* A thread has still to set this use of a handle.
Pending(h, flag) == \E t \in Thread : \E i \in 1..Len(todo[t]) :
    todo[t][i].op = "set" /\ todo[t][i].flag = flag /\ on[t][1] = h

\* The uses of a chunk its handles have, ...
Held(b) == {u \in Handle \X Flags :
    /\ data[u[1]] # None /\ Chunk(u[1]) = b
    /\ u[2] \in loaded[u[1]] /\ ~ Pending(u[1], u[2])}

\* ... and those threads have still to unset: the k-th step from the end unsets
\* one, or two, and is not preceded by the step that sets the use.
OwedBy(t, b) == {u \in {t} \X (1..Len(todo[t])) \X {1, 2} :
    LET i == Len(todo[t]) + 1 - u[2]
    IN  /\ todo[t][i].op = "unset" /\ todo[t][i].b = b /\ u[3] <= todo[t][i].n
        /\ i = 1 \/ todo[t][i - 1].op # "set"}

Owed(b) == UNION {OwedBy(t, b) : t \in Thread}

\* The use count of a chunk is what its handles hold and what threads will still
\* unset, however handles were copied, assigned, pulled and destroyed and also
\* after a setUse that threw.
UseCounted == \A b \in Block : useCnt[b] = Cardinality(Held(b)) + Cardinality(Owed(b))

\* The chunk stays in RAM as long as a handle lives that has given out a pointer
\* to it, whatever happens to other handles on it.
PointersStay == [][\A h \in given \cap given' :
    status[Chunk(h)] \in Present => status'[Chunk(h)] \in Present]_vars

\* A pull waits for ever, and all others with it, only for a handle whose setUse
\* has failed before: a chunk that another thread uses will become available.
SpinsAfterFailure == mutex # NoThread => on[mutex][1] \in failed

\* The chunk of the last managedPtr is deleted.
Deleted == \A b \in Block \ Empty :
    tracker[b] = 0 /\ status[b] # "ABSENT" ~> status[b] = "ABSENT" \/ ended \/ mutex # NoThread
=============================================================================
