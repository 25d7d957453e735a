---------------------------- MODULE ManagedMemory ----------------------------
(***************************************************************************)
(* The memory manager of rambrain (managedMemory, with the non-preemptive  *)
(* paths of cyclicManagedMemory) on top of the asynchronous file swap      *)
(* (managedFileSwap), as several threads use it.                           *)
(*                                                                         *)
(* All state is guarded by one mutex, stateChangeMutex.  An action is a    *)
(* piece of code executed without giving that mutex up: `lock' names the   *)
(* thread that still owns the mutex when the action ends, so a thread that *)
(* loops without releasing it keeps every other thread out, as in the      *)
(* code.  The mutex is given up in two places only: the timed              *)
(* io_getevents of checkForAIO (the thread then owns aioWaiterLock) and    *)
(* pthread_cond_wait on swappingCond (the thread is then in `sleeping').   *)
(*                                                                         *)
(* Sizes are counted in units of memoryAlignment, to which mmalloc rounds  *)
(* every request.  The ring of the scheduler is abstracted to the set of   *)
(* registered chunks: swapOut may pick whatever some order of the ring     *)
(* would make it pick.  The parts of a transfer are abstracted to one      *)
(* asynchronous operation per chunk.                                       *)
(***************************************************************************)
EXTENDS Integers, FiniteSets

CONSTANTS
    Thread,             \* the threads of the program
    Worker,             \* the thread running io_arrrive_worker
    NoThread,           \* "nobody": a free lock
    Chunk,              \* identities of managed chunks (memoryID)
    NoChunk,            \* the chunk of a call that has none
    Size,               \* Size[c]: bytes of chunk c, in units of memoryAlignment
    MemoryLimits,       \* the values setMemoryLimit may be called with
    InitialLimit,       \* memory_max at construction
    SwapSize,           \* size of the swap, fixed (swapPolicy::fixed)
    SwapOutPercent,     \* swapOutFrac, in percent
    SwapInPercent,      \* swapInFrac, in percent
    OutOfSwapIsFatal,   \* outOfSwapIsFatal
    PreemptiveSwapOut,  \* preemtiveSwapOut
    LoadImmediately     \* whether handles are built with loadImmediately

ASSUME ConstantsAssumption ==
    /\ NoThread \notin Thread \cup {Worker} /\ Worker \notin Thread
    /\ NoChunk \notin Chunk /\ IsFiniteSet(Chunk) /\ IsFiniteSet(Thread)
    /\ Size \in [Chunk -> Nat \ {0}]
    /\ MemoryLimits \subseteq Nat /\ InitialLimit \in MemoryLimits
    /\ SwapSize \in Nat
    /\ SwapOutPercent \in 0..100 /\ SwapInPercent \in 0..100
    /\ {OutOfSwapIsFatal, PreemptiveSwapOut, LoadImmediately} \subseteq BOOLEAN

VARIABLES
    status,             \* managedMemoryChunk::status, "ABSENT" when not in memChunks
    useCnt,             \* managedMemoryChunk::useCnt
    swapBuf,            \* whether the chunk owns a location in the page file
    aio,                \* the transfers queued for the chunk and not yet processed
    ring,               \* chunks registered with the scheduler
    memory_max, memory_used, memory_swapped, memory_tobefreed,
    ramFresh,           \* the RAM copy holds the last value written
    diskFresh,          \* the page file copy holds the last value written
    lock,               \* owner of stateChangeMutex
    aioWaiter,          \* owner of aioWaiterLock
    sleeping,           \* threads in pthread_cond_wait ( &swappingCond )
    uses,               \* uses[t][c]: the use thread t has set on c
    pc, call, evict     \* per thread: where it is, its call, its swapOut frame

chunkVars  == <<status, useCnt, swapBuf, aio, ring>>
acctVars   == <<memory_used, memory_swapped, memory_tobefreed>>
dataVars   == <<ramFresh, diskFresh>>
syncVars   == <<lock, aioWaiter, sleeping>>
threadVars == <<pc, call, evict>>
vars == <<chunkVars, memory_max, acctVars, dataVars, syncVars, uses, threadVars>>

-----------------------------------------------------------------------------
(* Chunks and accounting.                                                  *)

InUse     == {"MEM_ALLOCATED_INUSE_READ", "MEM_ALLOCATED_INUSE_WRITE"}
Allocated == {"MEM_ALLOCATED"} \cup InUse
Present   == Allocated \cup {"MEM_SWAPIN"}
Status    == Present \cup {"MEM_SWAPPED", "MEM_SWAPOUT", "ABSENT"}

Chunks(S) == {c \in Chunk : status[c] \in S}

\* Total size of a set of chunks: the number of its units.
Bytes(S) == Cardinality(UNION {{c} \X (1..Size[c]) : c \in S})

SwapFree == SwapSize - memory_swapped

\* Units of the page file no location covers.  A cached chunk (present in RAM and
\* still owning its location) is booked free in SwapFree but not here.
PageFileFree == SwapSize - Bytes({c \in Chunk : swapBuf[c]})

\* Chunks in RAM that still own a location, which cleanupCachedElements may take.
Cached  == {c \in Chunks(Allocated) : swapBuf[c]}
Pending == {c \in Chunk : aio[c] # {}}

\* The sets of locations cleanupCachedElements(min) frees: it walks memChunks
\* until `min' bytes are reached, all of them when min = 0.
Cleanups(min) ==
    IF min = 0 \/ Bytes(Cached) < min THEN {Cached}
    ELSE {K \in SUBSET Cached :
             Bytes(K) >= min /\ \E k \in K : Bytes(K \ {k}) < min}

FreeLocations(K) == swapBuf' = [c \in Chunk |-> swapBuf[c] /\ c \notin K]
-----------------------------------------------------------------------------
(* Calls and locks.                                                        *)

NewCall(op, c, w, n) ==
    [op |-> op, chunk |-> c, write |-> w, cleaned |-> FALSE, limit |-> n]
NewEvict(min, p) ==
    [min |-> min, quota |-> 0, todo |-> {}, real |-> 0, ok |-> FALSE, ret |-> p]

NoCall  == NewCall("none", NoChunk, FALSE, 0)
NoEvict == NewEvict(0, "idle")

\* Thread t can run code that needs stateChangeMutex.
HasMutex(t) == lock \in {t, NoThread} /\ aioWaiter # t /\ t \notin sleeping

At(t, p) == pc[t] = p /\ HasMutex(t)
Goto(t, p) == pc' = [pc EXCEPT ![t] = p]
Idle(t)  == At(t, "idle")

StartCall(t, p, op, c, w, n) ==
    /\ Goto(t, p)
    /\ call' = [call EXCEPT ![t] = NewCall(op, c, w, n)]
    /\ lock' = t

EndCall(t) ==
    /\ Goto(t, "idle")
    /\ call' = [call EXCEPT ![t] = NoCall]
    /\ evict' = [evict EXCEPT ![t] = NoEvict]
    /\ lock' = NoThread

\* An exception leaves the call; the mutex was released before the throw.
Throw(t) ==
    /\ Goto(t, "thrown")
    /\ lock' = NoThread
    /\ UNCHANGED <<call, evict>>

\* Call swapOut(min), to continue at p afterwards.
CallSwapOut(t, min, p) ==
    /\ Goto(t, "swapOut")
    /\ evict' = [evict EXCEPT ![t] = NewEvict(min, p)]
    /\ lock' = t
-----------------------------------------------------------------------------
(* Arrival of asynchronous IO.                                             *)

\* Mutation: a chunk wanted again while it is written out is kept in RAM.
CompletedKeeping(c) ==
    IF status[c] = "MEM_SWAPOUT" /\ useCnt[c] = 0 THEN "MEM_SWAPPED"
    ELSE IF useCnt[c] = 0 THEN "MEM_ALLOCATED"
    ELSE "MEM_ALLOCATED_INUSE_READ"

\* The status completeTransactionOn gives a chunk whose transfer is complete; a chunk
\* read in for a user is protected from being swapped out again.
Completed(c) ==
    IF status[c] = "MEM_SWAPOUT" THEN "MEM_SWAPPED"
    ELSE IF useCnt[c] = 0 THEN "MEM_ALLOCATED"
    ELSE "MEM_ALLOCATED_INUSE_READ"

\* Mutation: the bytes that were to be freed are not unclaimed.
UnclaimNothing(Out) == memory_tobefreed' = memory_tobefreed

\* claimTobefreed ( chunk->size, false ) for the chunks written out.
UnclaimTobefreed(Out) == memory_tobefreed' = memory_tobefreed - Bytes(Out)

\* Mutation: completion is not signalled.
NoSignal(Done) == sleeping' = sleeping

\* signalSwappingCond, for every completed chunk.
SignalCompletion(Done) == sleeping' = IF Done = {} THEN sleeping ELSE {}

\* Events for the chunks E are taken from io_getevents and processed:
\* asyncIoArrived, whose last part runs completeTransactionOn.
Arrive(E) ==
    LET In  == {c \in E : status[c] = "MEM_SWAPIN"}
        Out == {c \in E : status[c] = "MEM_SWAPOUT"}
    IN  /\ status' = [c \in Chunk |-> IF c \in In \cup Out THEN Completed(c) ELSE status[c]]
        /\ aio' = [c \in Chunk |-> IF c \in E THEN {} ELSE aio[c]]
        /\ memory_used' = memory_used - Bytes(Out)
        /\ UnclaimTobefreed(Out)
        /\ memory_swapped' = memory_swapped - Bytes(In)
        /\ ramFresh' = [c \in Chunk |-> IF c \in In THEN diskFresh[c]
                                        ELSE ramFresh[c] /\ c \notin Out]
        /\ diskFresh' = [c \in Chunk |-> IF c \in Out THEN ramFresh[c] ELSE diskFresh[c]]
        /\ SignalCompletion(In \cup Out)

NothingArrives == UNCHANGED <<status, aio, acctVars, dataVars, sleeping>>

\* The events that can be there: once a second transfer was queued on a location
\* its aio_ptr is lost, and what the program does from then on is undefined.
Events == {c \in Chunk : aio[c] \in {{"read"}, {"write"}}}

\* Mutation: the mutex is not given up while polling.
TakeEventsHoldingMutex(t, after) ==
    \/ \E E \in SUBSET Events \ {{}} :
          Arrive(E) /\ lock' = after /\ UNCHANGED aioWaiter
    \/ NothingArrives /\ aioWaiter' = t /\ lock' = after

\* checkForAIO by a thread that could take aioWaiterLock: process what has
\* arrived, or give the mutex up and wait for 100 microseconds.
TakeEvents(t, after) ==
    \/ \E E \in SUBSET Events \ {{}} :
          Arrive(E) /\ lock' = after /\ UNCHANGED aioWaiter
    \/ NothingArrives /\ aioWaiter' = t /\ lock' = NoThread

\* waitForAIO: checkForAIO, and swappingCond when somebody else waits for events.
WaitForAIO(t) ==
    \/ /\ aioWaiter # NoThread
       /\ sleeping' = sleeping \cup {t}
       /\ lock' = NoThread
       /\ UNCHANGED <<status, aio, acctVars, dataVars, aioWaiter>>
    \/ /\ aioWaiter = NoThread /\ Pending = {}
       /\ lock' = t
       /\ NothingArrives /\ UNCHANGED aioWaiter
    \/ /\ aioWaiter = NoThread /\ Pending # {}
       /\ TakeEvents(t, t)

\* What waitForAIO leaves alone in every caller.
WaitFrame == UNCHANGED <<useCnt, swapBuf, ring, memory_max, uses>>
-----------------------------------------------------------------------------
(* swapOut of the scheduler and of the swap.                               *)

Candidates == {c \in ring : status[c] = "MEM_ALLOCATED" /\ useCnt[c] = 0}

Visited(V, i) == {c \in Chunk : <<c, i>> \in V}
Weight(V) == Cardinality(UNION {{v} \X (1..Size[v[1]]) : v \in V})

\* What the walk over the ring may select, as pairs of a chunk and the number of a visit:
\* chunk by chunk until `quota' is reached, skipping what SwapFree cannot hold.  It makes
\* as many steps as memChunks has elements; a chunk in deletion is in memChunks but no
\* longer in the ring, so for each of those one chunk is visited, and counted, again.
Selections(quota) ==
    LET Fits(V, c) == Weight(V) + Size[c] <= SwapFree
        Upto(V, i) == {v \in V : v[2] <= i}
        extra      == Cardinality(Chunks(Status \ {"ABSENT"}) \ ring)
    IN  {V \in SUBSET (Candidates \X (1..(extra + 1))) :
            /\ \A i \in 1..extra :
                  /\ Visited(V, i + 1) \subseteq Visited(V, i)
                  /\ Cardinality(Visited(V, i + 1)) <= extra - (i - 1) * Cardinality(ring)
                  /\ Visited(V, i + 1) # {} =>
                        \A c \in Candidates \ Visited(V, i) : ~Fits(Upto(V, i), c)
            /\ Weight(V) <= SwapFree
            /\ IF Weight(V) >= quota
               THEN V = {} \/ \E v \in V : Weight(V \ {v}) < quota
               ELSE \A c \in Candidates \ Visited(V, 1) : ~Fits(V, c)}

\* What to unload: at least min, down to swapOutFrac of the limit if swap allows.
Quota(min) ==
    LET target == (memory_max * SwapOutPercent) \div 100
        over   == IF memory_used > target THEN memory_used - target ELSE 0
        wanted == IF over < min THEN min ELSE over
    IN  IF wanted > SwapFree THEN min ELSE wanted

SwapOutReturns(t, ok) ==
    /\ Goto(t, evict[t].ret)
    /\ evict' = [evict EXCEPT ![t].ok = ok, ![t].todo = {}]
    /\ lock' = t
    /\ UNCHANGED call

SwapOutFrame ==
    UNCHANGED <<status, useCnt, aio, ring, memory_max, acctVars, dataVars,
                aioWaiter, sleeping, uses>>

\* cyclicManagedMemory::swapOut up to the call of the swap: with an empty ring it
\* throws, on the error paths it returns, else the chunks to unload are chosen.
SwapOutSelect(t) ==
    LET min == evict[t].min IN
    /\ At(t, "swapOut")
    /\ SwapOutFrame
    /\ \/ ring = {} /\ Throw(t) /\ UNCHANGED swapBuf
       \/ ring # {} /\ min > memory_max /\ SwapOutReturns(t, FALSE) /\ UNCHANGED swapBuf
       \/ /\ ring # {} /\ min <= memory_max /\ SwapFree < min
          /\ \E K \in Cleanups(min - SwapFree) : FreeLocations(K)
          /\ SwapOutReturns(t, FALSE)
       \/ /\ ring # {} /\ min <= memory_max /\ SwapFree >= min
          /\ \E V \in Selections(Quota(min)) :
                IF V = {} THEN SwapOutReturns(t, FALSE)
                ELSE /\ Goto(t, "unload")
                     /\ evict' = [evict EXCEPT ![t].todo = V, ![t].quota = Quota(min)]
                     /\ lock' = t
                     /\ UNCHANGED call
          /\ UNCHANGED swapBuf

\* One element v of the list is done, `bytes' of it unloaded.
Unloaded(t, v, bytes) ==
    /\ evict' = [evict EXCEPT ![t].todo = @ \ {v}, ![t].real = @ + bytes]
    /\ UNCHANGED <<pc, call, useCnt, ring, memory_max, aioWaiter, lock, uses>>

\* managedFileSwap::swapOut(chunk): there is nothing to do for it.
UnloadSkip(t, v) ==
    LET c == v[1] IN
    /\ \/ Size[c] > SwapFree /\ Unloaded(t, v, 0)
       \/ /\ Size[c] <= SwapFree /\ status[c] \in {"MEM_SWAPPED", "MEM_SWAPOUT"}
          /\ Unloaded(t, v, Size[c])
       \/ /\ Size[c] <= SwapFree /\ status[c] = "MEM_ALLOCATED" /\ ~swapBuf[c]
          /\ PageFileFree = 0                     \* pfmalloc returns NULL
          /\ Unloaded(t, v, 0)
    /\ UNCHANGED <<status, swapBuf, aio, acctVars, dataVars, sleeping>>

\* The page file copy of a cached chunk is still good: drop the RAM copy.
UnloadCached(t, v) ==
    LET c == v[1] IN
    /\ Size[c] <= SwapFree /\ status[c] = "MEM_ALLOCATED" /\ swapBuf[c]
    /\ status' = [status EXCEPT ![c] = "MEM_SWAPPED"]
    /\ memory_used' = memory_used - Size[c]
    /\ memory_swapped' = memory_swapped + Size[c]
    /\ ramFresh' = [ramFresh EXCEPT ![c] = FALSE]
    /\ sleeping' = {}
    /\ Unloaded(t, v, Size[c])
    /\ UNCHANGED <<swapBuf, aio, memory_tobefreed, diskFresh>>

\* A location is allocated, cleaning cached ones if there is too little room, and
\* the write is queued.
UnloadWrite(t, v) ==
    LET c == v[1] IN
    /\ Size[c] <= SwapFree /\ status[c] = "MEM_ALLOCATED" /\ ~swapBuf[c]
    /\ PageFileFree > 0
    /\ \E K \in IF Size[c] <= PageFileFree THEN {{}} ELSE Cleanups(Size[c] - PageFileFree) :
          /\ Size[c] <= PageFileFree \/ Bytes(K) > Size[c] - PageFileFree
          /\ swapBuf' = [d \in Chunk |-> d = c \/ (swapBuf[d] /\ d \notin K)]
    /\ status' = [status EXCEPT ![c] = "MEM_SWAPOUT"]
    /\ aio' = [aio EXCEPT ![c] = @ \cup {"write"}]
    /\ memory_swapped' = memory_swapped + Size[c]
    /\ memory_tobefreed' = memory_tobefreed + Size[c]
    /\ Unloaded(t, v, Size[c])
    /\ UNCHANGED <<memory_used, dataVars, sleeping>>

\* pfmalloc throws "Out of swap space", also when cleaning freed exactly what was
\* missing; nobody releases stateChangeMutex (nor cyclicTopoLock) on the way out.
UnloadThrow(t, v) ==
    LET c == v[1] IN
    /\ Size[c] <= SwapFree /\ status[c] = "MEM_ALLOCATED" /\ ~swapBuf[c]
    /\ PageFileFree > 0 /\ Size[c] > PageFileFree
    /\ \E K \in Cleanups(Size[c] - PageFileFree) :
          Bytes(K) <= Size[c] - PageFileFree /\ FreeLocations(K)
    /\ Goto(t, "thrown")
    /\ UNCHANGED <<status, useCnt, aio, ring, memory_max, acctVars, dataVars, syncVars,
                   uses, call, evict>>

Unload(t) ==
    /\ At(t, "unload")
    /\ \E v \in evict[t].todo :
          UnloadSkip(t, v) \/ UnloadCached(t, v) \/ UnloadWrite(t, v) \/ UnloadThrow(t, v)

\* The list is done; swapOut succeeds if it unloaded what it had to.
SwapOutDone(t) ==
    /\ At(t, "unload") /\ evict[t].todo = {}
    /\ SwapOutReturns(t, evict[t].real > 0 /\ \/ evict[t].real >= evict[t].quota
                                              \/ evict[t].real >= evict[t].min)
    /\ SwapOutFrame /\ UNCHANGED swapBuf
-----------------------------------------------------------------------------
(* ensureEnoughSpace: the loop, and what follows its call of swapOut.      *)

\* Mutation: the request itself is forgotten.
FitsWithout(t) == memory_used <= memory_max

Fits(t) == Size[call[t].chunk] + memory_used <= memory_max

\* orisSwappedin is there already, or is coming (mmalloc has no such chunk).
AlreadyThere(t) == call[t].op # "mmalloc" /\ status[call[t].chunk] \in Present

EnsureEnoughSpace(t) ==
    LET req == Size[call[t].chunk] IN
    /\ At(t, "space")
    /\ ~Fits(t) /\ ~AlreadyThere(t)
    /\ UNCHANGED call
    /\ \/ /\ req + memory_used - memory_tobefreed > memory_max
          /\ CallSwapOut(t, req - (memory_max - memory_used) - memory_tobefreed, "evicted")
          /\ NothingArrives /\ UNCHANGED aioWaiter
       \/ /\ req + memory_used - memory_tobefreed <= memory_max
          /\ WaitForAIO(t)
          /\ UNCHANGED <<pc, evict>>
    /\ WaitFrame

\* swapOut failed and nothing else is on its way out: clean the cache once, then
\* throw, or clean again and wait.
Evicted(t) ==
    /\ At(t, "evicted")
    /\ UNCHANGED <<useCnt, ring, memory_max, uses>>
    /\ IF evict[t].ok \/ memory_tobefreed # 0
       THEN /\ UNCHANGED <<swapBuf, call>>
            /\ Goto(t, "space") /\ evict' = [evict EXCEPT ![t] = NoEvict]
            /\ IF Fits(t) THEN NothingArrives /\ lock' = t /\ UNCHANGED aioWaiter
                          ELSE WaitForAIO(t)
       ELSE \/ /\ ~call[t].cleaned
               /\ FreeLocations(Cached)
               /\ call' = [call EXCEPT ![t].cleaned = TRUE]
               /\ Goto(t, "space") /\ evict' = [evict EXCEPT ![t] = NoEvict]
               /\ lock' = t /\ NothingArrives /\ UNCHANGED aioWaiter
            \/ /\ call[t].cleaned /\ OutOfSwapIsFatal
               /\ Throw(t)
               /\ NothingArrives /\ UNCHANGED <<aioWaiter, swapBuf>>
            \/ /\ call[t].cleaned /\ ~OutOfSwapIsFatal
               /\ FreeLocations(Cached)
               /\ Goto(t, "space") /\ evict' = [evict EXCEPT ![t] = NoEvict]
               /\ WaitForAIO(t) /\ UNCHANGED call

-----------------------------------------------------------------------------
(* mmalloc and swapIn, once ensureEnoughSpace has returned.                *)

MmallocDone(t) ==
    LET c == call[t].chunk IN
    /\ At(t, "space") /\ call[t].op = "mmalloc" /\ Fits(t)
    /\ status' = [status EXCEPT ![c] = "MEM_ALLOCATED"]
    /\ ring' = ring \cup {c}
    /\ memory_used' = memory_used + Size[c]
    /\ ramFresh' = [ramFresh EXCEPT ![c] = TRUE]
    /\ EndCall(t)
    /\ UNCHANGED <<useCnt, swapBuf, aio, memory_max, memory_swapped, memory_tobefreed,
                   diskFresh, aioWaiter, sleeping, uses>>

\* cyclicManagedMemory::swapIn returns to prepareUse: the caller of setUse goes on
\* to wait for the chunk, a bare prepareUse is over.
SwapInReturns(t) ==
    IF call[t].op = "use"
    THEN Goto(t, "swapIn") /\ lock' = t /\ UNCHANGED <<call, evict>>
    ELSE EndCall(t)

\* Someone else is bringing the chunk in, or has done so.
SwapInNotNeeded(t) ==
    /\ At(t, "space") /\ AlreadyThere(t)
    /\ SwapInReturns(t)
    /\ UNCHANGED <<chunkVars, memory_max, acctVars, dataVars, aioWaiter, sleeping, uses>>

\* managedFileSwap::swapIn(chunk): claim the RAM and queue the read.
SwapIn(t) ==
    LET c == call[t].chunk IN
    /\ At(t, "space") /\ call[t].op # "mmalloc" /\ Fits(t) /\ ~AlreadyThere(t)
    /\ swapBuf[c]
    /\ status' = [status EXCEPT ![c] = "MEM_SWAPIN"]
    /\ aio' = [aio EXCEPT ![c] = @ \cup {"read"}]
    /\ memory_used' = memory_used + Size[c]
    /\ SwapInReturns(t)
    /\ UNCHANGED <<useCnt, swapBuf, ring, memory_max, memory_swapped, memory_tobefreed,
                   dataVars, aioWaiter, sleeping, uses>>
-----------------------------------------------------------------------------
(* The calls of the program.                                               *)

Mmalloc(t, c) ==
    /\ Idle(t) /\ status[c] = "ABSENT"
    /\ \A u \in Thread : call[u].chunk # c
    /\ StartCall(t, "space", "mmalloc", c, FALSE, 0)
    /\ UNCHANGED <<chunkVars, memory_max, acctVars, dataVars, aioWaiter, sleeping, uses, evict>>

\* Mutation: a reader that turns writer keeps the page file copy.
GrantKeepingCache(t, c, write, st) ==
    LET writing == write /\ st # "MEM_ALLOCATED_INUSE_WRITE" IN
    /\ status' = [status EXCEPT ![c] =
                    IF writing THEN "MEM_ALLOCATED_INUSE_WRITE"
                    ELSE IF st = "MEM_ALLOCATED" THEN "MEM_ALLOCATED_INUSE_READ" ELSE st]
    /\ swapBuf' = [swapBuf EXCEPT ![c] = @ /\ ~(writing /\ st = "MEM_ALLOCATED")]
    /\ uses' = [uses EXCEPT ![t][c] = IF write THEN "write" ELSE "read"]
    /\ EndCall(t)

\* The tail of setUse, from "case MEM_ALLOCATED" on, with the status it falls in with.
\* A new writer makes the page file copy of the chunk worthless.
Grant(t, c, write, st) ==
    LET writing == write /\ st # "MEM_ALLOCATED_INUSE_WRITE" IN
    /\ status' = [status EXCEPT ![c] =
                    IF writing THEN "MEM_ALLOCATED_INUSE_WRITE"
                    ELSE IF st = "MEM_ALLOCATED" THEN "MEM_ALLOCATED_INUSE_READ" ELSE st]
    /\ swapBuf' = [swapBuf EXCEPT ![c] = @ /\ ~writing]
    /\ uses' = [uses EXCEPT ![t][c] = IF write THEN "write" ELSE "read"]
    /\ EndCall(t)

\* Mutation: the use is not counted.
SetUseUncounted(t, c, write) ==
    /\ Idle(t) /\ uses[t][c] = "none" /\ c \in ring /\ status[c] \in Allocated
    /\ Grant(t, c, write, status[c])
    /\ UNCHANGED <<useCnt, aio, ring, memory_max, acctVars, dataVars, aioWaiter, sleeping>>

\* setUse on a chunk that is in RAM.
SetUse(t, c, write) ==
    /\ Idle(t) /\ uses[t][c] = "none" /\ c \in ring /\ status[c] \in Allocated
    /\ useCnt' = [useCnt EXCEPT ![c] = @ + 1]
    /\ Grant(t, c, write, status[c])
    /\ UNCHANGED <<aio, ring, memory_max, acctVars, dataVars, aioWaiter, sleeping>>

\* Mutation: a chunk on its way out is treated like one that is out.
WhereToWaitNotOut(c) == IF status[c] \in {"MEM_SWAPOUT", "MEM_SWAPPED"} THEN "space" ELSE "swapIn"

\* Mutation: nobody asks for a chunk that is out.
WhereToWaitNotIn(c) == IF status[c] = "MEM_SWAPOUT" THEN "swapOutWait" ELSE "swapIn"

\* setUse and prepareUse on a chunk that is not: where to wait for it.
WhereToWait(c) ==
    IF status[c] = "MEM_SWAPOUT" THEN "swapOutWait"
    ELSE IF status[c] = "MEM_SWAPPED" THEN "space"
    ELSE "swapIn"

\* Mutation: the chunk is not protected before the wait.
SetUseAbsentUncounted(t, c, write) ==
    /\ Idle(t) /\ uses[t][c] = "none" /\ c \in ring /\ status[c] \notin Allocated
    /\ StartCall(t, WhereToWait(c), "use", c, write, 0)
    /\ UNCHANGED <<chunkVars, memory_max, acctVars, dataVars, aioWaiter, sleeping, uses, evict>>

SetUseAbsent(t, c, write) ==
    /\ Idle(t) /\ uses[t][c] = "none" /\ c \in ring /\ status[c] \notin Allocated
    /\ useCnt' = [useCnt EXCEPT ![c] = @ + 1]
    /\ StartCall(t, WhereToWait(c), "use", c, write, 0)
    /\ UNCHANGED <<status, swapBuf, aio, ring, memory_max, acctVars, dataVars,
                   aioWaiter, sleeping, uses, evict>>

\* prepareUse ( chunk, true ), by a handle built with loadImmediately; on a chunk in
\* RAM or on its way there it does nothing.  It leaves useCnt alone.
PrepareUse(t, c) ==
    /\ LoadImmediately
    /\ Idle(t) /\ uses[t][c] = "none" /\ c \in ring
    /\ status[c] \in {"MEM_SWAPOUT", "MEM_SWAPPED"}
    /\ StartCall(t, WhereToWait(c), "prepare", c, FALSE, 0)
    /\ UNCHANGED <<chunkVars, memory_max, acctVars, dataVars, aioWaiter, sleeping, uses, evict>>

\* waitForSwapout, and what prepareUse makes of its result.
AwaitSwapOut(t) ==
    LET c == call[t].chunk IN
    /\ At(t, "swapOutWait")
    /\ \/ /\ status[c] = "MEM_SWAPOUT"
          /\ WaitForAIO(t)
          /\ UNCHANGED threadVars
       \/ /\ status[c] = "MEM_SWAPPED"
          /\ Goto(t, "space") /\ lock' = t
          /\ NothingArrives /\ UNCHANGED <<aioWaiter, call, evict>>
       \/ /\ status[c] \in Present
          /\ SwapInReturns(t)
          /\ NothingArrives /\ UNCHANGED aioWaiter
    /\ WaitFrame

\* waitForSwapin within setUse: until then the loop, afterwards the grant, which
\* starts from MEM_ALLOCATED whatever use the chunk is in by now.
AwaitSwapIn(t) ==
    LET c == call[t].chunk IN
    /\ At(t, "swapIn")
    /\ \/ /\ status[c] = "MEM_SWAPIN"
          /\ WaitForAIO(t)
          /\ UNCHANGED threadVars
          /\ WaitFrame
       \/ /\ status[c] \in Allocated
          /\ Grant(t, c, call[t].write, "MEM_ALLOCATED")
          /\ UNCHANGED <<useCnt, aio, ring, memory_max, acctVars, dataVars, aioWaiter, sleeping>>

\* The program writes through a pointer it holds a write use for.
Write(t, c) ==
    /\ pc[t] = "idle" /\ uses[t][c] = "write"
    /\ ramFresh' = [ramFresh EXCEPT ![c] = status[c] \in Allocated]
    /\ diskFresh' = [diskFresh EXCEPT ![c] = FALSE]
    /\ UNCHANGED <<chunkVars, memory_max, acctVars, syncVars, uses, threadVars>>

\* cyclicManagedMemory::untouch: what swapInFrac wants free and is not.
KeepFree == (memory_max * (100 - SwapInPercent)) \div 100
FreeNow  == memory_max - memory_used + memory_tobefreed

\* Mutation: the other users are forgotten.
StatusUnused(c) == IF status[c] \in InUse THEN "MEM_ALLOCATED" ELSE status[c]

\* The status after one use less.
StatusReleased(c) ==
    IF status[c] \in InUse /\ useCnt[c] = 1 THEN "MEM_ALLOCATED" ELSE status[c]

UnsetUse(t, c) ==
    /\ Idle(t) /\ uses[t][c] # "none"
    /\ useCnt' = [useCnt EXCEPT ![c] = @ - 1]
    /\ status' = [status EXCEPT ![c] = StatusReleased(c)]
    /\ uses' = [uses EXCEPT ![t][c] = "none"]
    /\ IF PreemptiveSwapOut /\ FreeNow \in 0..(KeepFree - 1)
       THEN CallSwapOut(t, KeepFree - FreeNow, "untouched") /\ UNCHANGED <<call, sleeping>>
       ELSE EndCall(t) /\ sleeping' = {}
    /\ UNCHANGED <<swapBuf, aio, ring, memory_max, acctVars, dataVars, aioWaiter>>

\* The rest of unsetUse after the swapOut of untouch: signalSwappingCond.
Untouched(t) ==
    /\ At(t, "untouched")
    /\ EndCall(t)
    /\ sleeping' = {}
    /\ UNCHANGED <<chunkVars, memory_max, acctVars, dataVars, aioWaiter, uses>>

\* The last part of mfree: swapDelete and the end of the chunk.
Dispose(t, c) ==
    /\ status' = [status EXCEPT ![c] = "ABSENT"]
    /\ swapBuf' = [swapBuf EXCEPT ![c] = FALSE]
    /\ memory_swapped' = IF status[c] = "MEM_SWAPPED" THEN memory_swapped - Size[c]
                                                      ELSE memory_swapped
    /\ ramFresh' = [ramFresh EXCEPT ![c] = FALSE]
    /\ diskFresh' = [diskFresh EXCEPT ![c] = FALSE]
    /\ EndCall(t)
    /\ UNCHANGED <<useCnt, aio, memory_max, memory_tobefreed, aioWaiter, sleeping, uses>>

\* Nobody uses the chunk or is about to: the program frees it after its last handle.
Unreferenced(c) == \A u \in Thread : uses[u][c] = "none" /\ call[u].chunk # c

\* mfree.  With a transfer under way pffree has to wait for it.
Mfree(t, c) ==
    /\ Idle(t) /\ c \in ring /\ Unreferenced(c)
    /\ ring' = ring \ {c}
    /\ memory_used' = IF status[c] = "MEM_ALLOCATED" THEN memory_used - Size[c]
                                                     ELSE memory_used
    /\ IF aio[c] = {}
       THEN Dispose(t, c)
       ELSE /\ StartCall(t, "pffree", "mfree", c, FALSE, 0)
            /\ UNCHANGED <<status, useCnt, swapBuf, aio, memory_max, memory_swapped,
                           memory_tobefreed, dataVars, aioWaiter, sleeping, uses, evict>>

PfFree(t) ==
    LET c == call[t].chunk IN
    /\ At(t, "pffree")
    /\ \/ /\ aio[c] # {}
          /\ WaitForAIO(t)
          /\ UNCHANGED threadVars
          /\ WaitFrame
       \/ /\ aio[c] = {}
          /\ Dispose(t, c)
          /\ UNCHANGED <<ring, memory_used>>

\* setMemoryLimit: raised, or lowered to what is in use at most, at once; else as
\* much as necessary is swapped out first.
SetMemoryLimit(t, n) ==
    /\ Idle(t) /\ n # memory_max
    /\ IF n > memory_max \/ n >= memory_used
       THEN /\ memory_max' = n
            /\ lock' = NoThread
            /\ UNCHANGED threadVars
       ELSE /\ Goto(t, "swapOut")
            /\ call' = [call EXCEPT ![t] = NewCall("limit", NoChunk, FALSE, n)]
            /\ evict' = [evict EXCEPT ![t] = NewEvict(memory_used - n, "shrink")]
            /\ lock' = t
            /\ UNCHANGED memory_max
    /\ UNCHANGED <<chunkVars, acctVars, dataVars, aioWaiter, sleeping, uses>>

\* On success the limit is set, and swapOut ( 0 ) adapts to it as far as it can.
Shrink(t) ==
    /\ At(t, "shrink")
    /\ IF evict[t].ok
       THEN /\ memory_max' = call[t].limit
            /\ CallSwapOut(t, 0, "shrunk")
            /\ UNCHANGED call
       ELSE EndCall(t) /\ UNCHANGED memory_max
    /\ UNCHANGED <<chunkVars, acctVars, dataVars, aioWaiter, sleeping, uses>>

Shrunk(t) ==
    /\ At(t, "shrunk")
    /\ EndCall(t)
    /\ UNCHANGED <<chunkVars, memory_max, acctVars, dataVars, aioWaiter, sleeping, uses>>

\* The exception of a call that left nothing behind is caught, and the thread goes
\* on; a failed setUse leaves its use count behind, and a pfmalloc that threw the mutex.
Recover(t) ==
    /\ pc[t] = "thrown" /\ call[t].op # "use" /\ lock # t
    /\ Goto(t, "idle")
    /\ call' = [call EXCEPT ![t] = NoCall]
    /\ evict' = [evict EXCEPT ![t] = NoEvict]
    /\ UNCHANGED <<chunkVars, memory_max, acctVars, dataVars, syncVars, uses>>
-----------------------------------------------------------------------------
(* Waiting for events.                                                     *)

\* The timed io_getevents returns, with what has arrived or with nothing; the
\* events are processed under the mutex, and aioWaiterLock is released.
PollReturn(t, after) ==
    /\ aioWaiter = t /\ lock = NoThread
    /\ \E E \in SUBSET Events : Arrive(E)
    /\ aioWaiter' = NoThread
    /\ lock' = after
    /\ UNCHANGED threadVars
    /\ WaitFrame

\* Mutation: the worker only looks when a thread waits.
WorkerCheckForSleepers ==
    /\ lock = NoThread /\ aioWaiter = NoThread /\ Pending # {} /\ sleeping # {}
    /\ TakeEvents(Worker, NoThread)
    /\ UNCHANGED threadVars
    /\ WaitFrame

\* io_arrrive_worker: every millisecond, while anything is queued.
WorkerCheck ==
    /\ lock = NoThread /\ aioWaiter = NoThread /\ Pending # {}
    /\ TakeEvents(Worker, NoThread)
    /\ UNCHANGED threadVars
    /\ WaitFrame
-----------------------------------------------------------------------------
Init ==
    /\ status  = [c \in Chunk |-> "ABSENT"]
    /\ useCnt  = [c \in Chunk |-> 0]
    /\ swapBuf = [c \in Chunk |-> FALSE]
    /\ aio     = [c \in Chunk |-> {}]
    /\ ring = {}
    /\ memory_max = InitialLimit
    /\ memory_used = 0 /\ memory_swapped = 0 /\ memory_tobefreed = 0
    /\ ramFresh  = [c \in Chunk |-> FALSE]
    /\ diskFresh = [c \in Chunk |-> FALSE]
    /\ lock = NoThread /\ aioWaiter = NoThread /\ sleeping = {}
    /\ uses = [t \in Thread |-> [c \in Chunk |-> "none"]]
    /\ pc    = [t \in Thread |-> "idle"]
    /\ call  = [t \in Thread |-> NoCall]
    /\ evict = [t \in Thread |-> NoEvict]

\* What the program does of its own accord.
Request(t) ==
    \/ \E c \in Chunk : \/ Mmalloc(t, c) \/ PrepareUse(t, c) \/ Mfree(t, c) \/ Write(t, c)
    \/ \E c \in Chunk, w \in BOOLEAN : SetUse(t, c, w) \/ SetUseAbsent(t, c, w)
    \/ \E n \in MemoryLimits : SetMemoryLimit(t, n)

Release(t) == \E c \in Chunk : UnsetUse(t, c)

\* What the call of a thread that has the mutex does next.
Step(t) ==
    \/ EnsureEnoughSpace(t) \/ Evicted(t) \/ MmallocDone(t)
    \/ SwapOutSelect(t) \/ Unload(t) \/ SwapOutDone(t)
    \/ SwapInNotNeeded(t) \/ SwapIn(t) \/ AwaitSwapOut(t) \/ AwaitSwapIn(t)
    \/ Untouched(t) \/ PfFree(t) \/ Shrink(t) \/ Shrunk(t)

IOStep ==
    \/ \E t \in Thread : PollReturn(t, t)
    \/ PollReturn(Worker, NoThread)
    \/ WorkerCheck

\* An exception nobody could recover from ended a thread.
Unwound == (\E t \in Thread : pc[t] = "thrown") /\ UNCHANGED vars

Next ==
    \/ \E t \in Thread : Request(t) \/ Release(t) \/ Step(t) \/ Recover(t)
    \/ IOStep
    \/ Unwound

Spec == Init /\ [][Next]_vars
-----------------------------------------------------------------------------
(* Properties.                                                             *)

Locations == {"idle", "space", "swapOut", "unload", "evicted", "swapOutWait", "swapIn",
              "untouched", "pffree", "shrink", "shrunk", "thrown"}

\* Every variable holds a value of its type (the accounts are unsigned in the code; that
\* they never wrap is part of Accounting).
TypeOK ==
    /\ status \in [Chunk -> Status]
    /\ useCnt \in [Chunk -> Nat]
    /\ swapBuf \in [Chunk -> BOOLEAN]
    /\ aio \in [Chunk -> SUBSET {"read", "write"}]
    /\ ring \subseteq Chunk
    /\ memory_max \in Nat
    /\ memory_used \in Int /\ memory_swapped \in Int /\ memory_tobefreed \in Int
    /\ ramFresh \in [Chunk -> BOOLEAN] /\ diskFresh \in [Chunk -> BOOLEAN]
    /\ lock \in Thread \cup {NoThread} /\ aioWaiter \in Thread \cup {Worker, NoThread}
    /\ sleeping \subseteq Thread
    /\ uses \in [Thread -> [Chunk -> {"none", "read", "write"}]]
    /\ pc \in [Thread -> Locations]
    /\ call \in [Thread -> [op : {"none", "mmalloc", "use", "prepare", "mfree", "limit"},
                            chunk : Chunk \cup {NoChunk}, write : BOOLEAN,
                            cleaned : BOOLEAN, limit : Nat]]
    /\ evict \in [Thread -> [min : Int, quota : Int, todo : SUBSET (Chunk \X Int),
                             real : Int, ok : BOOLEAN,
                             ret : {"idle", "evicted", "untouched", "shrink", "shrunk"}]]

\* The three accounts of managedMemory are the sums over the chunks they stand for:
\* a chunk on its way in or out is booked in RAM and in the swap.
Accounting ==
    /\ memory_used      = Bytes(Chunks(Allocated \cup {"MEM_SWAPIN", "MEM_SWAPOUT"}))
    /\ memory_swapped   = Bytes(Chunks({"MEM_SWAPPED", "MEM_SWAPIN", "MEM_SWAPOUT"}))
    /\ memory_tobefreed = Bytes(Chunks({"MEM_SWAPOUT"}))

\* A transfer is queued for a chunk exactly while its status says so: completing it
\* finds the status it expects ("AIO Synchronization broken!" is never thrown).
AioDiscipline ==
    \A c \in Chunk :
        aio[c] = IF status[c] = "MEM_SWAPIN" THEN {"read"}
                 ELSE IF status[c] = "MEM_SWAPOUT" THEN {"write"}
                 ELSE {}

\* A chunk some thread has set use on stays where that thread's pointer points.
PinnedResident ==
    \A t \in Thread, c \in Chunk : uses[t][c] # "none" => status[c] \in InUse

Users(c) == {t \in Thread : uses[t][c] # "none" \/ (call[t].op = "use" /\ call[t].chunk = c)}

\* useCnt counts the granted uses and the setUse calls under way or left by an exception.
PinCount == \A c \in Chunk : useCnt[c] = Cardinality(Users(c))

\* The last value written is never lost: it is in RAM while the chunk is there, and in
\* every page file copy the program may read back or reuse.
Coherent ==
    \A c \in Chunk :
        /\ status[c] \in Allocated \cup {"MEM_SWAPOUT"} => ramFresh[c]
        /\ status[c] \in {"MEM_SWAPPED", "MEM_SWAPIN"} => diskFresh[c]
        /\ c \in Cached => diskFresh[c]
        /\ status[c] \in {"MEM_SWAPOUT", "MEM_SWAPPED", "MEM_SWAPIN"} => swapBuf[c]

\* Who sleeps on swappingCond, or polls for events, has events to wait for.
SleepersHavePending ==
    sleeping # {} \/ aioWaiter # NoThread => Pending # {}

\* A chunk setUse waits for is there or on its way, so waitForSwapin succeeds.
AwaitedChunkComes ==
    \A t \in Thread : pc[t] = "swapIn" => status[call[t].chunk] \in Present

\* cleanupCachedElements "may safely delete the pageFileLocation": the location mfree is
\* at, in the wait of pffree, is still the chunk's own when the wait is over.  Refuted for
\* handles that load immediately (the run eager_free).
NoDoubleFree ==
    \A t \in Thread : pc[t] = "pffree" => swapBuf[call[t].chunk]

\* What is not already on its way out fits the limit in force.
Budget == memory_used - memory_tobefreed <= memory_max

\* The status changes chunkStatusScheme.dot shows, apart from creation and deletion.
DocumentedEdges ==
    {<<"MEM_ALLOCATED_INUSE_WRITE", "MEM_ALLOCATED">>,
     <<"MEM_ALLOCATED", "MEM_ALLOCATED_INUSE_WRITE">>,
     <<"MEM_ALLOCATED", "MEM_ALLOCATED_INUSE_READ">>,
     <<"MEM_ALLOCATED_INUSE_READ", "MEM_ALLOCATED_INUSE_WRITE">>,
     <<"MEM_ALLOCATED_INUSE_READ", "MEM_ALLOCATED">>,
     <<"MEM_ALLOCATED", "MEM_SWAPOUT">>, <<"MEM_SWAPOUT", "MEM_SWAPPED">>,
     <<"MEM_SWAPPED", "MEM_SWAPIN">>, <<"MEM_SWAPIN", "MEM_ALLOCATED">>}

\* Of the changes that are not in that graph, the code makes these.
UndocumentedEdges ==
    {<<"MEM_SWAPIN", "MEM_ALLOCATED_INUSE_READ">>,               \* arrival for a setUse
     <<"MEM_ALLOCATED", "MEM_SWAPPED">>,                         \* a cached chunk
     <<"MEM_ALLOCATED_INUSE_WRITE", "MEM_ALLOCATED_INUSE_READ">>} \* setUse after a wait

StatusMoves(Edges) ==
    \A c \in Chunk : \/ status'[c] = status[c] \/ "ABSENT" \in {status[c], status'[c]}
                     \/ <<status[c], status'[c]>> \in Edges

\* The status changes the code really makes: never one that skips a wait for IO.
StatusGraph == [][StatusMoves(DocumentedEdges \cup UndocumentedEdges)]_vars
-----------------------------------------------------------------------------
(* The manager implements ObjectStore.                                     *)

Recoverable(c) == IF status[c] \in Allocated \cup {"MEM_SWAPOUT"} THEN ramFresh[c]
                                                                  ELSE swapBuf[c] /\ diskFresh[c]

Store == INSTANCE ObjectStore WITH
    live <- ring,
    intact <- {c \in ring : Recoverable(c)},
    resident <- ring \cap Chunks(Allocated),
    holders <- [c \in Chunk |-> {t \in Thread : uses[t][c] # "none"}]

\* Whatever the manager does, a program sees an object store: objects keep their
\* contents through swapping, caching and IO, and held objects do not move.
ImplementsStore == Store!Spec
=============================================================================
