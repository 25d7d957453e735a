--------------------- MODULE ManagedMemoryEffects_proofs ---------------------
(***************************************************************************)
(* Proofs about what ManagedMemory does with memory: the accounts, the     *)
(* limit, the copies of a chunk and the object store a program sees.       *)
(*                                                                         *)
(* Control is left to ManagedMemory_proofs.  From its invariants follows   *)
(* first that every step has one of few effects on chunks, accounts and    *)
(* copies (NextEffect); each property is then proved effect by effect.     *)
(***************************************************************************)
EXTENDS ManagedMemory_proofs

-----------------------------------------------------------------------------
(* Sums of sizes.                                                          *)

\* No chunks have no bytes.
LEMMA BytesNone == Bytes({}) = 0
<1>1. UNION {{c} \X (1..Size[c]) : c \in {}} = {}
  OBVIOUS
<1> QED BY <1>1, FS_EmptySet DEF Bytes

\* A chunk has as many bytes as its size says.
LEMMA BytesOne ==
    ASSUME NEW c \in Chunk
    PROVE  Bytes({c}) = Size[c]
<1>1. Size[c] \in Nat
  BY ConstantsAssumption
<1>2. IsFiniteSet(1..Size[c]) /\ Cardinality(1..Size[c]) = Size[c]
  BY <1>1, FS_Interval
<1>3. IsFiniteSet({c}) /\ Cardinality({c}) = 1
  BY FS_Singleton
<1>4. Cardinality({c} \X (1..Size[c])) = Size[c]
  <2>1. Cardinality({c} \X (1..Size[c])) = Cardinality({c}) * Cardinality(1..Size[c])
    BY <1>2, <1>3, FS_Product
  <2> QED BY <1>1, <1>2, <1>3, <2>1
<1>5. UNION {{d} \X (1..Size[d]) : d \in {c}} = {c} \X (1..Size[c])
  OBVIOUS
<1> QED BY <1>4, <1>5 DEF Bytes

\* The bytes of chunks without some of them are the rest.
LEMMA BytesWithout ==
    ASSUME NEW S \in SUBSET Chunk, NEW T \in SUBSET S
    PROVE  Bytes(S \ T) = Bytes(S) - Bytes(T)
<1> DEFINE U(X) == UNION {{c} \X (1..Size[c]) : c \in X}
<1>1. U(S \ T) = U(S) \ U(T)
  <2>1. ASSUME NEW x PROVE x \in U(S \ T) <=> x \in U(S) \ U(T)
    <3>1. \A X : x \in U(X) <=> \E c \in X : x \in {c} \X (1..Size[c])
      OBVIOUS
    <3>2. \A c, d : x \in {c} \X (1..Size[c]) /\ x \in {d} \X (1..Size[d]) => c = d
      OBVIOUS
    <3> HIDE DEF U
    <3> QED BY <3>1, <3>2
  <2> HIDE DEF U
  <2> QED BY <2>1
<1>2. U(T) \subseteq U(S)
  OBVIOUS
<1>3. IsFiniteSet(U(S)) /\ IsFiniteSet(U(T))
  BY FootprintFinite
<1> HIDE DEF U
<1>4. Cardinality(U(S) \ U(T)) = Cardinality(U(S)) - Cardinality(U(S) \cap U(T))
  BY <1>3, FS_Difference
<1>5. U(S) \cap U(T) = U(T)
  BY <1>2
<1> QED BY <1>1, <1>4, <1>5 DEF Bytes, U

\* A chunk more, or a chunk less.
LEMMA BytesMoves ==
    ASSUME NEW S \in SUBSET Chunk, NEW c \in Chunk
    PROVE  /\ Bytes(S \ {c}) = IF c \in S THEN Bytes(S) - Size[c] ELSE Bytes(S)
           /\ Bytes(S \cup {c}) = IF c \in S THEN Bytes(S) ELSE Bytes(S) + Size[c]
<1>1. ASSUME NEW T \in SUBSET Chunk, c \in T PROVE Bytes(T \ {c}) = Bytes(T) - Size[c]
  BY <1>1, BytesWithout, BytesOne
<1>2. CASE c \in S
  <2>1. S \cup {c} = S
    BY <1>2
  <2> QED BY <1>1, <1>2, <2>1
<1>3. CASE c \notin S
  <2>1. S \ {c} = S /\ (S \cup {c}) \ {c} = S
    BY <1>3
  <2>2. Bytes(S) = Bytes(S \cup {c}) - Size[c]
    BY <1>1, <2>1
  <2>3. Bytes(S) \in Nat /\ Bytes(S \cup {c}) \in Nat /\ Size[c] \in Nat
    BY BytesType, ConstantsAssumption
  <2>4. Bytes(S \cup {c}) = Bytes(S) + Size[c]
    BY <2>2, <2>3
  <2>5. Bytes(S \ {c}) = Bytes(S)
    BY <2>1
  <2> QED BY <1>3, <2>4, <2>5
<1> QED BY <1>2, <1>3

-----------------------------------------------------------------------------
(* What a step may do to memory.                                           *)

\* Locations are only taken away from chunks that are in RAM.
Cleans == \A c \in Chunk : swapBuf'[c] = swapBuf[c] \/ (c \in Cached /\ ~swapBuf'[c])

\* Nothing happens, but that the cache may be cleaned.
Quiet == Cleans /\ UNCHANGED <<status, acctVars, dataVars, ring, uses>>

\* Transfers complete; the thread that was waiting for them may clean the cache.
Arrived ==
    /\ \E E \in SUBSET Events : Arrive(E)
    /\ Cleans /\ UNCHANGED <<ring, uses>>

\* Chunk c comes to be, within the limit.
Created(c) ==
    /\ status[c] = "ABSENT"
    /\ status' = [status EXCEPT ![c] = "MEM_ALLOCATED"]
    /\ ring' = ring \cup {c}
    /\ memory_used' = memory_used + Size[c] /\ memory_used' <= memory_max
    /\ ramFresh' = [ramFresh EXCEPT ![c] = TRUE]
    /\ UNCHANGED <<swapBuf, memory_swapped, memory_tobefreed, diskFresh, uses>>

\* The RAM copy of the cached chunk c is dropped.
Dropped(c) ==
    /\ status[c] = "MEM_ALLOCATED" /\ swapBuf[c]
    /\ status' = [status EXCEPT ![c] = "MEM_SWAPPED"]
    /\ memory_used' = memory_used - Size[c]
    /\ memory_swapped' = memory_swapped + Size[c]
    /\ ramFresh' = [ramFresh EXCEPT ![c] = FALSE]
    /\ UNCHANGED <<swapBuf, ring, memory_tobefreed, diskFresh, uses>>

\* Chunk c gets a location and starts on its way to it.
WriteStarted(c) ==
    /\ status[c] = "MEM_ALLOCATED"
    /\ status' = [status EXCEPT ![c] = "MEM_SWAPOUT"]
    /\ swapBuf'[c]
    /\ \A d \in Chunk \ {c} : swapBuf'[d] = swapBuf[d] \/ (d \in Cached /\ ~swapBuf'[d])
    /\ memory_swapped' = memory_swapped + Size[c]
    /\ memory_tobefreed' = memory_tobefreed + Size[c]
    /\ UNCHANGED <<memory_used, ring, dataVars, uses>>

\* Chunk c starts on its way back, within the limit.
ReadStarted(c) ==
    /\ status[c] = "MEM_SWAPPED"
    /\ status' = [status EXCEPT ![c] = "MEM_SWAPIN"]
    /\ memory_used' = memory_used + Size[c] /\ memory_used' <= memory_max
    /\ UNCHANGED <<swapBuf, memory_swapped, memory_tobefreed, ring, dataVars, uses>>

\* Thread t is granted a use of chunk c.
Granted(t, c) ==
    /\ c \in ring /\ status[c] \in Allocated
    /\ \E w \in BOOLEAN, st \in {status[c], "MEM_ALLOCATED"} : Grant(t, c, w, st)
    /\ UNCHANGED <<ring, acctVars, dataVars>>

\* Thread t gives its use of chunk c back.
Released(t, c) ==
    /\ uses[t][c] # "none"
    /\ status' = [status EXCEPT ![c] = StatusReleased(c)]
    /\ uses' = [uses EXCEPT ![t][c] = "none"]
    /\ UNCHANGED <<swapBuf, ring, acctVars, dataVars>>

\* Thread t writes to chunk c.
Written(t, c) ==
    /\ uses[t][c] = "write"
    /\ ramFresh' = [ramFresh EXCEPT ![c] = status[c] \in Allocated]
    /\ diskFresh' = [diskFresh EXCEPT ![c] = FALSE]
    /\ UNCHANGED <<status, swapBuf, ring, acctVars, uses>>

\* The unused chunk c ends.
Freed(c) ==
    /\ status[c] \in {"MEM_ALLOCATED", "MEM_SWAPPED"}
    /\ \A t \in Thread : uses[t][c] = "none"
    /\ ring' = ring \ {c}
    /\ status' = [status EXCEPT ![c] = "ABSENT"]
    /\ swapBuf' = [swapBuf EXCEPT ![c] = FALSE]
    /\ memory_used' = IF status[c] = "MEM_ALLOCATED" THEN memory_used - Size[c] ELSE memory_used
    /\ memory_swapped' = IF status[c] = "MEM_SWAPPED" THEN memory_swapped - Size[c]
                                                      ELSE memory_swapped
    /\ ramFresh' = [ramFresh EXCEPT ![c] = FALSE]
    /\ diskFresh' = [diskFresh EXCEPT ![c] = FALSE]
    /\ UNCHANGED <<memory_tobefreed, uses>>

\* The unused chunk c is to end, once it has been written out.
Condemned(c) ==
    /\ status[c] = "MEM_SWAPOUT"
    /\ \A t \in Thread : uses[t][c] = "none"
    /\ ring' = ring \ {c}
    /\ UNCHANGED <<status, swapBuf, acctVars, dataVars, uses>>

Effect ==
    \/ Quiet \/ Arrived
    \/ \E c \in Chunk : \/ Created(c) \/ Dropped(c) \/ WriteStarted(c) \/ ReadStarted(c)
                        \/ Freed(c) \/ Condemned(c)
    \/ \E t \in Thread, c \in Chunk : Granted(t, c) \/ Released(t, c) \/ Written(t, c)

\* cleanupCachedElements cleans.
LEMMA CleaningCleans ==
    /\ UNCHANGED swapBuf => Cleans
    /\ TypeOK /\ FreeLocations(Cached) => Cleans
    /\ \A min : \A K \in Cleanups(min) : TypeOK /\ FreeLocations(K) => Cleans
<1>1. ASSUME TypeOK, NEW K \in SUBSET Cached, FreeLocations(K) PROVE Cleans
  BY <1>1 DEF Cleans, FreeLocations, TypeOK
<1>2. \A min : Cleanups(min) \subseteq SUBSET Cached
  BY DEF Cleanups
<1> QED BY <1>1, <1>2 DEF Cleans

\* Looking for events.
LEMMA TakeEventsEffect ==
    ASSUME NEW t, NEW after, TakeEvents(t, after), Cleans, UNCHANGED <<ring, uses>>
    PROVE  Effect
<1>1. CASE NothingArrives
  BY <1>1 DEF NothingArrives, Quiet, Effect
<1>2. ASSUME NEW E \in SUBSET Events, Arrive(E) PROVE Effect
  BY <1>2 DEF Arrived, Effect
<1> QED BY <1>1, <1>2 DEF TakeEvents

\* waitForAIO.
LEMMA WaitEffect ==
    ASSUME NEW t, WaitForAIO(t), Cleans, UNCHANGED <<ring, uses>>
    PROVE  Effect
<1>1. CASE UNCHANGED <<status, acctVars, dataVars>>
  BY <1>1 DEF Quiet, Effect
<1>2. CASE TakeEvents(t, t)
  BY <1>2, TakeEventsEffect
<1> QED BY <1>1, <1>2 DEF WaitForAIO, NothingArrives

\* The steps of swapOut.
LEMMA SwapOutEffect ==
    ASSUME TypeOK, NEW t \in Thread, SwapOutSelect(t) \/ Unload(t) \/ SwapOutDone(t)
    PROVE  Effect
<1>1. CASE SwapOutSelect(t) \/ SwapOutDone(t)
  <2>1. Cleans
    BY <1>1, CleaningCleans DEF SwapOutSelect, SwapOutDone
  <2> QED BY <1>1, <2>1 DEF SwapOutSelect, SwapOutDone, SwapOutFrame, Quiet, Effect
<1>2. ASSUME NEW v \in evict[t].todo, UnloadSkip(t, v) \/ UnloadThrow(t, v) PROVE Effect
  <2>1. Cleans
    BY <1>2, CleaningCleans DEF UnloadSkip, UnloadThrow
  <2> QED BY <1>2, <2>1 DEF UnloadSkip, UnloadThrow, Unloaded, Quiet, Effect
<1>3. ASSUME NEW v \in evict[t].todo PROVE v[1] \in Chunk
  BY DEF TypeOK
<1>4. ASSUME NEW v \in evict[t].todo, UnloadCached(t, v) PROVE Effect
  <2>1. Dropped(v[1])
    BY <1>4 DEF UnloadCached, Unloaded, Dropped
  <2> QED BY <1>3, <2>1 DEF Effect
<1>5. ASSUME NEW v \in evict[t].todo, UnloadWrite(t, v) PROVE Effect
  <2> DEFINE c == v[1]
  <2>1. PICK K \in SUBSET Cached : swapBuf' = [d \in Chunk |-> d = c \/ (swapBuf[d] /\ d \notin K)]
    BY <1>5 DEF UnloadWrite, Cleanups
  <2>2. swapBuf'[c] /\ \A d \in Chunk \ {c} : swapBuf'[d] = swapBuf[d] \/ (d \in Cached /\ ~swapBuf'[d])
    BY <1>3, <2>1 DEF TypeOK
  <2>3. WriteStarted(c)
    BY <1>5, <2>2 DEF UnloadWrite, Unloaded, WriteStarted
  <2> QED BY <1>3, <2>3 DEF Effect
<1> QED BY <1>1, <1>2, <1>4, <1>5 DEF Unload

\* What reserves room, and what follows.
LEMMA SpaceEffect ==
    ASSUME TypeInv, SafeInv, ~LoadImmediately, NEW t \in Thread,
           \/ EnsureEnoughSpace(t) \/ Evicted(t) \/ MmallocDone(t)
           \/ SwapInNotNeeded(t) \/ SwapIn(t)
    PROVE  Effect
<1>0. TypeOK /\ CallDiscipline
  BY DEF TypeInv
<1> DEFINE c == call[t].chunk
<1>1. CallOK(t) /\ Where(t) = pc[t] /\ call[t].op \in {"mmalloc", "use"} /\ c \in Chunk
  <2>1. Where(t) = pc[t] /\ pc[t] \in {"space", "evicted"}
    BY DEF EnsureEnoughSpace, Evicted, MmallocDone, SwapInNotNeeded, SwapIn, At, Where
  <2>2. call[t].op \in {"mmalloc", "use", "prepare"} /\ c \in Chunk
    BY <1>0, <2>1 DEF CallDiscipline, CallAtPlace, OpsAt
  <2> QED BY <2>1, <2>2 DEF SafeInv, CallOK
<1>2. CASE EnsureEnoughSpace(t)
  <2>1. Cleans /\ UNCHANGED <<ring, uses>>
    BY <1>2, CleaningCleans DEF EnsureEnoughSpace, WaitFrame
  <2>2. CASE NothingArrives
    BY <2>1, <2>2 DEF NothingArrives, Quiet, Effect
  <2> QED BY <1>2, <2>1, <2>2, WaitEffect DEF EnsureEnoughSpace
<1>3. CASE Evicted(t)
  <2>1. Cleans /\ UNCHANGED <<ring, uses>>
    BY <1>0, <1>3, CleaningCleans DEF Evicted
  <2>2. CASE NothingArrives
    BY <2>1, <2>2 DEF NothingArrives, Quiet, Effect
  <2> QED BY <1>3, <2>1, <2>2, WaitEffect DEF Evicted
<1>4. CASE MmallocDone(t)
  <2>1. status[c] = "ABSENT" /\ Size[c] + memory_used <= memory_max
    BY <1>1, <1>4 DEF MmallocDone, CallOK, Fits
  <2>2. Size[c] + memory_used = memory_used + Size[c]
    BY <1>0, <1>1, ConstantsAssumption DEF TypeOK
  <2>3. Created(c)
    BY <1>4, <2>1, <2>2 DEF MmallocDone, Created
  <2> QED BY <1>1, <2>3 DEF Effect
<1>5. CASE SwapInNotNeeded(t)
  <2>1. Cleans
    BY <1>5, CleaningCleans DEF SwapInNotNeeded, chunkVars
  <2> QED BY <1>5, <2>1 DEF SwapInNotNeeded, chunkVars, Quiet, Effect
<1>6. CASE SwapIn(t)
  <2>1. call[t].op = "use" /\ status[c] # "MEM_SWAPOUT" /\ status[c] \notin Present
    BY <1>1, <1>6 DEF SwapIn, At, AlreadyThere, CallOK
  <2>2. status[c] = "MEM_SWAPPED"
    BY <1>0, <1>1, <2>1, UserKnown DEF TypeOK, Status
  <2>3. Size[c] + memory_used <= memory_max
    BY <1>6 DEF SwapIn, Fits
  <2>4. Size[c] + memory_used = memory_used + Size[c]
    BY <1>0, <1>1, ConstantsAssumption DEF TypeOK
  <2>5. ReadStarted(c)
    BY <1>6, <2>2, <2>3, <2>4 DEF SwapIn, ReadStarted
  <2> QED BY <1>1, <2>5 DEF Effect
<1> QED BY <1>2, <1>3, <1>4, <1>5, <1>6

\* The other steps of a call.
LEMMA WaitStepEffect ==
    ASSUME TypeInv, SafeInv, ~LoadImmediately, NEW t \in Thread,
           \/ AwaitSwapOut(t) \/ AwaitSwapIn(t) \/ PfFree(t)
           \/ Untouched(t) \/ Shrink(t) \/ Shrunk(t) \/ Recover(t)
    PROVE  Effect
<1>0. TypeOK /\ CallDiscipline
  BY DEF TypeInv
<1> DEFINE c == call[t].chunk
<1>1. ASSUME WaitForAIO(t), WaitFrame PROVE Effect
  <2>1. Cleans /\ UNCHANGED <<ring, uses>>
    BY <1>1, CleaningCleans DEF WaitFrame
  <2> QED BY <1>1, <2>1, WaitEffect
<1>2. CASE AwaitSwapOut(t)
  <2>1. CASE NothingArrives
    <3>1. Cleans /\ UNCHANGED <<ring, uses>>
      BY <1>2, CleaningCleans DEF AwaitSwapOut, WaitFrame
    <3> QED BY <2>1, <3>1 DEF NothingArrives, Quiet, Effect
  <2> QED BY <1>1, <1>2, <2>1 DEF AwaitSwapOut
<1>3. CASE AwaitSwapIn(t)
  <2>1. CASE /\ status[c] \in Allocated
             /\ Grant(t, c, call[t].write, "MEM_ALLOCATED")
             /\ UNCHANGED <<useCnt, aio, ring, memory_max, acctVars, dataVars, aioWaiter, sleeping>>
    <3>1. call[t].op = "use"
      BY <1>0, <1>3 DEF AwaitSwapIn, At, CallDiscipline, CallAtPlace, Where, OpsAt
    <3>2. c \in Chunk /\ c \in ring
      BY <3>1, UserKnown
    <3>3. call[t].write \in BOOLEAN
      BY <1>0 DEF TypeOK
    <3>4. Granted(t, c)
      BY <2>1, <3>2, <3>3 DEF Granted
    <3> QED BY <3>2, <3>4 DEF Effect
  <2> QED BY <1>1, <1>3, <2>1 DEF AwaitSwapIn
<1>4. CASE PfFree(t)
  <2>1. call[t].op = "mfree" /\ c \in Chunk
    BY <1>0, <1>4 DEF PfFree, At, CallDiscipline, CallAtPlace, Where, OpsAt
  <2>2. c \notin ring /\ status[c] \in {"MEM_SWAPOUT", "MEM_SWAPPED"} /\ ChunkOK(c)
    BY <2>1 DEF SafeInv, CallOK
  <2>3. CASE aio[c] = {} /\ Dispose(t, c) /\ UNCHANGED <<ring, memory_used>>
    <3>1. status[c] = "MEM_SWAPPED"
      BY <2>2, <2>3 DEF ChunkOK
    <3>2. \A u \in Thread : uses[u][c] = "none"
      BY <2>2, <3>1 DEF ChunkOK, InUse
    <3>3. Freed(c)
      BY <2>2, <2>3, <3>1, <3>2 DEF Dispose, Freed
    <3> QED BY <2>1, <3>3 DEF Effect
  <2> QED BY <1>1, <1>4, <2>3 DEF PfFree
<1>5. CASE Untouched(t) \/ Shrink(t) \/ Shrunk(t) \/ Recover(t)
  <2>1. Cleans
    BY <1>5, CleaningCleans DEF Untouched, Shrink, Shrunk, Recover, chunkVars
  <2> QED BY <1>5, <2>1 DEF Untouched, Shrink, Shrunk, Recover, chunkVars, Quiet, Effect
<1> QED BY <1>2, <1>3, <1>4, <1>5

\* The calls of the program.
LEMMA RequestEffect ==
    ASSUME TypeInv, SafeInv, ~LoadImmediately, NEW t \in Thread, Request(t) \/ Release(t)
    PROVE  Effect
<1>0. TypeOK /\ PinCount
  BY DEF TypeInv
<1>1. CASE \/ \E c \in Chunk, w \in BOOLEAN : Mmalloc(t, c) \/ SetUseAbsent(t, c, w)
           \/ \E n \in MemoryLimits : SetMemoryLimit(t, n)
  <2>1. Cleans
    BY <1>1, CleaningCleans DEF Mmalloc, SetUseAbsent, SetMemoryLimit, chunkVars
  <2> QED BY <1>1, <2>1 DEF Mmalloc, SetUseAbsent, SetMemoryLimit, chunkVars, Quiet, Effect
<1>2. ASSUME NEW c \in Chunk, Mfree(t, c) PROVE Effect
  <2>1. c \in ring /\ ring' = ring \ {c} /\ \A u \in Thread : uses[u][c] = "none"
    BY <1>2 DEF Mfree, Unreferenced
  <2>2. useCnt[c] = 0
    <3>1. Users(c) = {}
      BY <1>2 DEF Mfree, Unreferenced, Users
    <3> QED BY <1>0, <3>1, FS_EmptySet DEF PinCount
  <2>3. status[c] \in {"MEM_ALLOCATED", "MEM_SWAPPED", "MEM_SWAPOUT"} /\ ChunkOK(c)
    BY <1>0, <2>1, <2>2 DEF SafeInv, ChunkOK, TypeOK, Status, Present, Allocated
  <2>4. CASE aio[c] = {} /\ Dispose(t, c)
    <3>1. status[c] # "MEM_SWAPOUT"
      BY <2>3, <2>4 DEF ChunkOK
    <3>2. Freed(c)
      BY <1>2, <2>1, <2>3, <2>4, <3>1 DEF Mfree, Dispose, Freed
    <3> QED BY <3>2 DEF Effect
  <2>5. CASE aio[c] # {} /\ UNCHANGED <<status, swapBuf, memory_swapped, memory_tobefreed,
                                        dataVars, uses>>
    <3>1. status[c] = "MEM_SWAPOUT"
      BY <2>3, <2>5 DEF ChunkOK
    <3>2. memory_used' = memory_used
      BY <1>2, <3>1 DEF Mfree
    <3>3. Condemned(c)
      BY <2>1, <2>5, <3>1, <3>2 DEF Condemned, acctVars
    <3> QED BY <3>3 DEF Effect
  <2> QED BY <1>2, <2>4, <2>5 DEF Mfree
<1>3. ASSUME NEW c \in Chunk, Write(t, c) PROVE Effect
  <2>1. Written(t, c)
    BY <1>3 DEF Write, Written, chunkVars
  <2> QED BY <2>1 DEF Effect
<1>4. ASSUME NEW c \in Chunk, NEW w \in BOOLEAN, SetUse(t, c, w) PROVE Effect
  <2>1. Granted(t, c)
    BY <1>4 DEF SetUse, Granted
  <2> QED BY <2>1 DEF Effect
<1>5. ASSUME NEW c \in Chunk, UnsetUse(t, c) PROVE Effect
  <2>1. Released(t, c)
    BY <1>5 DEF UnsetUse, Released
  <2> QED BY <2>1 DEF Effect
<1>6. ASSUME NEW c \in Chunk, PrepareUse(t, c) PROVE Effect
  BY <1>6 DEF PrepareUse
<1> QED BY <1>1, <1>2, <1>3, <1>4, <1>5, <1>6 DEF Request, Release

\* Every step has one of the effects.
LEMMA NextEffect ==
    ASSUME TypeInv, SafeInv, ~LoadImmediately, [Next]_vars
    PROVE  Effect
<1>1. CASE Unwound \/ UNCHANGED vars
  <2>1. Cleans
    BY <1>1, CleaningCleans DEF Unwound, vars, chunkVars
  <2> QED BY <1>1, <2>1 DEF Unwound, vars, chunkVars, Quiet, Effect
<1>2. ASSUME NEW t \in Thread, Request(t) \/ Release(t) \/ Step(t) \/ Recover(t) PROVE Effect
  BY <1>2, RequestEffect, SwapOutEffect, SpaceEffect, WaitStepEffect DEF Step, TypeInv
<1>3. CASE IOStep
  <2>1. Cleans /\ UNCHANGED <<ring, uses>>
    BY <1>3, CleaningCleans DEF IOStep, PollReturn, WorkerCheck, WaitFrame
  <2>2. ASSUME NEW E \in SUBSET Events, Arrive(E) PROVE Effect
    BY <2>1, <2>2 DEF Arrived, Effect
  <2>3. CASE TakeEvents(Worker, NoThread)
    BY <2>1, <2>3, TakeEventsEffect
  <2> QED BY <1>3, <2>2, <2>3 DEF IOStep, PollReturn, WorkerCheck
<1> QED BY <1>1, <1>2, <1>3 DEF Next

-----------------------------------------------------------------------------
(* The accounts.                                                           *)

InRam    == Allocated \cup {"MEM_SWAPIN", "MEM_SWAPOUT"}
InSwap   == {"MEM_SWAPPED", "MEM_SWAPIN", "MEM_SWAPOUT"}
GoingOut == {"MEM_SWAPOUT"}

\* A sum over the chunks with a status in S is an integer, also in the next state.
LEMMA BookedType ==
    ASSUME NEW S
    PROVE  Bytes(Chunks(S)) \in Nat /\ Bytes(Chunks(S))' \in Nat
<1>1. Chunks(S) \subseteq Chunk /\ Chunks(S)' \subseteq Chunk
  BY DEF Chunks
<1>2. \A T \in SUBSET Chunk : Bytes(T) \in Nat
  BY BytesType
<1> QED BY <1>1, <1>2

\* What the new status of one chunk does to such a sum.
LEMMA BookedMoves ==
    ASSUME TypeOK, NEW S, NEW c \in Chunk, NEW s, status' = [status EXCEPT ![c] = s]
    PROVE  Bytes(Chunks(S))' = Bytes(Chunks(S)) + (IF s \in S THEN Size[c] ELSE 0)
                                                - (IF status[c] \in S THEN Size[c] ELSE 0)
<1> DEFINE B == Chunks(S)
           N == {d \in Chunk : status'[d] \in S}
<1>1. B \in SUBSET Chunk /\ (c \in B <=> status[c] \in S)
  BY DEF Chunks
<1>2. N = IF s \in S THEN B \cup {c} ELSE B \ {c}
  BY DEF Chunks, TypeOK
<1>3. Bytes(B) \in Nat /\ Size[c] \in Nat
  BY <1>1, BytesType, ConstantsAssumption
<1>4. Bytes(Chunks(S))' = Bytes(N)
  BY DEF Chunks
<1> HIDE DEF B, N
<1>5. /\ Bytes(B \ {c}) = IF c \in B THEN Bytes(B) - Size[c] ELSE Bytes(B)
      /\ Bytes(B \cup {c}) = IF c \in B THEN Bytes(B) ELSE Bytes(B) + Size[c]
  BY <1>1, BytesMoves
<1>6. CASE s \in S
  <2>1. Bytes(N) = Bytes(B \cup {c})
    BY <1>2, <1>6
  <2>2. Bytes(N) = Bytes(B) + Size[c] - (IF status[c] \in S THEN Size[c] ELSE 0)
    BY <1>1, <1>3, <1>5, <2>1
  <2> QED BY <1>4, <1>6, <2>2 DEF B
<1>7. CASE s \notin S
  <2>1. Bytes(N) = Bytes(B \ {c})
    BY <1>2, <1>7
  <2>2. Bytes(N) = Bytes(B) + 0 - (IF status[c] \in S THEN Size[c] ELSE 0)
    BY <1>1, <1>3, <1>5, <2>1
  <2> QED BY <1>4, <1>7, <2>2 DEF B
<1> QED BY <1>6, <1>7

\* The accounts follow the new status of one chunk.
LEMMA OneBooked ==
    ASSUME TypeOK, Accounting, NEW c \in Chunk, NEW s, status' = [status EXCEPT ![c] = s],
           memory_used' = memory_used + (IF s \in InRam THEN Size[c] ELSE 0)
                                      - (IF status[c] \in InRam THEN Size[c] ELSE 0),
           memory_swapped' = memory_swapped + (IF s \in InSwap THEN Size[c] ELSE 0)
                                            - (IF status[c] \in InSwap THEN Size[c] ELSE 0),
           memory_tobefreed' = memory_tobefreed + (IF s \in GoingOut THEN Size[c] ELSE 0)
                                                - (IF status[c] \in GoingOut THEN Size[c] ELSE 0)
    PROVE  Accounting'
<1>1. memory_used' = Bytes(Chunks(InRam))'
  BY BookedMoves DEF Accounting, InRam
<1>2. memory_swapped' = Bytes(Chunks(InSwap))'
  BY BookedMoves DEF Accounting, InSwap
<1>3. memory_tobefreed' = Bytes(Chunks(GoingOut))'
  BY BookedMoves DEF Accounting, GoingOut
<1> QED BY <1>1, <1>2, <1>3 DEF Accounting, InRam, InSwap, GoingOut

\* The arrival of events takes what was written out off the RAM and what was read in off
\* the swap.
LEMMA ArriveBooked ==
    ASSUME TypeOK, AioDiscipline, Accounting, NEW E \in SUBSET Events, Arrive(E)
    PROVE  Accounting'
<1> DEFINE In  == {c \in E : status[c] = "MEM_SWAPIN"}
           Out == {c \in E : status[c] = "MEM_SWAPOUT"}
<1>1. In \subseteq Chunk /\ Out \subseteq Chunk
  BY DEF Events
<1>2. /\ memory_used' = memory_used - Bytes(Out)
      /\ memory_swapped' = memory_swapped - Bytes(In)
      /\ memory_tobefreed' = memory_tobefreed - Bytes(Out)
      /\ \A c \in Chunk : status'[c] = IF c \in In \cup Out THEN Completed(c) ELSE status[c]
  BY DEF Arrive, UnclaimTobefreed
<1>3. /\ \A c \in Out : status[c] = "MEM_SWAPOUT" /\ status'[c] = "MEM_SWAPPED"
      /\ \A c \in In : status[c] = "MEM_SWAPIN" /\ status'[c] \in Allocated
  BY <1>1, <1>2 DEF Completed, Allocated, InUse
<1>4. Chunks(InRam)' = Chunks(InRam) \ Out /\ Out \subseteq Chunks(InRam)
  BY <1>1, <1>2, <1>3 DEF Chunks, InRam, Allocated, InUse
<1>5. Chunks(InSwap)' = Chunks(InSwap) \ In /\ In \subseteq Chunks(InSwap)
  BY <1>1, <1>2, <1>3 DEF Chunks, InSwap, Allocated, InUse
<1>6. Chunks(GoingOut)' = Chunks(GoingOut) \ Out /\ Out \subseteq Chunks(GoingOut)
  BY <1>1, <1>2, <1>3 DEF Chunks, GoingOut, Allocated, InUse
<1>7. \A S : Chunks(S) \subseteq Chunk
  BY DEF Chunks
<1> HIDE DEF In, Out
<1>8. Bytes(Chunks(InRam))' = Bytes(Chunks(InRam)) - Bytes(Out)
  BY <1>4, <1>7, BytesWithout
<1>9. Bytes(Chunks(InSwap))' = Bytes(Chunks(InSwap)) - Bytes(In)
  BY <1>5, <1>7, BytesWithout
<1>10. Bytes(Chunks(GoingOut))' = Bytes(Chunks(GoingOut)) - Bytes(Out)
  BY <1>6, <1>7, BytesWithout
<1> QED BY <1>2, <1>8, <1>9, <1>10 DEF Accounting, InRam, InSwap, GoingOut

\* Chunks that only change between statuses of RAM are booked as before.
LEMMA StayBooked ==
    ASSUME TypeOK, Accounting, UNCHANGED acctVars,
           \A c \in Chunk : status'[c] = status[c] \/ {status[c], status'[c]} \subseteq Allocated
    PROVE  Accounting'
<1>1. Chunks(InRam)' = Chunks(InRam) /\ Chunks(InSwap)' = Chunks(InSwap)
      /\ Chunks(GoingOut)' = Chunks(GoingOut)
  BY DEF Chunks, InRam, InSwap, GoingOut, Allocated, InUse
<1>2. /\ Bytes(Chunks(InRam))' = Bytes(Chunks(InRam))
      /\ Bytes(Chunks(InSwap))' = Bytes(Chunks(InSwap))
      /\ Bytes(Chunks(GoingOut))' = Bytes(Chunks(GoingOut))
  BY <1>1
<1> QED BY <1>2 DEF Accounting, InRam, InSwap, GoingOut, acctVars

\* A grant leaves the chunk in RAM, and the others alone.
LEMMA GrantStays ==
    ASSUME TypeOK, NEW t \in Thread, NEW c \in Chunk, Granted(t, c)
    PROVE  /\ status[c] \in Allocated /\ status'[c] \in InUse
           /\ \A d \in Chunk \ {c} : status'[d] = status[d] /\ swapBuf'[d] = swapBuf[d]
BY DEF Granted, Grant, TypeOK, Allocated, InUse

\* The end of a use leaves the chunk in RAM, and the others alone.
LEMMA ReleaseStays ==
    ASSUME TypeOK, NEW t \in Thread, NEW c \in Chunk, Released(t, c)
    PROVE  /\ status'[c] = status[c] \/ (status[c] \in InUse /\ status'[c] = "MEM_ALLOCATED")
           /\ \A d \in Chunk \ {c} : status'[d] = status[d]
BY DEF Released, StatusReleased, TypeOK

\* Whatever a step does to memory is booked.
LEMMA EffectBooked ==
    ASSUME TypeOK, AioDiscipline, Accounting, Effect
    PROVE  Accounting'
<1>1. CASE Quiet
  BY <1>1, StayBooked DEF Quiet
<1>2. CASE Arrived
  BY <1>2, ArriveBooked DEF Arrived
<1> SUFFICES ASSUME NEW c \in Chunk,
                    \/ Created(c) \/ Dropped(c) \/ WriteStarted(c) \/ ReadStarted(c)
                    \/ Freed(c) \/ Condemned(c)
                    \/ \E t \in Thread : Granted(t, c) \/ Released(t, c) \/ Written(t, c)
             PROVE  Accounting'
  BY <1>1, <1>2 DEF Effect
<1> DEFINE z == Size[c]
<1>0. z \in Nat /\ memory_used \in Int /\ memory_swapped \in Int /\ memory_tobefreed \in Int
  BY ConstantsAssumption DEF TypeOK
<1> USE DEF InRam, InSwap, GoingOut, Allocated, InUse
<1>3. CASE Created(c)
  <2> DEFINE s == "MEM_ALLOCATED"
  <2>1. /\ memory_used' = memory_used + z - 0
        /\ memory_swapped' = memory_swapped + 0 - 0
        /\ memory_tobefreed' = memory_tobefreed + 0 - 0
    BY <1>0, <1>3 DEF Created
  <2>2. /\ s \in InRam /\ s \notin InSwap /\ s \notin GoingOut
        /\ status[c] \notin InRam /\ status[c] \notin InSwap /\ status[c] \notin GoingOut
        /\ status' = [status EXCEPT ![c] = s]
    BY <1>3 DEF Created
  <2> HIDE DEF s, InRam, InSwap, GoingOut
  <2> QED BY <2>1, <2>2, OneBooked
<1>4. CASE Dropped(c)
  <2> DEFINE s == "MEM_SWAPPED"
  <2>1. /\ memory_used' = memory_used + 0 - z
        /\ memory_swapped' = memory_swapped + z - 0
        /\ memory_tobefreed' = memory_tobefreed + 0 - 0
    BY <1>0, <1>4 DEF Dropped
  <2>2. /\ s \notin InRam /\ s \in InSwap /\ s \notin GoingOut
        /\ status[c] \in InRam /\ status[c] \notin InSwap /\ status[c] \notin GoingOut
        /\ status' = [status EXCEPT ![c] = s]
    BY <1>4 DEF Dropped
  <2> HIDE DEF s, InRam, InSwap, GoingOut
  <2> QED BY <2>1, <2>2, OneBooked
<1>5. CASE WriteStarted(c)
  <2> DEFINE s == "MEM_SWAPOUT"
  <2>1. /\ memory_used' = memory_used + z - z
        /\ memory_swapped' = memory_swapped + z - 0
        /\ memory_tobefreed' = memory_tobefreed + z - 0
    BY <1>0, <1>5 DEF WriteStarted
  <2>2. /\ s \in InRam /\ s \in InSwap /\ s \in GoingOut
        /\ status[c] \in InRam /\ status[c] \notin InSwap /\ status[c] \notin GoingOut
        /\ status' = [status EXCEPT ![c] = s]
    BY <1>5 DEF WriteStarted
  <2> HIDE DEF s, InRam, InSwap, GoingOut
  <2> QED BY <2>1, <2>2, OneBooked
<1>6. CASE ReadStarted(c)
  <2> DEFINE s == "MEM_SWAPIN"
  <2>1. /\ memory_used' = memory_used + z - 0
        /\ memory_swapped' = memory_swapped + z - z
        /\ memory_tobefreed' = memory_tobefreed + 0 - 0
    BY <1>0, <1>6 DEF ReadStarted
  <2>2. /\ s \in InRam /\ s \in InSwap /\ s \notin GoingOut
        /\ status[c] \notin InRam /\ status[c] \in InSwap /\ status[c] \notin GoingOut
        /\ status' = [status EXCEPT ![c] = s]
    BY <1>6 DEF ReadStarted
  <2> HIDE DEF s, InRam, InSwap, GoingOut
  <2> QED BY <2>1, <2>2, OneBooked
<1>7. CASE Freed(c)
  <2> DEFINE s == "ABSENT"
  <2>1. /\ memory_used' = memory_used + 0 - (IF status[c] \in InRam THEN z ELSE 0)
        /\ memory_swapped' = memory_swapped + 0 - (IF status[c] \in InSwap THEN z ELSE 0)
        /\ memory_tobefreed' = memory_tobefreed + 0 - 0
    BY <1>0, <1>7 DEF Freed
  <2>2. /\ s \notin InRam /\ s \notin InSwap /\ s \notin GoingOut
        /\ status[c] \notin GoingOut
        /\ status' = [status EXCEPT ![c] = s]
    BY <1>7 DEF Freed
  <2> HIDE DEF s, InRam, InSwap, GoingOut
  <2> QED BY <2>1, <2>2, OneBooked
<1>8. CASE Condemned(c)
  BY <1>8, StayBooked DEF Condemned
<1>9. ASSUME NEW t \in Thread, Granted(t, c) \/ Released(t, c) \/ Written(t, c)
      PROVE  Accounting'
  <2>1. UNCHANGED acctVars
    BY <1>9 DEF Granted, Released, Written
  <2>2. \A d \in Chunk : status'[d] = status[d] \/ {status[d], status'[d]} \subseteq Allocated
    BY <1>9, GrantStays, ReleaseStays DEF Written
  <2> QED BY <2>1, <2>2, StayBooked
<1> QED BY <1>3, <1>4, <1>5, <1>6, <1>7, <1>8, <1>9

\* A new manager has no chunks.
LEMMA InitBooked == Init => Accounting
<1> SUFFICES ASSUME Init PROVE Accounting
  OBVIOUS
<1>1. \A S : "ABSENT" \notin S => Chunks(S) = {}
  BY DEF Init, Chunks
<1>2. "ABSENT" \notin InRam /\ "ABSENT" \notin InSwap /\ "ABSENT" \notin GoingOut
  BY DEF InRam, InSwap, GoingOut, Allocated, InUse
<1>3. Chunks(InRam) = {} /\ Chunks(InSwap) = {} /\ Chunks(GoingOut) = {}
  BY <1>1, <1>2
<1> QED BY <1>3, BytesNone DEF Init, Accounting, InRam, InSwap, GoingOut

\* As long as no handle loads immediately, the three accounts of the manager are the sums
\* of the sizes of the chunks they stand for, after every step of every thread.
THEOREM Accounts ==
    ASSUME ~LoadImmediately
    PROVE  Spec => []Accounting
<1> DEFINE I == TypeInv /\ SafeInv /\ Accounting
<1>1. Init => I
  BY InitTypeInv, InitSafe, InitBooked
<1>2. I /\ [Next]_vars => I'
  <2>1. I /\ [Next]_vars => Accounting'
    BY NextEffect, SafeImplies, EffectBooked DEF TypeInv
  <2> QED BY <2>1, NextTypeOK, NextPinCount, StutterTypeInv, NextSafe DEF TypeInv
<1>3. I => Accounting
  OBVIOUS
<1> HIDE DEF I
<1> QED BY <1>1, <1>2, <1>3, PTL DEF Spec

-----------------------------------------------------------------------------
(* The limit.                                                              *)

\* What RAM holds for good: all that is booked but on its way out.
Claimed == memory_used - memory_tobefreed

\* Only the creation of a chunk and its way back from the swap claim RAM, and both
\* within the limit in force, even if all that is on its way out stayed.
LEMMA ClaimsWithinLimit ==
    ASSUME TypeOK, Accounting, Effect
    PROVE  Claimed' <= Claimed \/ Claimed' <= memory_max
<1>1. CASE Quiet \/ \E t \in Thread, c \in Chunk : Granted(t, c) \/ Released(t, c) \/ Written(t, c)
  <2>1. UNCHANGED acctVars
    BY <1>1 DEF Quiet, Granted, Released, Written
  <2> QED BY <2>1 DEF Claimed, acctVars, TypeOK
<1>2. CASE Arrived
  <2>1. PICK E \in SUBSET Events : Arrive(E)
    BY <1>2 DEF Arrived
  <2> DEFINE b == Bytes({c \in E : status[c] = "MEM_SWAPOUT"})
  <2>2. {c \in E : status[c] = "MEM_SWAPOUT"} \subseteq Chunk
    BY DEF Events
  <2>3. b \in Nat
    BY <2>2, BytesType
  <2>4. memory_used' = memory_used - b /\ memory_tobefreed' = memory_tobefreed - b
    BY <2>1 DEF Arrive, UnclaimTobefreed
  <2> HIDE DEF b
  <2> QED BY <2>3, <2>4 DEF Claimed, TypeOK
<1>3. ASSUME NEW c \in Chunk, Dropped(c) \/ WriteStarted(c) \/ Freed(c) \/ Condemned(c)
      PROVE  Claimed' <= Claimed
  <2>1. Size[c] \in Nat
    BY ConstantsAssumption
  <2>2. memory_used' <= memory_used /\ memory_used' \in Int
    BY <1>3, <2>1 DEF Dropped, WriteStarted, Freed, Condemned, acctVars, TypeOK
  <2>3. memory_tobefreed' >= memory_tobefreed /\ memory_tobefreed' \in Int
    BY <1>3, <2>1 DEF Dropped, WriteStarted, Freed, Condemned, acctVars, TypeOK
  <2>4. memory_used \in Int /\ memory_tobefreed \in Int
    BY DEF TypeOK
  <2>5. \A a, b, x, y \in Int : a <= x /\ b >= y => a - b <= x - y
    OBVIOUS
  <2> QED BY <2>2, <2>3, <2>4, <2>5 DEF Claimed
<1>4. ASSUME NEW c \in Chunk, Created(c) \/ ReadStarted(c) PROVE Claimed' <= memory_max
  <2>1. Size[c] \in Nat
    BY ConstantsAssumption
  <2>2. memory_tobefreed \in Nat
    BY BookedType DEF Accounting
  <2>3. memory_used' = memory_used + Size[c] /\ memory_used' <= memory_max
        /\ memory_tobefreed' = memory_tobefreed
    BY <1>4 DEF Created, ReadStarted
  <2> QED BY <2>1, <2>2, <2>3 DEF Claimed, TypeOK
<1> QED BY <1>1, <1>2, <1>3, <1>4 DEF Effect

\* A step that does not set the limit: no call about the limit is under way, and none begins.
LimitFixed ==
    /\ memory_max = InitialLimit
    /\ \A t \in Thread : call[t].op # "limit"

\* With one value to set it to, the limit never changes.
LEMMA LimitStays ==
    ASSUME MemoryLimits = {InitialLimit}, TypeInv, LimitFixed, [Next]_vars
    PROVE  LimitFixed'
<1>0. TypeOK /\ CallDiscipline
  BY DEF TypeInv
<1>1. ASSUME UNCHANGED <<memory_max, call>> PROVE LimitFixed'
  BY <1>1 DEF LimitFixed
<1>2. ASSUME NEW t \in Thread, UNCHANGED memory_max, call'[t].op # "limit",
             \A u \in Thread \ {t} : call'[u] = call[u]
      PROVE  LimitFixed'
  BY <1>2 DEF LimitFixed
<1>3. ASSUME NEW t \in Thread, EndCall(t), UNCHANGED memory_max PROVE LimitFixed'
  <2>1. call'[t].op # "limit" /\ \A u \in Thread \ {t} : call'[u] = call[u]
    BY <1>0, <1>3 DEF EndCall, NoCall, NewCall, TypeOK
  <2> QED BY <1>2, <1>3, <2>1
<1>4. ASSUME NEW t \in Thread, NEW p, NEW op \in {"mmalloc", "use", "prepare", "mfree"}, NEW c,
             NEW w, NEW n, StartCall(t, p, op, c, w, n), UNCHANGED memory_max
      PROVE  LimitFixed'
  <2>1. call'[t].op # "limit" /\ \A u \in Thread \ {t} : call'[u] = call[u]
    BY <1>0, <1>4 DEF StartCall, NewCall, TypeOK
  <2> QED BY <1>2, <1>4, <2>1
<1>5. ASSUME NEW t \in Thread, Request(t) \/ Release(t) PROVE LimitFixed'
  <2>1. ASSUME NEW c \in Chunk, NEW w \in BOOLEAN,
               Mmalloc(t, c) \/ PrepareUse(t, c) \/ SetUseAbsent(t, c, w)
        PROVE  LimitFixed'
    BY <1>4, <2>1 DEF Mmalloc, PrepareUse, SetUseAbsent
  <2>2. ASSUME NEW c \in Chunk, Mfree(t, c) PROVE LimitFixed'
    BY <1>3, <1>4, <2>2 DEF Mfree, Dispose
  <2>3. ASSUME NEW c \in Chunk, NEW w \in BOOLEAN, SetUse(t, c, w) PROVE LimitFixed'
    BY <1>3, <2>3 DEF SetUse, Grant
  <2>4. ASSUME NEW c \in Chunk, UnsetUse(t, c) PROVE LimitFixed'
    BY <1>1, <1>3, <2>4 DEF UnsetUse
  <2>5. ASSUME NEW c \in Chunk, Write(t, c) PROVE LimitFixed'
    BY <1>1, <2>5 DEF Write, threadVars
  <2>6. ASSUME NEW n \in MemoryLimits, SetMemoryLimit(t, n) PROVE LimitFixed'
    BY <2>6 DEF SetMemoryLimit, LimitFixed
  <2> QED BY <1>5, <2>1, <2>2, <2>3, <2>4, <2>5, <2>6 DEF Request, Release
<1>6. ASSUME NEW t \in Thread, Step(t) \/ Recover(t) PROVE LimitFixed'
  <2>1. ASSUME SwapInReturns(t), UNCHANGED memory_max PROVE LimitFixed'
    BY <1>1, <1>3, <2>1 DEF SwapInReturns
  <2>2. CASE EnsureEnoughSpace(t) \/ SwapOutSelect(t) \/ Unload(t) \/ SwapOutDone(t)
    BY <1>1, <2>2 DEF EnsureEnoughSpace, WaitFrame, SwapOutSelect, SwapOutDone, SwapOutFrame,
                      SwapOutReturns, Throw, Unload, UnloadSkip, UnloadCached, UnloadWrite,
                      UnloadThrow, Unloaded
  <2>3. CASE Evicted(t)
    <3>1. /\ call'[t].op = call[t].op /\ UNCHANGED memory_max
          /\ \A u \in Thread \ {t} : call'[u] = call[u]
      BY <1>0, <2>3 DEF Evicted, Throw, TypeOK
    <3>2. call[t].op # "limit"
      BY DEF LimitFixed
    <3> QED BY <1>2, <3>1, <3>2
  <2>4. CASE MmallocDone(t) \/ Untouched(t) \/ Shrunk(t)
    BY <1>3, <2>4 DEF MmallocDone, Untouched, Shrunk
  <2>5. CASE SwapInNotNeeded(t) \/ SwapIn(t)
    BY <2>1, <2>5 DEF SwapInNotNeeded, SwapIn
  <2>6. CASE AwaitSwapOut(t) \/ AwaitSwapIn(t) \/ PfFree(t)
    BY <1>1, <1>3, <2>1, <2>6 DEF AwaitSwapOut, AwaitSwapIn, PfFree, Grant, Dispose, WaitFrame,
                                  threadVars
  <2>7. CASE Shrink(t)
    <3>1. call[t].op = "limit"
      BY <1>0, <2>7 DEF Shrink, At, CallDiscipline, CallAtPlace, Where, OpsAt
    <3> QED BY <3>1 DEF LimitFixed
  <2>8. CASE Recover(t)
    <3>1. /\ call'[t].op # "limit" /\ UNCHANGED memory_max
          /\ \A u \in Thread \ {t} : call'[u] = call[u]
      BY <1>0, <2>8 DEF Recover, NoCall, NewCall, TypeOK
    <3> QED BY <1>2, <3>1
  <2> QED BY <1>6, <2>2, <2>3, <2>4, <2>5, <2>6, <2>7, <2>8 DEF Step
<1>7. CASE IOStep \/ Unwound \/ UNCHANGED vars
  BY <1>1, <1>7 DEF IOStep, PollReturn, WorkerCheck, WaitFrame, Unwound, vars, threadVars
<1> QED BY <1>5, <1>6, <1>7 DEF Next

\* With a fixed limit, and no handle that loads immediately, what RAM holds for good keeps
\* within the limit: memory is only claimed after room for it was made.
THEOREM WithinBudget ==
    ASSUME ~LoadImmediately, MemoryLimits = {InitialLimit}
    PROVE  Spec => []Budget
<1> DEFINE I == TypeInv /\ SafeInv /\ Accounting /\ LimitFixed /\ Budget
<1>1. Init => I
  <2>1. Init => LimitFixed /\ Budget
    <3>1. InitialLimit \in Nat
      BY ConstantsAssumption
    <3> QED BY <3>1 DEF Init, LimitFixed, Budget, NoCall, NewCall
  <2> QED BY <2>1, InitTypeInv, InitSafe, InitBooked
<1>2. I /\ [Next]_vars => I'
  <2> SUFFICES ASSUME I, [Next]_vars PROVE I'
    OBVIOUS
  <2>1. TypeInv' /\ SafeInv' /\ LimitFixed'
    BY NextTypeOK, NextPinCount, StutterTypeInv, NextSafe, LimitStays DEF TypeInv
  <2>2. TypeOK /\ TypeOK' /\ Effect /\ AioDiscipline
    BY <2>1, NextEffect, SafeImplies DEF TypeInv
  <2>3. Accounting'
    BY <2>2, EffectBooked
  <2>4. Claimed' <= Claimed \/ Claimed' <= memory_max
    BY <2>2, ClaimsWithinLimit
  <2>5. memory_max' = memory_max
    BY <2>1 DEF LimitFixed
  <2>6. Claimed \in Int /\ Claimed' \in Int /\ memory_max \in Nat /\ Claimed <= memory_max
    BY <2>2 DEF Budget, Claimed, TypeOK
  <2>7. Claimed' <= memory_max'
    BY <2>4, <2>5, <2>6
  <2>8. Budget'
    BY <2>7 DEF Budget, Claimed
  <2> QED BY <2>1, <2>3, <2>8
<1>3. I => Budget
  OBVIOUS
<1> HIDE DEF I
<1> QED BY <1>1, <1>2, <1>3, PTL DEF Spec

\* Whatever the limit is set to meanwhile: a step that claims RAM ends within the limit it
\* started with.
THEOREM GrowthWithinLimit ==
    ASSUME ~LoadImmediately
    PROVE  Spec => [][Claimed' > Claimed => Claimed' <= memory_max]_vars
<1> DEFINE I == TypeInv /\ SafeInv /\ Accounting
<1>1. Init => I
  BY InitTypeInv, InitSafe, InitBooked
<1>2. I /\ [Next]_vars => I'
  <2>1. I /\ [Next]_vars => Accounting'
    BY NextEffect, SafeImplies, EffectBooked DEF TypeInv
  <2> QED BY <2>1, NextTypeOK, NextPinCount, StutterTypeInv, NextSafe DEF TypeInv
<1>3. I /\ I' /\ [Next]_vars => [Claimed' > Claimed => Claimed' <= memory_max]_vars
  <2> SUFFICES ASSUME I, I', [Next]_vars, Claimed' > Claimed PROVE Claimed' <= memory_max
    OBVIOUS
  <2>1. TypeOK /\ TypeOK' /\ Effect
    BY NextEffect DEF TypeInv
  <2>2. Claimed' <= Claimed \/ Claimed' <= memory_max
    BY <2>1, ClaimsWithinLimit
  <2>3. Claimed \in Int /\ Claimed' \in Int
    BY <2>1 DEF Claimed, TypeOK
  <2> QED BY <2>2, <2>3
<1> HIDE DEF I
<1> QED BY <1>1, <1>2, <1>3, PTL DEF Spec

-----------------------------------------------------------------------------
(* The copies of a chunk.                                                  *)

\* The third inductive invariant: where the last value written is, and that no location
\* is kept for a chunk somebody may be writing to.
CopiesOK(c) ==
    /\ status[c] \in Allocated \cup {"MEM_SWAPOUT"} => ramFresh[c]
    /\ status[c] \in {"MEM_SWAPPED", "MEM_SWAPIN"} => diskFresh[c]
    /\ status[c] \in Allocated /\ swapBuf[c] => diskFresh[c]
    /\ status[c] \in {"ABSENT", "MEM_ALLOCATED_INUSE_WRITE"} => ~swapBuf[c]
    /\ \A t \in Thread : uses[t][c] = "write" => ~swapBuf[c]

\* A chunk nothing happens to, but that its location may be taken away.
LEMMA CopiesStay ==
    ASSUME NEW c \in Chunk, CopiesOK(c), status'[c] = status[c], swapBuf'[c] => swapBuf[c],
           ramFresh'[c] = ramFresh[c], diskFresh'[c] = diskFresh[c],
           \A t \in Thread : uses'[t][c] = uses[t][c]
    PROVE  CopiesOK(c)'
BY DEF CopiesOK

\* A transfer that completes leaves the last value where the new status says it is.
LEMMA ArriveCopies ==
    ASSUME TypeInv, SafeInv, Arrived, NEW c \in Chunk, CopiesOK(c)
    PROVE  CopiesOK(c)'
<1>0. TypeOK
  BY DEF TypeInv
<1>1. PICK E \in SUBSET Events : Arrive(E)
  BY DEF Arrived
<1>2. /\ swapBuf'[c] => swapBuf[c]
      /\ \A t \in Thread : uses'[t][c] = uses[t][c]
  BY DEF Arrived, Cleans
<1>3. CASE c \in E /\ status[c] = "MEM_SWAPIN"
  <2>1. status'[c] \in {"MEM_ALLOCATED", "MEM_ALLOCATED_INUSE_READ"}
        /\ ramFresh'[c] = diskFresh[c] /\ diskFresh'[c] = diskFresh[c]
    BY <1>1, <1>3 DEF Arrive, Completed
  <2> QED BY <1>2, <1>3, <2>1 DEF CopiesOK, Allocated, InUse
<1>4. CASE c \in E /\ status[c] = "MEM_SWAPOUT"
  <2>1. status'[c] = "MEM_SWAPPED" /\ diskFresh'[c] = ramFresh[c]
    BY <1>1, <1>4 DEF Arrive, Completed
  <2> QED BY <1>2, <1>4, <2>1 DEF CopiesOK, Allocated, InUse
<1>5. CASE ~(c \in E /\ status[c] \in {"MEM_SWAPIN", "MEM_SWAPOUT"})
  <2>1. status'[c] = status[c] /\ ramFresh'[c] = ramFresh[c] /\ diskFresh'[c] = diskFresh[c]
    BY <1>0, <1>1, <1>5 DEF Arrive, TypeOK
  <2> QED BY <1>2, <2>1, CopiesStay
<1> QED BY <1>3, <1>4, <1>5

\* Whatever a step does to memory, the last value of every chunk stays where it is looked
\* for.
LEMMA EffectCopies ==
    ASSUME TypeInv, SafeInv, Effect, \A c \in Chunk : CopiesOK(c)
    PROVE  \A c \in Chunk : CopiesOK(c)'
<1>0. TypeOK
  BY DEF TypeInv
<1> SUFFICES ASSUME NEW d \in Chunk PROVE CopiesOK(d)'
  OBVIOUS
<1>1. CopiesOK(d) /\ ChunkOK(d)
  BY DEF SafeInv
<1>2. CASE Quiet
  BY <1>1, <1>2, CopiesStay DEF Quiet, Cleans, dataVars
<1>3. CASE Arrived
  BY <1>1, <1>3, ArriveCopies
<1>4. ASSUME NEW c \in Chunk, c # d,
             \/ Created(c) \/ Dropped(c) \/ WriteStarted(c) \/ ReadStarted(c)
             \/ Freed(c) \/ Condemned(c)
             \/ \E t \in Thread : Granted(t, c) \/ Released(t, c) \/ Written(t, c)
      PROVE  CopiesOK(d)'
  <2>1. status'[d] = status[d]
    BY <1>0, <1>4, GrantStays, ReleaseStays
       DEF Created, Dropped, WriteStarted, ReadStarted, Freed, Condemned, Written, TypeOK
  <2>2. swapBuf'[d] => swapBuf[d]
    BY <1>0, <1>4, GrantStays
       DEF Created, Dropped, WriteStarted, ReadStarted, Freed, Condemned, Released, Written, TypeOK
  <2>3. ramFresh'[d] = ramFresh[d] /\ diskFresh'[d] = diskFresh[d]
    BY <1>0, <1>4
       DEF Created, Dropped, WriteStarted, ReadStarted, Freed, Condemned, Granted, Released,
           Written, TypeOK, dataVars
  <2>4. \A u \in Thread : uses'[u][d] = uses[u][d]
    <3>1. CASE UNCHANGED uses
      BY <3>1
    <3>2. ASSUME NEW t \in Thread, Granted(t, c) \/ Released(t, c)
          PROVE  \A u \in Thread : uses'[u][d] = uses[u][d]
      <4>1. PICK use : uses' = [uses EXCEPT ![t][c] = use]
        BY <3>2 DEF Granted, Grant, Released
      <4> QED BY <1>0, <1>4, <4>1 DEF TypeOK
    <3> QED BY <1>4, <3>1, <3>2
               DEF Created, Dropped, WriteStarted, ReadStarted, Freed, Condemned, Written
  <2> QED BY <1>1, <2>1, <2>2, <2>3, <2>4, CopiesStay
<1>5. ASSUME \/ Created(d) \/ Dropped(d) \/ ReadStarted(d) \/ Freed(d) \/ Condemned(d)
      PROVE  CopiesOK(d)'
  <2>1. \A u \in Thread : uses'[u][d] = uses[u][d]
    BY <1>5 DEF Created, Dropped, ReadStarted, Freed, Condemned
  <2>2. CASE Created(d)
    BY <1>0, <1>1, <2>1, <2>2 DEF Created, CopiesOK, TypeOK, Allocated, InUse
  <2>3. CASE Dropped(d)
    BY <1>0, <1>1, <2>1, <2>3 DEF Dropped, CopiesOK, TypeOK, Allocated, InUse
  <2>4. CASE ReadStarted(d)
    BY <1>0, <1>1, <2>1, <2>4 DEF ReadStarted, CopiesOK, TypeOK, Allocated, InUse, dataVars
  <2>5. CASE Freed(d)
    BY <1>0, <1>1, <2>1, <2>5 DEF Freed, CopiesOK, TypeOK, Allocated, InUse
  <2>6. CASE Condemned(d)
    BY <1>1, <2>1, <2>6, CopiesStay DEF Condemned, dataVars
  <2> QED BY <1>5, <2>2, <2>3, <2>4, <2>5, <2>6
<1>6. CASE WriteStarted(d)
  <2>1. \A u \in Thread : uses'[u][d] # "write"
    BY <1>1, <1>6 DEF WriteStarted, ChunkOK, InUse
  <2>2. status'[d] = "MEM_SWAPOUT" /\ ramFresh'[d]
    BY <1>0, <1>1, <1>6 DEF WriteStarted, CopiesOK, TypeOK, Allocated, dataVars
  <2> QED BY <2>1, <2>2 DEF CopiesOK, Allocated, InUse
<1>7. ASSUME NEW t \in Thread, Granted(t, d) PROVE CopiesOK(d)'
  <2>1. PICK w \in BOOLEAN, st \in {status[d], "MEM_ALLOCATED"} : Grant(t, d, w, st)
    BY <1>7 DEF Granted
  <2>2. status[d] \in Allocated /\ UNCHANGED dataVars
    BY <1>7 DEF Granted
  <2>3. /\ uses'[t][d] = IF w THEN "write" ELSE "read"
        /\ \A u \in Thread \ {t} : uses'[u][d] = uses[u][d]
    BY <1>0, <2>1 DEF Grant, TypeOK
  <2>4. swapBuf'[d] = (swapBuf[d] /\ ~(w /\ st # "MEM_ALLOCATED_INUSE_WRITE"))
    BY <1>0, <2>1 DEF Grant, TypeOK
  <2>5. status'[d] = IF w /\ st # "MEM_ALLOCATED_INUSE_WRITE" THEN "MEM_ALLOCATED_INUSE_WRITE"
                     ELSE IF st = "MEM_ALLOCATED" THEN "MEM_ALLOCATED_INUSE_READ" ELSE st
    BY <1>0, <2>1 DEF Grant, TypeOK
  <2>6. status'[d] \in InUse
    BY <1>0, <1>7, GrantStays
  <2>7. st = "MEM_ALLOCATED_INUSE_WRITE" => ~swapBuf[d]
    BY <1>1 DEF CopiesOK
  <2>8. \A u \in Thread : uses'[u][d] = "write" => ~swapBuf'[d]
    BY <1>1, <2>3, <2>4, <2>7 DEF CopiesOK
  <2>9. status'[d] = "MEM_ALLOCATED_INUSE_WRITE" => ~swapBuf'[d]
    BY <2>4, <2>5, <2>7
  <2>10. ramFresh'[d] /\ (swapBuf'[d] => diskFresh'[d])
    BY <1>1, <2>2, <2>4 DEF CopiesOK, dataVars
  <2> QED BY <2>6, <2>8, <2>9, <2>10 DEF CopiesOK, InUse
<1>8. ASSUME NEW t \in Thread, Released(t, d) PROVE CopiesOK(d)'
  <2>1. status[d] \in InUse
    BY <1>1, <1>8 DEF Released, ChunkOK
  <2>2. status'[d] \in {status[d], "MEM_ALLOCATED"}
    BY <1>0, <1>8, ReleaseStays
  <2>3. \A u \in Thread : uses'[u][d] = "write" => uses[u][d] = "write"
    BY <1>0, <1>8 DEF Released, TypeOK
  <2> QED BY <1>1, <1>8, <2>1, <2>2, <2>3 DEF Released, CopiesOK, Allocated, InUse, dataVars
<1>9. ASSUME NEW t \in Thread, Written(t, d) PROVE CopiesOK(d)'
  <2>1. status[d] \in InUse /\ ~swapBuf[d]
    BY <1>1, <1>9 DEF Written, ChunkOK, CopiesOK
  <2>2. ramFresh'[d]
    BY <1>0, <1>9, <2>1 DEF Written, TypeOK, Allocated
  <2> QED BY <1>9, <2>1, <2>2 DEF Written, CopiesOK, InUse
<1> QED BY <1>2, <1>3, <1>4, <1>5, <1>6, <1>7, <1>8, <1>9 DEF Effect

\* A new manager has no copies.
LEMMA InitCopies == Init => \A c \in Chunk : CopiesOK(c)
BY DEF Init, CopiesOK, Allocated, InUse

\* The invariants make the copies coherent.
LEMMA CopiesCoherent ==
    ASSUME SafeInv, \A c \in Chunk : CopiesOK(c)
    PROVE  Coherent
<1> SUFFICES ASSUME NEW c \in Chunk
             PROVE  /\ status[c] \in Allocated \cup {"MEM_SWAPOUT"} => ramFresh[c]
                    /\ status[c] \in {"MEM_SWAPPED", "MEM_SWAPIN"} => diskFresh[c]
                    /\ c \in Cached => diskFresh[c]
                    /\ status[c] \in {"MEM_SWAPOUT", "MEM_SWAPPED", "MEM_SWAPIN"} => swapBuf[c]
  BY DEF Coherent
<1> QED BY DEF SafeInv, ChunkOK, CopiesOK, Cached, Chunks

\* As long as no handle loads immediately, the last value written is never lost: not to a
\* page file copy that went stale, not to a transfer that completes while others use the
\* chunk, not to a location freed too early.
THEOREM NothingLost ==
    ASSUME ~LoadImmediately
    PROVE  Spec => []Coherent
<1> DEFINE I == TypeInv /\ SafeInv /\ \A c \in Chunk : CopiesOK(c)
<1>1. Init => I
  BY InitTypeInv, InitSafe, InitCopies
<1>2. I /\ [Next]_vars => I'
  <2> SUFFICES ASSUME I, [Next]_vars PROVE I'
    OBVIOUS
  <2>1. TypeInv' /\ SafeInv'
    BY NextTypeOK, NextPinCount, StutterTypeInv, NextSafe DEF TypeInv
  <2>2. Effect
    BY NextEffect
  <2>3. (\A c \in Chunk : CopiesOK(c))'
    BY <2>2, EffectCopies
  <2> QED BY <2>1, <2>3
<1>3. I => Coherent
  BY CopiesCoherent
<1> HIDE DEF I
<1> QED BY <1>1, <1>2, <1>3, PTL DEF Spec

-----------------------------------------------------------------------------
(* The object store a program sees.                                        *)

\* What the refinement maps the variables of ObjectStore to.
Resident == ring \cap Chunks(Allocated)
Intact   == {c \in ring : Recoverable(c)}
Holders  == [c \in Chunk |-> {t \in Thread : uses[t][c] # "none"}]

\* Every chunk in the ring can be recovered.
LEMMA RingIntact ==
    ASSUME TypeOK, SafeInv, Coherent
    PROVE  Intact = ring
<1> SUFFICES ASSUME NEW c \in ring PROVE Recoverable(c)
  BY DEF Intact
<1>1. c \in Chunk /\ ChunkOK(c) /\ status[c] # "ABSENT" /\ status[c] \in Status
  BY DEF TypeOK, SafeInv, ChunkOK
<1> QED BY <1>1 DEF Coherent, Recoverable, Status, Present

\* A step of the store in terms of the manager.
StoreStep ==
    /\ \/ \E c \in Chunk :
             \/ /\ c \notin ring /\ ring' = ring \cup {c}
                /\ Resident' = Resident \cup {c} /\ Holders' = Holders
             \/ /\ c \in ring /\ Holders[c] = {} /\ ring' = ring \ {c}
                /\ Resident' = Resident \ {c} /\ Holders' = Holders
             \/ /\ c \in Resident /\ Holders[c] = {} /\ ring' = ring
                /\ Resident' = Resident \ {c} /\ Holders' = Holders
       \/ \E c \in Chunk, t \in Thread :
             \/ /\ c \in Resident /\ t \notin Holders[c] /\ ring' = ring /\ Resident' = Resident
                /\ Holders' = [Holders EXCEPT ![c] = @ \cup {t}]
             \/ /\ t \in Holders[c] /\ ring' = ring /\ Resident' = Resident
                /\ Holders' = [Holders EXCEPT ![c] = @ \ {t}]
       \/ \E S \in SUBSET (ring \ Resident) :
             Resident' = Resident \cup S /\ ring' = ring /\ Holders' = Holders
    /\ Intact' = ring'

\* A step that changes nothing the program sees.
StoreStutter == ring' = ring /\ Resident' = Resident /\ Holders' = Holders /\ Intact' = Intact

\* Those are the steps of ObjectStore.
LEMMA StoreSteps == StoreStep \/ StoreStutter => [Store!Next]_(Store!vars)
BY DEF StoreStep, StoreStutter, Store!Next, Store!vars, Store!Create, Store!Destroy, Store!Evict,
       Store!Acquire, Store!Release, Store!Load, Resident, Intact, Holders

\* Who holds a chunk.
LEMMA HoldersAre ==
    /\ \A c \in Chunk : Holders[c] = {t \in Thread : uses[t][c] # "none"}
    /\ uses' = uses => Holders' = Holders
BY DEF Holders

\* A change of one use changes the holders of one chunk by one thread at most.
LEMMA HoldersMove ==
    ASSUME TypeOK, NEW t \in Thread, NEW c \in Chunk, NEW use, uses' = [uses EXCEPT ![t][c] = use]
    PROVE  Holders' = [Holders EXCEPT ![c] = IF use # "none" THEN @ \cup {t} ELSE @ \ {t}]
<1> DEFINE H == [Holders EXCEPT ![c] = IF use # "none" THEN @ \cup {t} ELSE @ \ {t}]
<1>1. ASSUME NEW d \in Chunk PROVE Holders'[d] = H[d]
  <2>1. Holders'[d] = {u \in Thread : uses'[u][d] # "none"}
        /\ Holders[d] = {u \in Thread : uses[u][d] # "none"}
    BY DEF Holders
  <2>2. CASE d = c
    <3>1. uses'[t][c] = use /\ \A u \in Thread \ {t} : uses'[u][c] = uses[u][c]
      BY DEF TypeOK
    <3>2. H[c] = IF use # "none" THEN Holders[c] \cup {t} ELSE Holders[c] \ {t}
      BY DEF Holders
    <3> HIDE DEF H
    <3> QED BY <2>1, <2>2, <3>1, <3>2
  <2>3. CASE d # c
    <3>1. \A u \in Thread : uses'[u][d] = uses[u][d]
      BY <2>3 DEF TypeOK
    <3>2. H[d] = Holders[d]
      BY <2>3 DEF Holders
    <3> QED BY <2>1, <3>1, <3>2
  <2> QED BY <2>2, <2>3
<1>2. Holders' = [d \in Chunk |-> Holders'[d]] /\ H = [d \in Chunk |-> H[d]]
  BY DEF Holders
<1> QED BY <1>1, <1>2

\* Every effect is a step of the store, or nothing the program sees.
LEMMA EffectSeen ==
    ASSUME TypeInv, SafeInv, Effect, Intact = ring, Intact' = ring'
    PROVE  StoreStep \/ StoreStutter
<1>0. TypeOK
  BY DEF TypeInv
<1>1. ASSUME UNCHANGED <<status, ring, uses>> PROVE StoreStutter
  <2>1. Resident' = Resident
    BY <1>1 DEF Resident, Chunks
  <2> QED BY <1>1, <2>1, HoldersAre DEF StoreStutter
<1>2. CASE Arrived
  <2>1. PICK E \in SUBSET Events : Arrive(E)
    BY <1>2 DEF Arrived
  <2> DEFINE S == {c \in ring : c \in E /\ status[c] = "MEM_SWAPIN"}
  <2>2. UNCHANGED <<ring, uses>>
    BY <1>2 DEF Arrived
  <2>3. ASSUME NEW c \in ring PROVE c \in Resident' <=> c \in Resident \/ c \in S
    <3>1. c \in Chunk /\ (c \in Resident' <=> status'[c] \in Allocated)
          /\ (c \in Resident <=> status[c] \in Allocated)
      BY <1>0, <2>2 DEF Resident, Chunks, TypeOK
    <3>2. CASE c \in E /\ status[c] \in {"MEM_SWAPIN", "MEM_SWAPOUT"}
      <4>1. status'[c] = Completed(c)
        BY <2>1, <3>1, <3>2 DEF Arrive
      <4> QED BY <3>1, <3>2, <4>1 DEF Completed, Allocated, InUse
    <3>3. CASE ~(c \in E /\ status[c] \in {"MEM_SWAPIN", "MEM_SWAPOUT"})
      <4>1. status'[c] = status[c]
        BY <2>1, <3>1, <3>3 DEF Arrive
      <4> QED BY <3>1, <3>3, <4>1
    <3> QED BY <3>2, <3>3
  <2>4. Resident' = Resident \cup S
    BY <2>2, <2>3 DEF Resident
  <2>5. S \subseteq ring \ Resident
    BY DEF Resident, Chunks, Allocated, InUse
  <2> HIDE DEF S
  <2> QED BY <2>2, <2>4, <2>5, HoldersAre DEF StoreStep
<1> SUFFICES ASSUME NEW c \in Chunk,
                    \/ Created(c) \/ Dropped(c) \/ WriteStarted(c) \/ ReadStarted(c)
                    \/ Freed(c) \/ Condemned(c)
                    \/ \E t \in Thread : Granted(t, c) \/ Released(t, c) \/ Written(t, c)
             PROVE  StoreStep \/ StoreStutter
  BY <1>1, <1>2 DEF Effect, Quiet
<1>3. ChunkOK(c)
  BY DEF SafeInv
<1>4. (\A t \in Thread : uses[t][c] = "none") => Holders[c] = {}
  BY HoldersAre
<1>5. CASE Created(c)
  <2>1. c \notin ring
    BY <1>3, <1>5 DEF Created, ChunkOK
  <2>2. Resident' = Resident \cup {c}
    BY <1>0, <1>5 DEF Created, Resident, Chunks, TypeOK, Allocated
  <2>3. ring' = ring \cup {c} /\ Holders' = Holders
    BY <1>5, HoldersAre DEF Created
  <2> QED BY <2>1, <2>2, <2>3 DEF StoreStep
<1>6. CASE Dropped(c) \/ WriteStarted(c)
  <2>1. status[c] = "MEM_ALLOCATED" /\ ring' = ring /\ uses' = uses
        /\ \E s \in {"MEM_SWAPPED", "MEM_SWAPOUT"} : status' = [status EXCEPT ![c] = s]
    BY <1>6 DEF Dropped, WriteStarted
  <2>2. Holders[c] = {} /\ Holders' = Holders
    BY <1>3, <1>4, <2>1, HoldersAre DEF ChunkOK, InUse
  <2>3. Resident' = Resident \ {c}
    BY <1>0, <2>1 DEF Resident, Chunks, TypeOK, Allocated, InUse
  <2>4. CASE c \in Resident
    BY <2>1, <2>2, <2>3, <2>4 DEF StoreStep
  <2>5. CASE c \notin Resident
    <3>1. Resident' = Resident
      BY <2>3, <2>5
    <3> QED BY <2>1, <2>2, <3>1 DEF StoreStutter
  <2> QED BY <2>4, <2>5
<1>7. CASE ReadStarted(c)
  <2>1. Resident' = Resident
    BY <1>0, <1>7 DEF ReadStarted, Resident, Chunks, TypeOK, Allocated, InUse
  <2> QED BY <1>7, <2>1, HoldersAre DEF ReadStarted, StoreStutter
<1>8. CASE Freed(c) \/ Condemned(c)
  <2>1. /\ ring' = ring \ {c} /\ uses' = uses /\ Holders[c] = {}
        /\ status' \in {status, [status EXCEPT ![c] = "ABSENT"]}
    BY <1>4, <1>8 DEF Freed, Condemned
  <2>2. Resident' = Resident \ {c}
    BY <1>0, <2>1 DEF Resident, Chunks, TypeOK, Allocated, InUse
  <2>3. CASE c \in ring
    BY <2>1, <2>2, <2>3, HoldersAre DEF StoreStep
  <2>4. CASE c \notin ring
    <3>1. ring' = ring /\ Resident' = Resident
      BY <2>1, <2>2, <2>4 DEF Resident
    <3> QED BY <2>1, <3>1, HoldersAre DEF StoreStutter
  <2> QED BY <2>3, <2>4
<1>9. ASSUME NEW t \in Thread, Granted(t, c) PROVE StoreStep \/ StoreStutter
  <2>1. c \in ring /\ status[c] \in Allocated /\ ring' = ring
    BY <1>9 DEF Granted
  <2>2. c \in Resident
    BY <2>1 DEF Resident, Chunks
  <2>3. status'[c] \in Allocated /\ \A d \in Chunk \ {c} : status'[d] = status[d]
    BY <1>0, <1>9, GrantStays DEF Allocated
  <2>4. Resident' = Resident
    BY <2>1, <2>3 DEF Resident, Chunks
  <2>5. PICK use \in {"read", "write"} : uses' = [uses EXCEPT ![t][c] = use]
    BY <1>9 DEF Granted, Grant
  <2>6. Holders' = [Holders EXCEPT ![c] = @ \cup {t}]
    BY <1>0, <2>5, HoldersMove
  <2>7. CASE t \notin Holders[c]
    BY <2>1, <2>2, <2>4, <2>6, <2>7 DEF StoreStep
  <2>8. CASE t \in Holders[c]
    <3>1. [Holders EXCEPT ![c] = @ \cup {t}] = Holders
      <4>1. Holders[c] \cup {t} = Holders[c]
        BY <2>8
      <4> QED BY <4>1 DEF Holders
    <3>2. Holders' = Holders
      BY <2>6, <3>1
    <3> QED BY <2>1, <2>4, <3>2 DEF StoreStutter
  <2> QED BY <2>7, <2>8
<1>10. ASSUME NEW t \in Thread, Released(t, c) PROVE StoreStep \/ StoreStutter
  <2>1. uses[t][c] # "none" /\ ring' = ring /\ uses' = [uses EXCEPT ![t][c] = "none"]
    BY <1>10 DEF Released
  <2>2. status[c] \in InUse
    BY <1>3, <2>1 DEF ChunkOK
  <2>3. status'[c] \in Allocated /\ status[c] \in Allocated
        /\ \A d \in Chunk \ {c} : status'[d] = status[d]
    BY <1>0, <1>10, <2>2, ReleaseStays DEF Allocated
  <2>4. Resident' = Resident
    BY <2>1, <2>3 DEF Resident, Chunks
  <2>5. Holders' = [Holders EXCEPT ![c] = @ \ {t}]
    BY <1>0, <2>1, HoldersMove
  <2>6. t \in Holders[c]
    BY <2>1, HoldersAre
  <2> QED BY <2>1, <2>4, <2>5, <2>6 DEF StoreStep
<1>11. ASSUME NEW t \in Thread, Written(t, c) PROVE StoreStep \/ StoreStutter
  BY <1>1, <1>11 DEF Written
<1> QED BY <1>5, <1>6, <1>7, <1>8, <1>9, <1>10, <1>11

\* A new manager is an empty store.
LEMMA InitStore == Init => Store!Init
BY DEF Init, Store!Init

\* As long as no handle loads immediately, the manager implements an object store for any
\* number of threads and chunks, any limits and any policy: a program cannot tell from
\* contents and addresses that there is a swap.
THEOREM Refinement ==
    ASSUME ~LoadImmediately
    PROVE  Spec => ImplementsStore
<1> DEFINE I == TypeInv /\ SafeInv /\ \A c \in Chunk : CopiesOK(c)
<1>1. Init => I /\ Store!Init
  BY InitTypeInv, InitSafe, InitCopies, InitStore
<1>2. I => Intact = ring
  BY CopiesCoherent, RingIntact DEF TypeInv
<1>3. (I => Intact = ring)'
  BY <1>2, PTL
<1>4. I /\ [Next]_vars => I' /\ [Store!Next]_(Store!vars)
  <2> SUFFICES ASSUME I, [Next]_vars PROVE I' /\ [Store!Next]_(Store!vars)
    OBVIOUS
  <2>1. TypeInv' /\ SafeInv'
    BY NextTypeOK, NextPinCount, StutterTypeInv, NextSafe DEF TypeInv
  <2>2. Effect
    BY NextEffect
  <2>3. I'
    BY <2>1, <2>2, EffectCopies
  <2>4. Intact = ring /\ Intact' = ring'
    BY <1>2, <1>3, <2>3
  <2>5. StoreStep \/ StoreStutter
    BY <2>2, <2>4, EffectSeen
  <2> QED BY <2>3, <2>5, StoreSteps
<1> HIDE DEF I
<1> QED BY <1>1, <1>4, PTL DEF Spec, ImplementsStore, Store!Spec
=============================================================================
