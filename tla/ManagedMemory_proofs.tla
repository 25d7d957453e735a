------------------------ MODULE ManagedMemory_proofs ------------------------
(***************************************************************************)
(* Proofs about ManagedMemory, for any number of threads and chunks, any   *)
(* sizes, limits and policies.                                             *)
(***************************************************************************)
EXTENDS ManagedMemory, FiniteSetTheorems, TLAPS

-----------------------------------------------------------------------------
(* Sums of sizes.                                                          *)

\* The units of a set of chunks are finitely many.
LEMMA FootprintFinite ==
    ASSUME NEW S \in SUBSET Chunk
    PROVE  IsFiniteSet(UNION {{c} \X (1..Size[c]) : c \in S})
<1> DEFINE f == [c \in S |-> {c} \X (1..Size[c])]
           T == {{c} \X (1..Size[c]) : c \in S}
<1>1. IsFiniteSet(S)
  BY ConstantsAssumption, FS_Subset
<1>2. f \in Surjection(S, T)
  BY DEF Surjection
<1>3. IsFiniteSet(T)
  BY <1>1, <1>2, FS_Surjection DEF ExistsSurjection
<1>4. ASSUME NEW c \in S PROVE IsFiniteSet({c} \X (1..Size[c]))
  <2>1. Size[c] \in Int
    BY ConstantsAssumption
  <2>2. IsFiniteSet(1..Size[c])
    BY <2>1, FS_Interval
  <2>3. IsFiniteSet({c})
    BY FS_Singleton
  <2> QED BY <2>2, <2>3, FS_Product
<1>5. \A U \in T : IsFiniteSet(U)
  BY <1>4
<1> HIDE DEF T
<1>6. IsFiniteSet(UNION T)
  BY <1>3, <1>5, FS_UNION
<1> QED BY <1>6 DEF T

\* A sum of sizes is a natural number.
LEMMA BytesType ==
    ASSUME NEW S \in SUBSET Chunk
    PROVE  Bytes(S) \in Nat
BY FootprintFinite, FS_CardinalityType DEF Bytes

-----------------------------------------------------------------------------
(* Type correctness.                                                       *)

\* The part of TypeOK about what IO may change ...
IOType ==
    /\ status \in [Chunk -> Status]
    /\ aio \in [Chunk -> SUBSET {"read", "write"}]
    /\ memory_used \in Int /\ memory_swapped \in Int /\ memory_tobefreed \in Int
    /\ ramFresh \in [Chunk -> BOOLEAN] /\ diskFresh \in [Chunk -> BOOLEAN]
    /\ sleeping \subseteq Thread

\* ... about the locks ...
LockType == lock \in Thread \cup {NoThread} /\ aioWaiter \in Thread \cup {Worker, NoThread}

\* ... about the other attributes of chunks ...
ChunkType ==
    /\ swapBuf \in [Chunk -> BOOLEAN]
    /\ ring \subseteq Chunk
    /\ memory_max \in Nat

\* ... and about the threads.
CallRecord  == [op : {"none", "mmalloc", "use", "prepare", "mfree", "limit"},
                chunk : Chunk \cup {NoChunk}, write : BOOLEAN,
                cleaned : BOOLEAN, limit : Nat]
EvictRecord == [min : Int, quota : Int, todo : SUBSET (Chunk \X Int),
                real : Int, ok : BOOLEAN,
                ret : {"idle", "evicted", "untouched", "shrink", "shrunk"}]

ThreadType ==
    /\ useCnt \in [Chunk -> Nat]
    /\ uses \in [Thread -> [Chunk -> {"none", "read", "write"}]]
    /\ pc \in [Thread -> Locations]
    /\ call \in [Thread -> CallRecord]
    /\ evict \in [Thread -> EvictRecord]

\* Where a thread is, or where its swapOut will return to.
Where(t) == IF pc[t] \in {"swapOut", "unload"} THEN evict[t].ret ELSE pc[t]

\* The calls that may be at a place of the code.
OpsAt(p) ==
    IF p \in {"idle", "untouched"} THEN {"none"}
    ELSE IF p \in {"space", "evicted"} THEN {"mmalloc", "use", "prepare"}
    ELSE IF p = "swapOutWait" THEN {"use", "prepare"}
    ELSE IF p = "swapIn" THEN {"use"}
    ELSE IF p = "pffree" THEN {"mfree"}
    ELSE IF p \in {"shrink", "shrunk"} THEN {"limit"}
    ELSE {"none", "mmalloc", "use", "prepare", "mfree", "limit"}

\* Thread t is where its call may be, and exactly the calls about a chunk have one.
CallAtPlace(t) ==
    /\ call[t].op \in OpsAt(Where(t))
    /\ call[t].chunk \in Chunk <=> call[t].op \in {"mmalloc", "use", "prepare", "mfree"}

CallDiscipline == \A t \in Thread : CallAtPlace(t)

\* The pieces of TypeOK, each over the variables it is about: together they are TypeOK.
LEMMA TypeParts ==
    /\ TypeOK <=> IOType /\ LockType /\ ChunkType /\ ThreadType
    /\ TypeOK' <=> IOType' /\ LockType' /\ ChunkType' /\ ThreadType'
BY DEF TypeOK, IOType, LockType, ChunkType, ThreadType, CallRecord, EvictRecord

\* What the arrival of events does to the types of the variables it changes.
LEMMA ArriveType ==
    ASSUME IOType, NEW E \in SUBSET Chunk, Arrive(E)
    PROVE  IOType'
<1> DEFINE In  == {c \in E : status[c] = "MEM_SWAPIN"}
           Out == {c \in E : status[c] = "MEM_SWAPOUT"}
<1>1. Bytes(In) \in Nat /\ Bytes(Out) \in Nat
  BY BytesType
<1>2. \A c \in Chunk : Completed(c) \in Status
  BY DEF Completed, Status, Present, Allocated, InUse
<1>3. status' \in [Chunk -> Status]
  BY <1>2 DEF Arrive, IOType
<1>4. aio' \in [Chunk -> SUBSET {"read", "write"}]
  BY DEF Arrive, IOType
<1>5. memory_used' \in Int /\ memory_swapped' \in Int /\ memory_tobefreed' \in Int
  BY <1>1 DEF Arrive, UnclaimTobefreed, IOType
<1>6. ramFresh' \in [Chunk -> BOOLEAN] /\ diskFresh' \in [Chunk -> BOOLEAN]
  BY DEF Arrive, IOType
<1>7. sleeping' \subseteq Thread
  BY DEF Arrive, SignalCompletion, IOType
<1> QED BY <1>3, <1>4, <1>5, <1>6, <1>7 DEF IOType

\* A check for events that finds nothing keeps the types.
LEMMA NothingType ==
    ASSUME IOType, NothingArrives
    PROVE  IOType'
BY DEF IOType, NothingArrives, acctVars, dataVars

\* Looking for events leaves the types right.
LEMMA TakeEventsType ==
    ASSUME IOType, LockType, NEW t \in Thread \cup {Worker}, NEW after \in Thread \cup {NoThread},
           TakeEvents(t, after)
    PROVE  IOType' /\ LockType'
<1>1. CASE \E E \in SUBSET Events \ {{}} :
              Arrive(E) /\ lock' = after /\ UNCHANGED aioWaiter
  BY <1>1, ArriveType DEF Events, LockType
<1>2. CASE NothingArrives /\ aioWaiter' = t /\ lock' = NoThread
  BY <1>2, NothingType DEF LockType
<1> QED BY <1>1, <1>2 DEF TakeEvents

\* waitForAIO, whichever of its three ways it takes, keeps the types.
LEMMA WaitType ==
    ASSUME IOType, LockType, NEW t \in Thread, WaitForAIO(t)
    PROVE  IOType' /\ LockType'
<1>1. CASE /\ sleeping' = sleeping \cup {t}
           /\ lock' = NoThread
           /\ UNCHANGED <<status, aio, acctVars, dataVars, aioWaiter>>
  BY <1>1 DEF IOType, LockType, acctVars, dataVars
<1>2. CASE lock' = t /\ NothingArrives /\ UNCHANGED aioWaiter
  BY <1>2, NothingType DEF LockType
<1>3. CASE TakeEvents(t, t)
  BY <1>3, TakeEventsType
<1> QED BY <1>1, <1>2, <1>3 DEF WaitForAIO

\* The quota of a swapOut is an integer.
LEMMA QuotaType ==
    ASSUME TypeOK, NEW min \in Int
    PROVE  Quota(min) \in Int
<1> DEFINE target == (memory_max * SwapOutPercent) \div 100
<1>1. memory_max * SwapOutPercent \in Int
  BY ConstantsAssumption DEF TypeOK
<1>2. target \in Int
  BY <1>1
<1> HIDE DEF target
<1> QED BY <1>2, ConstantsAssumption DEF Quota, TypeOK, SwapFree, target

\* Going to another place in the code.
LEMMA GotoType ==
    ASSUME ThreadType, NEW t \in Thread, NEW p \in Locations, Goto(t, p)
    PROVE  pc' \in [Thread -> Locations]
BY DEF Goto, ThreadType

\* Starting a call.
LEMMA StartCallType ==
    ASSUME ThreadType, NEW t \in Thread, NEW p \in Locations,
           NEW op \in {"none", "mmalloc", "use", "prepare", "mfree", "limit"},
           NEW c \in Chunk \cup {NoChunk}, NEW w \in BOOLEAN, NEW n \in Nat,
           StartCall(t, p, op, c, w, n)
    PROVE  pc' \in [Thread -> Locations] /\ call' \in [Thread -> CallRecord]
           /\ lock' \in Thread \cup {NoThread}
<1>1. NewCall(op, c, w, n) \in CallRecord
  BY DEF CallRecord, NewCall
<1>2. call' \in [Thread -> CallRecord]
  BY <1>1 DEF StartCall, ThreadType
<1> QED BY <1>2, GotoType DEF StartCall

\* The idle records.
LEMMA IdleRecords == NoCall \in CallRecord /\ NoEvict \in EvictRecord
BY DEF NoCall, NoEvict, NewCall, NewEvict, CallRecord, EvictRecord

\* Ending a call.
LEMMA EndCallType ==
    ASSUME ThreadType, NEW t \in Thread, EndCall(t)
    PROVE  /\ pc' \in [Thread -> Locations] /\ call' \in [Thread -> CallRecord]
           /\ evict' \in [Thread -> EvictRecord] /\ lock' \in Thread \cup {NoThread}
<1>1. "idle" \in Locations
  BY DEF Locations
<1>2. pc' \in [Thread -> Locations]
  BY <1>1, GotoType DEF EndCall
<1>3. call' \in [Thread -> CallRecord] /\ evict' \in [Thread -> EvictRecord]
  BY IdleRecords DEF EndCall, ThreadType
<1> QED BY <1>2, <1>3 DEF EndCall

\* The record of a call of swapOut.
LEMMA SwapOutRecord ==
    ASSUME NEW min \in Int, NEW p \in {"evicted", "untouched", "shrink", "shrunk"}
    PROVE  NewEvict(min, p) \in EvictRecord
<1>1. {} \in SUBSET (Chunk \X Int)
  OBVIOUS
<1> QED BY <1>1 DEF NewEvict, EvictRecord

\* Calling swapOut.
LEMMA CallSwapOutType ==
    ASSUME ThreadType, NEW t \in Thread, NEW min \in Int,
           NEW p \in {"evicted", "untouched", "shrink", "shrunk"}, CallSwapOut(t, min, p)
    PROVE  /\ pc' \in [Thread -> Locations]
           /\ evict' \in [Thread -> EvictRecord] /\ lock' \in Thread \cup {NoThread}
<1>1. "swapOut" \in Locations
  BY DEF Locations
<1>2. pc' \in [Thread -> Locations]
  BY <1>1, GotoType DEF CallSwapOut
<1>3. NewEvict(min, p) \in EvictRecord
  BY SwapOutRecord
<1>4. evict' \in [Thread -> EvictRecord]
  BY <1>3 DEF CallSwapOut, ThreadType
<1> QED BY <1>2, <1>4 DEF CallSwapOut

\* The calls of the program keep the types.
LEMMA RequestType ==
    ASSUME TypeOK, NEW t \in Thread, Request(t) \/ Release(t),
           \A c \in Chunk : uses[t][c] # "none" => useCnt[c] > 0
    PROVE  TypeOK'
<1>0. IOType /\ LockType /\ ChunkType /\ ThreadType
  BY TypeParts
<1>1. ASSUME NEW c \in Chunk, Mmalloc(t, c) PROVE TypeOK'
  <2>1. "space" \in Locations
    BY DEF Locations
  <2>2. pc' \in [Thread -> Locations] /\ call' \in [Thread -> CallRecord]
        /\ lock' \in Thread \cup {NoThread}
    BY <1>0, <1>1, <2>1, StartCallType DEF Mmalloc
  <2>3. IOType' /\ ChunkType'
    BY <1>0, <1>1 DEF Mmalloc, IOType, ChunkType, chunkVars, acctVars, dataVars
  <2>4. LockType' /\ ThreadType'
    BY <1>0, <1>1, <2>2 DEF Mmalloc, LockType, ThreadType, chunkVars
  <2> QED BY <2>3, <2>4, TypeParts
<1>2. ASSUME NEW c \in Chunk, PrepareUse(t, c) PROVE TypeOK'
  <2>1. WhereToWait(c) \in Locations
    BY DEF WhereToWait, Locations
  <2>2. pc' \in [Thread -> Locations] /\ call' \in [Thread -> CallRecord]
        /\ lock' \in Thread \cup {NoThread}
    BY <1>0, <1>2, <2>1, StartCallType DEF PrepareUse
  <2>3. IOType' /\ ChunkType'
    BY <1>0, <1>2 DEF PrepareUse, IOType, ChunkType, chunkVars, acctVars, dataVars
  <2>4. LockType' /\ ThreadType'
    BY <1>0, <1>2, <2>2 DEF PrepareUse, LockType, ThreadType, chunkVars
  <2> QED BY <2>3, <2>4, TypeParts
<1>3. ASSUME NEW c \in Chunk, Mfree(t, c) PROVE TypeOK'
  <2>1. Size[c] \in Int
    BY ConstantsAssumption
  <2>2. CASE Dispose(t, c)
    <3>1. IOType' /\ ChunkType'
      BY <1>0, <1>3, <2>1, <2>2 DEF Mfree, Dispose, IOType, ChunkType, Status
    <3>2. LockType' /\ ThreadType'
      BY <1>0, <2>2, EndCallType DEF Dispose, LockType, ThreadType
    <3> QED BY <3>1, <3>2, TypeParts
  <2>3. CASE /\ StartCall(t, "pffree", "mfree", c, FALSE, 0)
             /\ UNCHANGED <<status, useCnt, swapBuf, aio, memory_max, memory_swapped,
                            memory_tobefreed, dataVars, aioWaiter, sleeping, uses, evict>>
    <3>1. "pffree" \in Locations
      BY DEF Locations
    <3>2. pc' \in [Thread -> Locations] /\ call' \in [Thread -> CallRecord]
          /\ lock' \in Thread \cup {NoThread}
      BY <1>0, <2>3, <3>1, StartCallType
    <3>3. IOType' /\ ChunkType'
      BY <1>0, <1>3, <2>1, <2>3 DEF Mfree, IOType, ChunkType, dataVars
    <3>4. LockType' /\ ThreadType'
      BY <1>0, <2>3, <3>2 DEF LockType, ThreadType
    <3> QED BY <3>3, <3>4, TypeParts
  <2> QED BY <1>3, <2>2, <2>3 DEF Mfree
<1>4. ASSUME NEW c \in Chunk, Write(t, c) PROVE TypeOK'
  <2>1. IOType' /\ ChunkType'
    BY <1>0, <1>4 DEF Write, IOType, ChunkType, chunkVars, acctVars, syncVars
  <2>2. LockType' /\ ThreadType'
    BY <1>0, <1>4 DEF Write, LockType, ThreadType, chunkVars, syncVars, threadVars
  <2> QED BY <2>1, <2>2, TypeParts
<1>5. ASSUME NEW c \in Chunk, NEW w \in BOOLEAN, SetUse(t, c, w) PROVE TypeOK'
  <2>1. EndCall(t)
    BY <1>5 DEF SetUse, Grant
  <2>2. useCnt' \in [Chunk -> Nat] /\ uses' \in [Thread -> [Chunk -> {"none", "read", "write"}]]
    BY <1>0, <1>5 DEF SetUse, Grant, ThreadType
  <2>3. status' \in [Chunk -> Status]
    BY <1>0, <1>5 DEF SetUse, Grant, IOType, Status, Present, Allocated, InUse
  <2>4. IOType' /\ ChunkType'
    BY <1>0, <1>5, <2>3 DEF SetUse, Grant, IOType, ChunkType, acctVars, dataVars
  <2>5. LockType' /\ ThreadType'
    BY <1>0, <1>5, <2>1, <2>2, EndCallType DEF SetUse, LockType, ThreadType
  <2> QED BY <2>4, <2>5, TypeParts
<1>6. ASSUME NEW c \in Chunk, NEW w \in BOOLEAN, SetUseAbsent(t, c, w) PROVE TypeOK'
  <2>1. WhereToWait(c) \in Locations
    BY DEF WhereToWait, Locations
  <2>2. pc' \in [Thread -> Locations] /\ call' \in [Thread -> CallRecord]
        /\ lock' \in Thread \cup {NoThread}
    BY <1>0, <1>6, <2>1, StartCallType DEF SetUseAbsent
  <2>3. IOType' /\ ChunkType'
    BY <1>0, <1>6 DEF SetUseAbsent, IOType, ChunkType, acctVars, dataVars
  <2>4. LockType' /\ ThreadType'
    BY <1>0, <1>6, <2>2 DEF SetUseAbsent, LockType, ThreadType
  <2> QED BY <2>3, <2>4, TypeParts
<1>7. ASSUME NEW n \in MemoryLimits, SetMemoryLimit(t, n) PROVE TypeOK'
  <2>1. n \in Nat /\ NoThread \notin Thread
    BY ConstantsAssumption
  <2>2. IOType'
    BY <1>0, <1>7 DEF SetMemoryLimit, IOType, chunkVars, acctVars, dataVars
  <2>3. ChunkType' /\ LockType'
    BY <1>0, <1>7, <2>1 DEF SetMemoryLimit, ChunkType, LockType, chunkVars
  <2>4. CASE UNCHANGED threadVars
    <3>1. ThreadType'
      BY <1>0, <1>7, <2>4 DEF SetMemoryLimit, ThreadType, threadVars, chunkVars
    <3> QED BY <2>2, <2>3, <3>1, TypeParts
  <2>5. CASE /\ Goto(t, "swapOut")
             /\ call' = [call EXCEPT ![t] = NewCall("limit", NoChunk, FALSE, n)]
             /\ evict' = [evict EXCEPT ![t] = NewEvict(memory_used - n, "shrink")]
    <3>1. "swapOut" \in Locations
      BY DEF Locations
    <3>2. pc' \in [Thread -> Locations]
      BY <1>0, <2>5, <3>1, GotoType
    <3>3. NewCall("limit", NoChunk, FALSE, n) \in CallRecord
      BY <2>1 DEF NewCall, CallRecord
    <3>4. NewEvict(memory_used - n, "shrink") \in EvictRecord
      <4>1. memory_used - n \in Int
        BY <1>0, <2>1 DEF IOType
      <4> QED BY <4>1, SwapOutRecord
    <3>5. ThreadType'
      BY <1>0, <1>7, <2>5, <3>2, <3>3, <3>4 DEF SetMemoryLimit, ThreadType, chunkVars
    <3> QED BY <2>2, <2>3, <3>5, TypeParts
  <2> QED BY <1>7, <2>4, <2>5 DEF SetMemoryLimit
<1>8. ASSUME NEW c \in Chunk, UnsetUse(t, c) PROVE TypeOK'
  <2>1. useCnt[c] > 0
    BY <1>8 DEF UnsetUse
  <2>2. useCnt' \in [Chunk -> Nat] /\ uses' \in [Thread -> [Chunk -> {"none", "read", "write"}]]
    BY <1>0, <1>8, <2>1 DEF UnsetUse, ThreadType
  <2>3. status' \in [Chunk -> Status]
    BY <1>0, <1>8 DEF UnsetUse, StatusReleased, IOType, Status, Present, Allocated
  <2>4. KeepFree - FreeNow \in Int
    <3>1. memory_max * (100 - SwapInPercent) \in Int
      BY <1>0, ConstantsAssumption DEF ChunkType
    <3>2. KeepFree \in Int
      BY <3>1 DEF KeepFree
    <3> QED BY <1>0, <3>2 DEF FreeNow, IOType, ChunkType
  <2>5. CASE CallSwapOut(t, KeepFree - FreeNow, "untouched") /\ UNCHANGED <<call, sleeping>>
    <3>1. /\ pc' \in [Thread -> Locations] /\ evict' \in [Thread -> EvictRecord]
          /\ lock' \in Thread \cup {NoThread}
      BY <1>0, <2>4, <2>5, CallSwapOutType
    <3>2. IOType' /\ ChunkType'
      BY <1>0, <1>8, <2>3, <2>5 DEF UnsetUse, IOType, ChunkType, acctVars, dataVars
    <3>3. LockType' /\ ThreadType'
      BY <1>0, <1>8, <2>2, <2>5, <3>1 DEF UnsetUse, LockType, ThreadType
    <3> QED BY <3>2, <3>3, TypeParts
  <2>6. CASE EndCall(t) /\ sleeping' = {}
    <3>1. IOType' /\ ChunkType'
      BY <1>0, <1>8, <2>3, <2>6 DEF UnsetUse, IOType, ChunkType, acctVars, dataVars
    <3>2. LockType' /\ ThreadType'
      BY <1>0, <1>8, <2>2, <2>6, EndCallType DEF UnsetUse, LockType, ThreadType
    <3> QED BY <3>1, <3>2, TypeParts
  <2> QED BY <1>8, <2>5, <2>6 DEF UnsetUse
<1> QED BY <1>1, <1>2, <1>3, <1>4, <1>5, <1>6, <1>7, <1>8 DEF Request, Release

\* The frame of swapOut.
LEMMA SwapOutFrameType ==
    ASSUME TypeOK, SwapOutFrame
    PROVE  IOType' /\ ring' \subseteq Chunk /\ memory_max' \in Nat
           /\ useCnt' \in [Chunk -> Nat]
           /\ uses' \in [Thread -> [Chunk -> {"none", "read", "write"}]]
           /\ aioWaiter' \in Thread \cup {Worker, NoThread}
BY DEF TypeOK, SwapOutFrame, IOType, acctVars, dataVars

\* Cleaning the cache keeps the type of the locations.
LEMMA FreeLocationsType ==
    ASSUME TypeOK, NEW K, FreeLocations(K)
    PROVE  swapBuf' \in [Chunk -> BOOLEAN]
BY DEF TypeOK, FreeLocations

\* A return from swapOut keeps the types of the threads.
LEMMA SwapOutReturnsType ==
    ASSUME ThreadType, NEW t \in Thread, NEW ok \in BOOLEAN, SwapOutReturns(t, ok)
    PROVE  /\ pc' \in [Thread -> Locations] /\ call' \in [Thread -> CallRecord]
           /\ evict' \in [Thread -> EvictRecord] /\ lock' \in Thread \cup {NoThread}
<1>1. evict[t] \in EvictRecord
  BY DEF ThreadType
<1>2. evict[t].ret \in Locations
  BY <1>1 DEF EvictRecord, Locations
<1>3. pc' \in [Thread -> Locations]
  BY <1>2, GotoType DEF SwapOutReturns
<1>4. [[evict[t] EXCEPT !.ok = ok] EXCEPT !.todo = {}] \in EvictRecord
  BY <1>1 DEF EvictRecord
<1>5. evict' = [evict EXCEPT ![t] = [[evict[t] EXCEPT !.ok = ok] EXCEPT !.todo = {}]]
  BY DEF SwapOutReturns, ThreadType, EvictRecord
<1>6. evict' \in [Thread -> EvictRecord]
  BY <1>4, <1>5 DEF ThreadType
<1> QED BY <1>3, <1>6 DEF SwapOutReturns, ThreadType

\* The steps of swapOut keep the types.
LEMMA SwapOutType ==
    ASSUME TypeOK, NEW t \in Thread, SwapOutSelect(t) \/ Unload(t) \/ SwapOutDone(t)
    PROVE  TypeOK'
<1>0. IOType /\ LockType /\ ChunkType /\ ThreadType
  BY TypeParts
<1>1. CASE SwapOutSelect(t)
  <2> DEFINE min == evict[t].min
  <2>1. min \in Int
    BY <1>0 DEF ThreadType, EvictRecord
  <2>2. /\ IOType' /\ ring' \subseteq Chunk /\ memory_max' \in Nat
        /\ useCnt' \in [Chunk -> Nat]
        /\ uses' \in [Thread -> [Chunk -> {"none", "read", "write"}]]
        /\ aioWaiter' \in Thread \cup {Worker, NoThread}
    BY <1>1, SwapOutFrameType DEF SwapOutSelect
  <2>3. swapBuf' \in [Chunk -> BOOLEAN]
    BY <1>0, <1>1, FreeLocationsType DEF SwapOutSelect, ChunkType
  <2>4. SUFFICES /\ pc' \in [Thread -> Locations] /\ call' \in [Thread -> CallRecord]
                 /\ evict' \in [Thread -> EvictRecord] /\ lock' \in Thread \cup {NoThread}
    BY <2>2, <2>3, TypeParts DEF LockType, ChunkType, ThreadType
  <2>5. CASE Throw(t)
    <3>1. "thrown" \in Locations
      BY DEF Locations
    <3> QED BY <1>0, <2>5, <3>1, GotoType DEF Throw, ThreadType
  <2>6. ASSUME NEW ok \in BOOLEAN, SwapOutReturns(t, ok)
        PROVE  /\ pc' \in [Thread -> Locations] /\ call' \in [Thread -> CallRecord]
               /\ evict' \in [Thread -> EvictRecord] /\ lock' \in Thread \cup {NoThread}
    BY <1>0, <2>6, SwapOutReturnsType
  <2>7. ASSUME NEW V \in Selections(Quota(min)), Goto(t, "unload"), lock' = t, UNCHANGED call,
               evict' = [evict EXCEPT ![t].todo = V, ![t].quota = Quota(min)]
        PROVE  /\ pc' \in [Thread -> Locations] /\ call' \in [Thread -> CallRecord]
               /\ evict' \in [Thread -> EvictRecord] /\ lock' \in Thread \cup {NoThread}
    <3>1. "unload" \in Locations
      BY DEF Locations
    <3>2. V \in SUBSET (Chunk \X Int)
      BY <1>0, <2>7 DEF Selections, Candidates, ChunkType
    <3>3. Quota(min) \in Int
      BY <2>1, QuotaType
    <3>4. [[evict[t] EXCEPT !.todo = V] EXCEPT !.quota = Quota(min)] \in EvictRecord
      BY <1>0, <3>2, <3>3 DEF ThreadType, EvictRecord
    <3>5. evict' = [evict EXCEPT ![t] = [[evict[t] EXCEPT !.todo = V] EXCEPT !.quota = Quota(min)]]
      BY <1>0, <2>7 DEF ThreadType, EvictRecord
    <3>6. evict' \in [Thread -> EvictRecord]
      BY <1>0, <3>4, <3>5 DEF ThreadType
    <3> QED BY <1>0, <2>7, <3>1, <3>6, GotoType DEF ThreadType
  <2> QED BY <1>1, <2>5, <2>6, <2>7 DEF SwapOutSelect
<1>2. CASE Unload(t)
  <2>1. PICK v \in evict[t].todo :
           UnloadSkip(t, v) \/ UnloadCached(t, v) \/ UnloadWrite(t, v) \/ UnloadThrow(t, v)
    BY <1>2 DEF Unload
  <2>2. v[1] \in Chunk
    BY <1>0 DEF ThreadType, EvictRecord
  <2>3. Size[v[1]] \in Nat
    BY <2>2, ConstantsAssumption
  <2>4. ASSUME NEW bytes \in Int, Unloaded(t, v, bytes)
        PROVE  ThreadType' /\ LockType' /\ ring' \subseteq Chunk /\ memory_max' \in Nat
    <3>1. evict[t] \in EvictRecord
      BY <1>0 DEF ThreadType
    <3> DEFINE left == evict[t].todo \ {v}
               sum  == evict[t].real + bytes
    <3>2. left \in SUBSET (Chunk \X Int) /\ sum \in Int
      BY <3>1, <2>4 DEF EvictRecord
    <3>3. evict' = [evict EXCEPT ![t] = [[evict[t] EXCEPT !.todo = left] EXCEPT !.real = sum]]
      BY <1>0, <2>4 DEF Unloaded, ThreadType, EvictRecord
    <3> HIDE DEF left, sum
    <3>4. [[evict[t] EXCEPT !.todo = left] EXCEPT !.real = sum] \in EvictRecord
      BY <3>1, <3>2 DEF EvictRecord
    <3>5. evict' \in [Thread -> EvictRecord]
      BY <1>0, <3>3, <3>4 DEF ThreadType
    <3> QED BY <1>0, <2>4, <3>5 DEF Unloaded, ThreadType, LockType, ChunkType
  <2>5. CASE UnloadSkip(t, v)
    <3>1. \E bytes \in Int : Unloaded(t, v, bytes)
      BY <2>3, <2>5 DEF UnloadSkip
    <3>2. IOType' /\ swapBuf' \in [Chunk -> BOOLEAN]
      BY <1>0, <2>5 DEF UnloadSkip, IOType, ChunkType, acctVars, dataVars
    <3> QED BY <2>4, <3>1, <3>2, TypeParts DEF ChunkType
  <2>6. CASE UnloadCached(t, v)
    <3>1. ThreadType' /\ LockType' /\ ring' \subseteq Chunk /\ memory_max' \in Nat
      BY <2>3, <2>4, <2>6 DEF UnloadCached
    <3>2. IOType' /\ swapBuf' \in [Chunk -> BOOLEAN]
      <4>1. memory_used' \in Int /\ memory_swapped' \in Int
        BY <1>0, <2>3, <2>6 DEF UnloadCached, IOType
      <4>2. status' \in [Chunk -> Status]
        BY <1>0, <2>6 DEF UnloadCached, IOType, Status
      <4>3. ramFresh' \in [Chunk -> BOOLEAN]
        BY <1>0, <2>6 DEF UnloadCached, IOType
      <4> QED BY <1>0, <2>6, <4>1, <4>2, <4>3 DEF UnloadCached, IOType, ChunkType
    <3> QED BY <3>1, <3>2, TypeParts DEF ChunkType
  <2>7. CASE UnloadWrite(t, v)
    <3>1. ThreadType' /\ LockType' /\ ring' \subseteq Chunk /\ memory_max' \in Nat
      BY <2>3, <2>4, <2>7 DEF UnloadWrite
    <3>2. IOType'
      <4>1. memory_tobefreed' \in Int /\ memory_swapped' \in Int
        BY <1>0, <2>3, <2>7 DEF UnloadWrite, IOType
      <4>2. status' \in [Chunk -> Status]
        BY <1>0, <2>7 DEF UnloadWrite, IOType, Status
      <4>3. aio' \in [Chunk -> SUBSET {"read", "write"}]
        BY <1>0, <2>7 DEF UnloadWrite, IOType
      <4> QED BY <1>0, <2>7, <4>1, <4>2, <4>3 DEF UnloadWrite, IOType, dataVars
    <3>3. swapBuf' \in [Chunk -> BOOLEAN]
      BY <1>0, <2>7 DEF UnloadWrite, ChunkType
    <3> QED BY <3>1, <3>2, <3>3, TypeParts DEF ChunkType
  <2>8. CASE UnloadThrow(t, v)
    <3>1. "thrown" \in Locations
      BY DEF Locations
    <3>2. swapBuf' \in [Chunk -> BOOLEAN]
      BY <2>8, FreeLocationsType DEF UnloadThrow
    <3>3. IOType' /\ ChunkType'
      BY <1>0, <2>8, <3>2 DEF UnloadThrow, IOType, ChunkType, acctVars, dataVars, syncVars
    <3>4. LockType' /\ ThreadType'
      BY <1>0, <2>8, <3>1, GotoType DEF UnloadThrow, LockType, ThreadType, syncVars
    <3> QED BY <3>3, <3>4, TypeParts
  <2> QED BY <2>1, <2>5, <2>6, <2>7, <2>8
<1>3. CASE SwapOutDone(t)
  <2> DEFINE ok == evict[t].real > 0 /\ \/ evict[t].real >= evict[t].quota
                                        \/ evict[t].real >= evict[t].min
  <2>1. ok \in BOOLEAN
    OBVIOUS
  <2>2. SwapOutReturns(t, ok)
    BY <1>3 DEF SwapOutDone
  <2> HIDE DEF ok
  <2>3. /\ pc' \in [Thread -> Locations] /\ call' \in [Thread -> CallRecord]
        /\ evict' \in [Thread -> EvictRecord] /\ lock' \in Thread \cup {NoThread}
    BY <1>0, <2>1, <2>2, SwapOutReturnsType
  <2>4. /\ IOType' /\ ring' \subseteq Chunk /\ memory_max' \in Nat
        /\ useCnt' \in [Chunk -> Nat]
        /\ uses' \in [Thread -> [Chunk -> {"none", "read", "write"}]]
        /\ aioWaiter' \in Thread \cup {Worker, NoThread}
    BY <1>3, SwapOutFrameType DEF SwapOutDone
  <2> QED BY <1>0, <1>3, <2>3, <2>4, TypeParts DEF SwapOutDone, LockType, ChunkType, ThreadType
<1> QED BY <1>1, <1>2, <1>3


\* A call about a chunk has one.
LEMMA ChunkOfCall ==
    ASSUME TypeOK, CallDiscipline, NEW t \in Thread,
           Where(t) \in {"space", "evicted", "swapOutWait", "swapIn", "pffree"}
    PROVE  call[t].chunk \in Chunk /\ Size[call[t].chunk] \in Nat
BY ConstantsAssumption DEF CallDiscipline, CallAtPlace, OpsAt

\* The return from swapIn keeps the types of the threads.
LEMMA SwapInReturnsType ==
    ASSUME ThreadType, NEW t \in Thread, SwapInReturns(t)
    PROVE  /\ pc' \in [Thread -> Locations] /\ call' \in [Thread -> CallRecord]
           /\ evict' \in [Thread -> EvictRecord] /\ lock' \in Thread \cup {NoThread}
<1>1. "swapIn" \in Locations
  BY DEF Locations
<1>2. CASE Goto(t, "swapIn") /\ lock' = t /\ UNCHANGED <<call, evict>>
  BY <1>1, <1>2, GotoType DEF ThreadType
<1> QED BY <1>2, EndCallType DEF SwapInReturns

\* ensureEnoughSpace and what follows it keep the types.
LEMMA SpaceType ==
    ASSUME TypeOK, CallDiscipline, NEW t \in Thread,
           \/ EnsureEnoughSpace(t) \/ Evicted(t) \/ MmallocDone(t)
           \/ SwapInNotNeeded(t) \/ SwapIn(t)
    PROVE  TypeOK'
<1>0. IOType /\ LockType /\ ChunkType /\ ThreadType
  BY TypeParts
<1> DEFINE c == call[t].chunk
<1>1. call[t] \in CallRecord /\ evict[t] \in EvictRecord
  BY <1>0 DEF ThreadType
<1>2. c \in Chunk /\ Size[c] \in Nat
  BY ChunkOfCall DEF EnsureEnoughSpace, Evicted, MmallocDone, SwapInNotNeeded, SwapIn, At, Where
<1>3. CASE EnsureEnoughSpace(t)
  <2>1. ChunkType' /\ useCnt' = useCnt /\ uses' = uses /\ call' = call
    BY <1>0, <1>3 DEF EnsureEnoughSpace, WaitFrame, ChunkType
  <2> DEFINE min == Size[c] - (memory_max - memory_used) - memory_tobefreed
  <2>2. min \in Int
    BY <1>0, <1>2 DEF IOType, ChunkType
  <2>3. CASE CallSwapOut(t, min, "evicted") /\ NothingArrives /\ UNCHANGED aioWaiter
    BY <1>0, <2>1, <2>2, <2>3, CallSwapOutType, NothingType, TypeParts DEF ThreadType, LockType
  <2>4. CASE WaitForAIO(t) /\ UNCHANGED <<pc, evict>>
    BY <1>0, <2>1, <2>4, WaitType, TypeParts DEF ThreadType
  <2> HIDE DEF min
  <2> QED BY <1>3, <2>3, <2>4 DEF EnsureEnoughSpace, min
<1>4. CASE Evicted(t)
  <2>1. useCnt' = useCnt /\ uses' = uses /\ ring' = ring /\ memory_max' = memory_max
    BY <1>4 DEF Evicted
  <2>2. swapBuf' \in [Chunk -> BOOLEAN]
    BY <1>0, <1>4, FreeLocationsType DEF Evicted, ChunkType
  <2>3. IOType' /\ LockType'
    <3>1. CASE NothingArrives /\ lock' = t /\ UNCHANGED aioWaiter
      BY <1>0, <3>1, NothingType DEF LockType
    <3>2. CASE NothingArrives /\ lock' = NoThread /\ UNCHANGED aioWaiter
      BY <1>0, <3>2, NothingType DEF LockType
    <3>3. CASE WaitForAIO(t)
      BY <1>0, <3>3, WaitType
    <3> QED BY <1>4, <3>1, <3>2, <3>3 DEF Evicted, Throw
  <2>4. pc' \in [Thread -> Locations]
    <3>1. {"space", "thrown"} \subseteq Locations
      BY DEF Locations
    <3>2. Goto(t, "space") \/ Goto(t, "thrown")
      BY <1>4 DEF Evicted, Throw
    <3> QED BY <1>0, <3>1, <3>2, GotoType
  <2>5. evict' \in [Thread -> EvictRecord]
    <3>1. evict' = [evict EXCEPT ![t] = NoEvict] \/ evict' = evict
      BY <1>4 DEF Evicted, Throw
    <3> QED BY <1>0, <3>1, IdleRecords DEF ThreadType
  <2>6. call' \in [Thread -> CallRecord]
    <3>1. [call[t] EXCEPT !.cleaned = TRUE] \in CallRecord
      BY <1>1 DEF CallRecord
    <3>2. call' = call \/ call' = [call EXCEPT ![t] = [call[t] EXCEPT !.cleaned = TRUE]]
      BY <1>0, <1>4 DEF Evicted, Throw, ThreadType
    <3> QED BY <1>0, <3>1, <3>2 DEF ThreadType
  <2> QED BY <1>0, <2>1, <2>2, <2>3, <2>4, <2>5, <2>6, TypeParts DEF ThreadType, ChunkType
<1>5. CASE MmallocDone(t)
  <2>1. /\ pc' \in [Thread -> Locations] /\ call' \in [Thread -> CallRecord]
        /\ evict' \in [Thread -> EvictRecord] /\ lock' \in Thread \cup {NoThread}
    BY <1>0, <1>5, EndCallType DEF MmallocDone
  <2>2. ThreadType' /\ LockType'
    BY <1>0, <1>5, <2>1 DEF MmallocDone, ThreadType, LockType
  <2>3. memory_used' \in Int
    BY <1>0, <1>2, <1>5 DEF MmallocDone, IOType
  <2>4. IOType'
    BY <1>0, <1>2, <1>5, <2>3 DEF MmallocDone, IOType, Status, Present, Allocated
  <2>5. ChunkType'
    BY <1>0, <1>2, <1>5 DEF MmallocDone, ChunkType
  <2> QED BY <2>2, <2>4, <2>5, TypeParts
<1>6. CASE SwapInNotNeeded(t)
  <2>1. /\ pc' \in [Thread -> Locations] /\ call' \in [Thread -> CallRecord]
        /\ evict' \in [Thread -> EvictRecord] /\ lock' \in Thread \cup {NoThread}
    BY <1>0, <1>6, SwapInReturnsType DEF SwapInNotNeeded
  <2>2. ThreadType' /\ LockType'
    BY <1>0, <1>6, <2>1 DEF SwapInNotNeeded, ThreadType, LockType, chunkVars
  <2>3. IOType' /\ ChunkType'
    BY <1>0, <1>6 DEF SwapInNotNeeded, IOType, ChunkType, chunkVars, acctVars, dataVars
  <2> QED BY <2>2, <2>3, TypeParts
<1>7. CASE SwapIn(t)
  <2>1. /\ pc' \in [Thread -> Locations] /\ call' \in [Thread -> CallRecord]
        /\ evict' \in [Thread -> EvictRecord] /\ lock' \in Thread \cup {NoThread}
    BY <1>0, <1>7, SwapInReturnsType DEF SwapIn
  <2>2. ThreadType' /\ LockType'
    BY <1>0, <1>7, <2>1 DEF SwapIn, ThreadType, LockType
  <2>3. memory_used' \in Int
    BY <1>0, <1>2, <1>7 DEF SwapIn, IOType
  <2>4. status' \in [Chunk -> Status] /\ aio' \in [Chunk -> SUBSET {"read", "write"}]
    BY <1>0, <1>2, <1>7 DEF SwapIn, IOType, Status, Present
  <2>5. IOType' /\ ChunkType'
    BY <1>0, <1>7, <2>3, <2>4 DEF SwapIn, IOType, ChunkType, dataVars
  <2> QED BY <2>2, <2>5, TypeParts
<1> QED BY <1>3, <1>4, <1>5, <1>6, <1>7

\* The other steps of a call keep the types.
LEMMA WaitStepType ==
    ASSUME TypeOK, CallDiscipline, NEW t \in Thread,
           \/ AwaitSwapOut(t) \/ AwaitSwapIn(t) \/ PfFree(t)
           \/ Untouched(t) \/ Shrink(t) \/ Shrunk(t) \/ Recover(t)
    PROVE  TypeOK'
<1>0. IOType /\ LockType /\ ChunkType /\ ThreadType
  BY TypeParts
<1> DEFINE c == call[t].chunk
<1>1. call[t] \in CallRecord /\ evict[t] \in EvictRecord
  BY <1>0 DEF ThreadType
<1>2. ASSUME WaitForAIO(t), UNCHANGED threadVars, WaitFrame
      PROVE  TypeOK'
  BY <1>0, <1>2, WaitType, TypeParts DEF WaitFrame, ThreadType, ChunkType, threadVars
<1>3. CASE AwaitSwapOut(t)
  <2>1. ChunkType' /\ useCnt' = useCnt /\ uses' = uses
    BY <1>0, <1>3 DEF AwaitSwapOut, WaitFrame, ChunkType
  <2>2. CASE Goto(t, "space") /\ lock' = t /\ NothingArrives /\ UNCHANGED <<aioWaiter, call, evict>>
    <3>1. "space" \in Locations
      BY DEF Locations
    <3>2. pc' \in [Thread -> Locations]
      BY <1>0, <2>2, <3>1, GotoType
    <3> QED BY <1>0, <2>1, <2>2, <3>2, NothingType, TypeParts DEF ThreadType, LockType
  <2>3. CASE SwapInReturns(t) /\ NothingArrives /\ UNCHANGED aioWaiter
    BY <1>0, <2>1, <2>3, SwapInReturnsType, NothingType, TypeParts DEF ThreadType, LockType
  <2> QED BY <1>2, <1>3, <2>2, <2>3 DEF AwaitSwapOut
<1>4. CASE AwaitSwapIn(t)
  <2>1. CASE /\ Grant(t, c, call[t].write, "MEM_ALLOCATED")
             /\ UNCHANGED <<useCnt, aio, ring, memory_max, acctVars, dataVars, aioWaiter, sleeping>>
    <3>1. EndCall(t)
      BY <2>1 DEF Grant
    <3>2. c \in Chunk
      BY <1>4, ChunkOfCall DEF AwaitSwapIn, At, Where
    <3>3. status' \in [Chunk -> Status]
      BY <1>0, <2>1, <3>2 DEF Grant, IOType, Status, Present, Allocated, InUse
    <3>4. uses' \in [Thread -> [Chunk -> {"none", "read", "write"}]] /\ swapBuf' \in [Chunk -> BOOLEAN]
      BY <1>0, <2>1, <3>2 DEF Grant, ThreadType, ChunkType
    <3>5. IOType' /\ ChunkType'
      BY <1>0, <2>1, <3>3, <3>4 DEF IOType, ChunkType, acctVars, dataVars
    <3>6. LockType' /\ ThreadType'
      BY <1>0, <2>1, <3>1, <3>4, EndCallType DEF LockType, ThreadType
    <3> QED BY <3>5, <3>6, TypeParts
  <2> QED BY <1>2, <1>4, <2>1 DEF AwaitSwapIn
<1>5. CASE PfFree(t)
  <2>1. CASE Dispose(t, c) /\ UNCHANGED <<ring, memory_used>>
    <3>1. c \in Chunk /\ Size[c] \in Nat
      BY <1>5, ChunkOfCall DEF PfFree, At, Where
    <3>2. memory_swapped' \in Int
      BY <1>0, <2>1, <3>1 DEF Dispose, IOType
    <3>3. IOType' /\ ChunkType'
      BY <1>0, <2>1, <3>2 DEF Dispose, IOType, ChunkType, Status
    <3>4. LockType' /\ ThreadType'
      BY <1>0, <2>1, EndCallType DEF Dispose, LockType, ThreadType
    <3> QED BY <3>3, <3>4, TypeParts
  <2> QED BY <1>2, <1>5, <2>1 DEF PfFree
<1>6. CASE Untouched(t)
  <2>1. LockType' /\ ThreadType'
    BY <1>0, <1>6, EndCallType DEF Untouched, LockType, ThreadType, chunkVars
  <2>2. IOType' /\ ChunkType'
    BY <1>0, <1>6 DEF Untouched, IOType, ChunkType, chunkVars, acctVars, dataVars
  <2> QED BY <2>1, <2>2, TypeParts
<1>7. CASE Shrink(t)
  <2>1. call[t].limit \in Nat
    BY <1>1 DEF CallRecord
  <2>2. IOType' /\ ChunkType'
    BY <1>0, <1>7, <2>1 DEF Shrink, IOType, ChunkType, chunkVars, acctVars, dataVars
  <2>3. CASE EndCall(t)
    BY <1>0, <1>7, <2>2, <2>3, EndCallType, TypeParts DEF Shrink, LockType, ThreadType, chunkVars
  <2>4. CASE CallSwapOut(t, 0, "shrunk") /\ UNCHANGED call
    BY <1>0, <1>7, <2>2, <2>4, CallSwapOutType, TypeParts DEF Shrink, LockType, ThreadType, chunkVars
  <2> QED BY <1>7, <2>3, <2>4 DEF Shrink
<1>8. CASE Shrunk(t)
  <2>1. LockType' /\ ThreadType'
    BY <1>0, <1>8, EndCallType DEF Shrunk, LockType, ThreadType, chunkVars
  <2>2. IOType' /\ ChunkType'
    BY <1>0, <1>8 DEF Shrunk, IOType, ChunkType, chunkVars, acctVars, dataVars
  <2> QED BY <2>1, <2>2, TypeParts
<1>9. CASE Recover(t)
  <2>1. "idle" \in Locations
    BY DEF Locations
  <2>2. pc' \in [Thread -> Locations]
    BY <1>0, <1>9, <2>1, GotoType DEF Recover
  <2>3. LockType' /\ ThreadType'
    BY <1>0, <1>9, <2>2, IdleRecords DEF Recover, LockType, ThreadType, chunkVars, syncVars
  <2>4. IOType' /\ ChunkType'
    BY <1>0, <1>9 DEF Recover, IOType, ChunkType, chunkVars, acctVars, dataVars, syncVars
  <2> QED BY <2>3, <2>4, TypeParts
<1> QED BY <1>3, <1>4, <1>5, <1>6, <1>7, <1>8, <1>9

\* Arriving IO keeps the types.
LEMMA IOStepType ==
    ASSUME TypeOK, IOStep
    PROVE  TypeOK'
<1>0. IOType /\ LockType /\ ChunkType /\ ThreadType
  BY TypeParts
<1>1. ASSUME NEW t, NEW after \in Thread \cup {NoThread}, PollReturn(t, after)
      PROVE  TypeOK'
  <2>1. IOType'
    BY <1>0, <1>1, ArriveType DEF PollReturn, Events
  <2> QED BY <1>0, <1>1, <2>1, TypeParts DEF PollReturn, WaitFrame, LockType, ChunkType, ThreadType, threadVars
<1>2. CASE WorkerCheck
  <2>1. IOType' /\ LockType'
    BY <1>0, <1>2, TakeEventsType DEF WorkerCheck
  <2> QED BY <1>0, <1>2, <2>1, TypeParts DEF WorkerCheck, WaitFrame, ChunkType, ThreadType, threadVars
<1> QED BY <1>1, <1>2 DEF IOStep

-----------------------------------------------------------------------------
(* The calls under way, and the use counts.                                *)

\* A step leaves the threads other than t alone.
Only(t) == \A u \in Thread \ {t} : pc'[u] = pc[u] /\ call'[u] = call[u] /\ evict'[u] = evict[u]

\* A step neither starts nor ends a setUse.
SameUseCalls ==
    \A u \in Thread : /\ call'[u].op = "use" <=> call[u].op = "use"
                      /\ call[u].op = "use" => call'[u].chunk = call[u].chunk

\* It is enough to look at the thread that moves.
LEMMA OnlyOne ==
    ASSUME CallDiscipline, NEW t \in Thread, Only(t), CallAtPlace(t)'
    PROVE  CallDiscipline'
BY DEF CallDiscipline, CallAtPlace, Where, Only

\* Starting a call.
LEMMA StartCallPlace ==
    ASSUME TypeOK, CallDiscipline, NEW t \in Thread, NEW p \in Locations \ {"swapOut", "unload"},
           NEW op \in OpsAt(p), NEW c, NEW w, NEW n,
           c \in Chunk <=> op \in {"mmalloc", "use", "prepare", "mfree"},
           StartCall(t, p, op, c, w, n), UNCHANGED evict
    PROVE  /\ CallDiscipline'
           /\ op # "use" /\ call[t].op # "use" => SameUseCalls
<1>1. Only(t)
  BY DEF Only, StartCall, Goto, TypeOK
<1>2. pc'[t] = p /\ call'[t] = NewCall(op, c, w, n)
  BY DEF StartCall, Goto, TypeOK
<1>3. call'[t].op = op /\ call'[t].chunk = c
  BY <1>2 DEF NewCall
<1>4. CallAtPlace(t)'
  BY <1>2, <1>3 DEF CallAtPlace, Where
<1> QED BY <1>1, <1>3, <1>4, OnlyOne DEF SameUseCalls, Only

\* Ending a call.
LEMMA EndCallPlace ==
    ASSUME TypeOK, CallDiscipline, NEW t \in Thread, EndCall(t)
    PROVE  /\ CallDiscipline'
           /\ Only(t) /\ call'[t].op = "none" /\ call'[t].chunk = NoChunk
           /\ call[t].op # "use" => SameUseCalls
<1>1. Only(t)
  BY DEF Only, EndCall, Goto, TypeOK
<1>2. pc'[t] = "idle" /\ call'[t] = NoCall
  BY DEF EndCall, Goto, TypeOK
<1>3. call'[t].op = "none" /\ call'[t].chunk = NoChunk
  BY <1>2 DEF NewCall, NoCall
<1>4. CallAtPlace(t)'
  BY <1>2, <1>3, ConstantsAssumption DEF CallAtPlace, Where, OpsAt
<1> QED BY <1>1, <1>3, <1>4, OnlyOne DEF SameUseCalls, Only

\* Going on with a call at another place.
LEMMA GotoPlace ==
    ASSUME TypeOK, CallDiscipline, NEW t \in Thread, NEW p \in Locations \ {"swapOut", "unload"},
           Goto(t, p), call[t].op \in OpsAt(p),
           call'[t].op = call[t].op, call'[t].chunk = call[t].chunk,
           \A u \in Thread \ {t} : call'[u] = call[u] /\ evict'[u] = evict[u]
    PROVE  CallDiscipline' /\ SameUseCalls
<1>1. Only(t) /\ pc'[t] = p
  BY DEF Only, Goto, TypeOK
<1>2. CallAtPlace(t)'
  BY <1>1 DEF CallAtPlace, Where, CallDiscipline
<1> QED BY <1>1, <1>2, OnlyOne DEF SameUseCalls, Only

\* Calling swapOut.
LEMMA CallSwapOutPlace ==
    ASSUME TypeOK, CallDiscipline, NEW t \in Thread, NEW min, NEW p \in Locations,
           CallSwapOut(t, min, p), UNCHANGED call, call[t].op \in OpsAt(p)
    PROVE  CallDiscipline' /\ SameUseCalls
<1>1. Only(t) /\ pc'[t] = "swapOut" /\ evict'[t] = NewEvict(min, p)
  BY DEF Only, CallSwapOut, Goto, TypeOK
<1>2. Where(t)' = p
  BY <1>1 DEF NewEvict, Where
<1>3. CallAtPlace(t)'
  BY <1>2 DEF CallAtPlace, CallDiscipline
<1> QED BY <1>1, <1>3, OnlyOne DEF SameUseCalls

\* Nothing changes for the threads.
LEMMA ThreadsStay ==
    ASSUME CallDiscipline, UNCHANGED threadVars
    PROVE  CallDiscipline' /\ SameUseCalls
BY DEF CallDiscipline, CallAtPlace, Where, SameUseCalls, threadVars

\* The steps of swapOut stay within it or return from it.
LEMMA SwapOutPlace ==
    ASSUME TypeOK, CallDiscipline, NEW t \in Thread, SwapOutSelect(t) \/ Unload(t) \/ SwapOutDone(t)
    PROVE  CallDiscipline' /\ SameUseCalls
<1>1. evict[t].ret \in Locations \ {"swapOut", "unload"} /\ Where(t) = evict[t].ret
  BY DEF TypeOK, SwapOutSelect, Unload, SwapOutDone, At, Where, Locations
<1>2. ASSUME NEW ok, SwapOutReturns(t, ok) PROVE CallDiscipline' /\ SameUseCalls
  <2>1. \A u \in Thread \ {t} : call'[u] = call[u] /\ evict'[u] = evict[u]
    BY <1>2 DEF SwapOutReturns, TypeOK
  <2>2. call[t].op \in OpsAt(evict[t].ret)
    BY <1>1 DEF CallDiscipline, CallAtPlace
  <2> QED BY <1>1, <1>2, <2>1, <2>2, GotoPlace DEF SwapOutReturns
<1>3. CASE Throw(t) \/ (Goto(t, "thrown") /\ UNCHANGED <<call, evict>>)
  <2>1. "thrown" \in Locations \ {"swapOut", "unload"} /\ call[t].op \in OpsAt("thrown")
    BY DEF Locations, OpsAt, TypeOK
  <2> QED BY <1>3, <2>1, GotoPlace DEF Throw
<1>4. ASSUME pc'[t] \in {"swapOut", "unload"}, evict'[t].ret = evict[t].ret, Only(t), UNCHANGED call
      PROVE  CallDiscipline' /\ SameUseCalls
  <2>1. Where(t)' = Where(t)
    BY <1>1, <1>4 DEF Where
  <2>2. CallAtPlace(t)'
    BY <1>4, <2>1 DEF CallAtPlace, CallDiscipline
  <2> QED BY <1>4, <2>2, OnlyOne DEF SameUseCalls
<1>5. CASE SwapOutSelect(t)
  <2>1. ASSUME NEW V, Goto(t, "unload"), UNCHANGED call,
               evict' = [evict EXCEPT ![t].todo = V, ![t].quota = Quota(evict[t].min)]
        PROVE  CallDiscipline' /\ SameUseCalls
    <3>1. evict'[t].ret = evict[t].ret
      BY <2>1 DEF TypeOK
    <3>2. pc'[t] = "unload" /\ Only(t)
      BY <2>1 DEF Goto, TypeOK, Only
    <3> QED BY <1>4, <2>1, <3>1, <3>2
  <2> QED BY <1>2, <1>3, <1>5, <2>1 DEF SwapOutSelect
<1>6. CASE Unload(t)
  <2>1. ASSUME NEW v, NEW b, Unloaded(t, v, b) PROVE CallDiscipline' /\ SameUseCalls
    <3>1. evict'[t].ret = evict[t].ret
      BY <2>1 DEF Unloaded, TypeOK
    <3>2. pc'[t] = "unload" /\ Only(t) /\ UNCHANGED call
      BY <1>6, <2>1 DEF Unloaded, Unload, At, TypeOK, Only
    <3> QED BY <1>4, <3>1, <3>2
  <2> QED BY <1>3, <1>6, <2>1 DEF Unload, UnloadSkip, UnloadCached, UnloadWrite, UnloadThrow
<1>7. CASE SwapOutDone(t)
  BY <1>2, <1>7 DEF SwapOutDone
<1> QED BY <1>5, <1>6, <1>7

\* A thread that runs is where its pc says, unless it is in swapOut.
LEMMA WhereItRuns ==
    ASSUME CallDiscipline, NEW t \in Thread, NEW p \in Locations \ {"swapOut", "unload"}, At(t, p)
    PROVE  call[t].op \in OpsAt(p)
BY DEF CallDiscipline, CallAtPlace, Where, At

\* The return from swapIn.
LEMMA SwapInReturnsPlace ==
    ASSUME TypeOK, CallDiscipline, NEW t \in Thread, SwapInReturns(t)
    PROVE  CallDiscipline' /\ SameUseCalls
<1>1. CASE call[t].op = "use" /\ Goto(t, "swapIn") /\ UNCHANGED <<call, evict>>
  BY <1>1, GotoPlace DEF OpsAt, Locations
<1>2. CASE call[t].op # "use" /\ EndCall(t)
  BY <1>2, EndCallPlace
<1> QED BY <1>1, <1>2 DEF SwapInReturns

\* The steps of ensureEnoughSpace and what follows it.
LEMMA SpacePlace ==
    ASSUME TypeOK, CallDiscipline, NEW t \in Thread,
           \/ EnsureEnoughSpace(t) \/ Evicted(t) \/ MmallocDone(t)
           \/ SwapInNotNeeded(t) \/ SwapIn(t)
    PROVE  CallDiscipline' /\ SameUseCalls
<1>0. {"space", "evicted", "thrown"} \subseteq Locations \ {"swapOut", "unload"}
  BY DEF Locations
<1>1. CASE EnsureEnoughSpace(t)
  <2>1. call[t].op \in OpsAt("evicted")
    BY <1>0, <1>1, WhereItRuns DEF EnsureEnoughSpace, OpsAt
  <2>2. CASE UNCHANGED <<pc, evict>>
    BY <1>1, <2>2, ThreadsStay DEF EnsureEnoughSpace, threadVars
  <2>3. ASSUME NEW min, CallSwapOut(t, min, "evicted") PROVE CallDiscipline' /\ SameUseCalls
    BY <1>0, <1>1, <2>1, <2>3, CallSwapOutPlace DEF EnsureEnoughSpace
  <2> QED BY <1>1, <2>2, <2>3 DEF EnsureEnoughSpace
<1>2. CASE Evicted(t)
  <2>1. call[t].op \in OpsAt("space") \cap OpsAt("thrown")
    BY <1>0, <1>2, WhereItRuns DEF Evicted, OpsAt
  <2>2. /\ \A u \in Thread \ {t} : call'[u] = call[u] /\ evict'[u] = evict[u]
        /\ call'[t].op = call[t].op /\ call'[t].chunk = call[t].chunk
    BY <1>2 DEF Evicted, Throw, TypeOK
  <2>3. Goto(t, "space") \/ Goto(t, "thrown")
    BY <1>2 DEF Evicted, Throw
  <2> QED BY <1>0, <2>1, <2>2, <2>3, GotoPlace
<1>3. CASE MmallocDone(t)
  BY <1>3, EndCallPlace DEF MmallocDone
<1>4. CASE SwapInNotNeeded(t) \/ SwapIn(t)
  BY <1>4, SwapInReturnsPlace DEF SwapInNotNeeded, SwapIn
<1> QED BY <1>1, <1>2, <1>3, <1>4

\* The other steps of a call that leave the uses alone.
LEMMA WaitStepPlace ==
    ASSUME TypeOK, CallDiscipline, NEW t \in Thread,
           \/ AwaitSwapOut(t) \/ PfFree(t) \/ Untouched(t) \/ Shrink(t) \/ Shrunk(t) \/ Recover(t)
    PROVE  CallDiscipline' /\ SameUseCalls
<1>0. {"space", "swapOutWait", "untouched", "pffree", "shrink", "shrunk"}
         \subseteq Locations \ {"swapOut", "unload"}
  BY DEF Locations
<1>1. CASE AwaitSwapOut(t)
  <2>1. CASE UNCHANGED threadVars
    BY <2>1, ThreadsStay
  <2>2. CASE SwapInReturns(t)
    BY <2>2, SwapInReturnsPlace
  <2>3. CASE Goto(t, "space") /\ UNCHANGED <<call, evict>>
    <3>1. call[t].op \in OpsAt("space")
      BY <1>0, <1>1, WhereItRuns DEF AwaitSwapOut, OpsAt
    <3> QED BY <1>0, <2>3, <3>1, GotoPlace
  <2> QED BY <1>1, <2>1, <2>2, <2>3 DEF AwaitSwapOut
<1>2. CASE PfFree(t)
  <2>1. CASE UNCHANGED threadVars
    BY <2>1, ThreadsStay
  <2>2. CASE EndCall(t)
    <3>1. call[t].op # "use"
      BY <1>0, <1>2, WhereItRuns DEF PfFree, OpsAt
    <3> QED BY <2>2, <3>1, EndCallPlace
  <2> QED BY <1>2, <2>1, <2>2 DEF PfFree, Dispose
<1>3. CASE Untouched(t) \/ Shrunk(t)
  <2>1. call[t].op # "use"
    BY <1>0, <1>3, WhereItRuns DEF Untouched, Shrunk, OpsAt
  <2> QED BY <1>3, <2>1, EndCallPlace DEF Untouched, Shrunk
<1>4. CASE Shrink(t)
  <2>1. call[t].op = "limit"
    BY <1>0, <1>4, WhereItRuns DEF Shrink, OpsAt
  <2>2. CASE EndCall(t)
    BY <2>1, <2>2, EndCallPlace
  <2>3. CASE CallSwapOut(t, 0, "shrunk") /\ UNCHANGED call
    <3>1. "limit" \in OpsAt("shrunk")
      BY DEF OpsAt
    <3> QED BY <1>0, <2>1, <2>3, <3>1, CallSwapOutPlace
  <2> QED BY <1>4, <2>2, <2>3 DEF Shrink
<1>5. CASE Recover(t)
  <2>1. Only(t) /\ pc'[t] = "idle" /\ call'[t] = NoCall
    BY <1>5 DEF Recover, Goto, TypeOK, Only
  <2>2. call'[t].op = "none" /\ call'[t].chunk = NoChunk
    BY <2>1 DEF NoCall, NewCall
  <2>3. CallAtPlace(t)'
    BY <2>1, <2>2, ConstantsAssumption DEF CallAtPlace, Where, OpsAt
  <2> QED BY <1>5, <2>1, <2>2, <2>3, OnlyOne DEF SameUseCalls, Only, Recover
<1> QED BY <1>1, <1>2, <1>3, <1>4, <1>5

\* Arriving IO leaves the threads where they are.
LEMMA IOStepPlace ==
    ASSUME CallDiscipline, IOStep
    PROVE  CallDiscipline' /\ SameUseCalls
BY ThreadsStay DEF IOStep, PollReturn, WorkerCheck

\* The calls of the program that leave the uses alone.
LEMMA OtherRequestPlace ==
    ASSUME TypeOK, CallDiscipline, NEW t \in Thread,
           \/ \E c \in Chunk : Mmalloc(t, c) \/ PrepareUse(t, c) \/ Mfree(t, c) \/ Write(t, c)
           \/ \E n \in MemoryLimits : SetMemoryLimit(t, n)
    PROVE  CallDiscipline' /\ SameUseCalls
<1>0. {"idle", "space", "swapOutWait", "pffree", "shrink"} \subseteq Locations \ {"swapOut", "unload"}
  BY DEF Locations
<1>1. Idle(t) => call[t].op = "none"
  BY <1>0, WhereItRuns DEF Idle, OpsAt
<1>2. ASSUME NEW c \in Chunk, Mmalloc(t, c) PROVE CallDiscipline' /\ SameUseCalls
  <2>1. "mmalloc" \in OpsAt("space")
    BY DEF OpsAt
  <2> QED BY <1>0, <1>1, <1>2, <2>1, StartCallPlace DEF Mmalloc
<1>3. ASSUME NEW c \in Chunk, PrepareUse(t, c) PROVE CallDiscipline' /\ SameUseCalls
  <2>1. WhereToWait(c) \in {"space", "swapOutWait"}
    BY <1>3 DEF PrepareUse, WhereToWait
  <2>2. PICK p \in {"space", "swapOutWait"} : StartCall(t, p, "prepare", c, FALSE, 0)
    BY <1>3, <2>1 DEF PrepareUse
  <2>3. "prepare" \in OpsAt(p)
    BY DEF OpsAt
  <2>4. UNCHANGED evict /\ call[t].op # "use"
    BY <1>1, <1>3 DEF PrepareUse
  <2>5. p \in Locations \ {"swapOut", "unload"}
    BY <1>0
  <2>6. CallDiscipline' /\ ("prepare" # "use" /\ call[t].op # "use" => SameUseCalls)
    BY <2>2, <2>3, <2>4, <2>5, StartCallPlace
  <2> QED BY <2>4, <2>6
<1>4. ASSUME NEW c \in Chunk, Mfree(t, c) PROVE CallDiscipline' /\ SameUseCalls
  <2>1. CASE EndCall(t)
    BY <1>1, <1>4, <2>1, EndCallPlace DEF Mfree
  <2>2. CASE StartCall(t, "pffree", "mfree", c, FALSE, 0) /\ UNCHANGED evict
    <3>1. "mfree" \in OpsAt("pffree")
      BY DEF OpsAt
    <3> QED BY <1>0, <1>1, <1>4, <2>2, <3>1, StartCallPlace DEF Mfree
  <2> QED BY <1>4, <2>1, <2>2 DEF Mfree, Dispose
<1>5. ASSUME NEW c \in Chunk, Write(t, c) PROVE CallDiscipline' /\ SameUseCalls
  BY <1>5, ThreadsStay DEF Write
<1>6. ASSUME NEW n \in MemoryLimits, SetMemoryLimit(t, n) PROVE CallDiscipline' /\ SameUseCalls
  <2>1. CASE UNCHANGED threadVars
    BY <2>1, ThreadsStay
  <2>2. CASE /\ Goto(t, "swapOut")
             /\ call' = [call EXCEPT ![t] = NewCall("limit", NoChunk, FALSE, n)]
             /\ evict' = [evict EXCEPT ![t] = NewEvict(memory_used - n, "shrink")]
    <3>1. /\ Only(t) /\ pc'[t] = "swapOut"
          /\ call'[t] = NewCall("limit", NoChunk, FALSE, n)
          /\ evict'[t] = NewEvict(memory_used - n, "shrink")
      BY <2>2 DEF Goto, TypeOK, Only
    <3>2. call'[t].op = "limit" /\ call'[t].chunk = NoChunk /\ evict'[t].ret = "shrink"
      BY <3>1 DEF NewCall, NewEvict
    <3>3. CallAtPlace(t)'
      BY <3>1, <3>2, ConstantsAssumption DEF CallAtPlace, Where, OpsAt
    <3> QED BY <1>1, <1>6, <3>1, <3>2, <3>3, OnlyOne DEF SameUseCalls, Only, SetMemoryLimit
  <2> QED BY <1>6, <2>1, <2>2 DEF SetMemoryLimit
<1> QED BY <1>2, <1>3, <1>4, <1>5, <1>6

\* There are finitely many users, and a chunk has a use count exactly when it has users.
LEMMA UsersCounted ==
    ASSUME PinCount, NEW c \in Chunk
    PROVE  /\ IsFiniteSet(Users(c)) /\ Cardinality(Users(c)) = useCnt[c] /\ useCnt[c] \in Nat
           /\ \A t \in Thread : t \in Users(c) => useCnt[c] > 0
           /\ \A t, u \in Thread : t \in Users(c) /\ u \in Users(c) /\ t # u => useCnt[c] > 1
<1>1. IsFiniteSet(Users(c))
  BY ConstantsAssumption, FS_Subset DEF Users
<1>2. Cardinality(Users(c)) = useCnt[c] /\ useCnt[c] \in Nat
  BY <1>1, FS_CardinalityType DEF PinCount
<1>3. ASSUME NEW t \in Users(c)
      PROVE  /\ IsFiniteSet(Users(c) \ {t})
             /\ Cardinality(Users(c) \ {t}) = useCnt[c] - 1
             /\ Cardinality(Users(c) \ {t}) \in Nat
  <2>1. Cardinality(Users(c) \ {t}) = useCnt[c] - 1
    BY <1>1, <1>2, FS_RemoveElement
  <2>2. IsFiniteSet(Users(c) \ {t})
    BY <1>1, FS_Subset
  <2> QED BY <2>1, <2>2, FS_CardinalityType
<1>4. ASSUME NEW t \in Thread, t \in Users(c) PROVE useCnt[c] > 0
  <2>1. useCnt[c] - 1 \in Nat
    BY <1>3, <1>4
  <2> QED BY <1>2, <2>1
<1>5. ASSUME NEW t \in Thread, NEW u \in Thread, t \in Users(c), u \in Users(c), t # u
      PROVE  useCnt[c] > 1
  <2> DEFINE rest == Users(c) \ {t}
  <2>1. IsFiniteSet(rest) /\ Cardinality(rest) = useCnt[c] - 1
    BY <1>3, <1>5
  <2>2. u \in rest
    BY <1>5
  <2> HIDE DEF rest
  <2>3. Cardinality(rest) # 0
    BY <2>1, <2>2, FS_EmptySet
  <2>4. Cardinality(rest) \in Nat
    BY <2>1, FS_CardinalityType
  <2> QED BY <1>2, <2>1, <2>3, <2>4
<1> QED BY <1>1, <1>2, <1>4, <1>5

\* A step that leaves the uses alone keeps the count.
LEMMA PinCountKept ==
    ASSUME PinCount, SameUseCalls, UNCHANGED <<useCnt, uses>>
    PROVE  PinCount'
<1>1. \A c \in Chunk : Users(c)' = Users(c)
  BY DEF Users, SameUseCalls
<1> QED BY <1>1 DEF PinCount

\* A new user is counted.
LEMMA PinCountGrows ==
    ASSUME TypeOK, PinCount, NEW t \in Thread, NEW c \in Chunk, t \notin Users(c),
           useCnt' = [useCnt EXCEPT ![c] = @ + 1],
           Users(c)' = Users(c) \cup {t},
           \A d \in Chunk \ {c} : Users(d)' = Users(d)
    PROVE  PinCount'
<1>1. IsFiniteSet(Users(c)) /\ Cardinality(Users(c)) = useCnt[c] /\ useCnt[c] \in Nat
  BY UsersCounted
<1>2. Cardinality(Users(c) \cup {t}) = useCnt[c] + 1
  BY <1>1, FS_AddElement
<1>3. useCnt'[c] = Cardinality(Users(c)')
  BY <1>2 DEF TypeOK
<1>4. ASSUME NEW d \in Chunk \ {c} PROVE useCnt'[d] = Cardinality(Users(d)')
  BY <1>4 DEF TypeOK, PinCount
<1> QED BY <1>3, <1>4 DEF PinCount

\* A user that leaves is no longer counted.
LEMMA PinCountShrinks ==
    ASSUME TypeOK, PinCount, NEW t \in Thread, NEW c \in Chunk, t \in Users(c),
           useCnt' = [useCnt EXCEPT ![c] = @ - 1],
           Users(c)' = Users(c) \ {t},
           \A d \in Chunk \ {c} : Users(d)' = Users(d)
    PROVE  PinCount'
<1>1. IsFiniteSet(Users(c)) /\ Cardinality(Users(c)) = useCnt[c] /\ useCnt[c] \in Nat
  BY UsersCounted
<1>2. Cardinality(Users(c) \ {t}) = useCnt[c] - 1
  BY <1>1, FS_RemoveElement
<1>3. useCnt'[c] = Cardinality(Users(c)')
  BY <1>2 DEF TypeOK
<1>4. ASSUME NEW d \in Chunk \ {c} PROVE useCnt'[d] = Cardinality(Users(d)')
  BY <1>4 DEF TypeOK, PinCount
<1> QED BY <1>3, <1>4 DEF PinCount

\* setUse, its end and unsetUse keep the calls in place and the count right.
LEMMA UsePins ==
    ASSUME TypeOK, CallDiscipline, PinCount, NEW t \in Thread,
           \/ \E c \in Chunk, w \in BOOLEAN : SetUse(t, c, w) \/ SetUseAbsent(t, c, w)
           \/ \E c \in Chunk : UnsetUse(t, c)
           \/ AwaitSwapIn(t)
    PROVE  CallDiscipline' /\ PinCount'
<1>0. {"idle", "space", "swapOutWait", "swapIn", "untouched"} \subseteq Locations \ {"swapOut", "unload"}
  BY DEF Locations
<1>1. Idle(t) => call[t].op = "none"
  BY <1>0, WhereItRuns DEF Idle, OpsAt
<1>2. ASSUME NEW c \in Chunk, NEW w \in BOOLEAN, SetUse(t, c, w) PROVE CallDiscipline' /\ PinCount'
  <2>1. EndCall(t) /\ call[t].op = "none" /\ uses[t][c] = "none"
    BY <1>1, <1>2 DEF SetUse, Grant
  <2>2. CallDiscipline' /\ SameUseCalls /\ call'[t].op = "none"
    BY <2>1, EndCallPlace
  <2>3. uses' = [uses EXCEPT ![t][c] = IF w THEN "write" ELSE "read"]
    BY <1>2 DEF SetUse, Grant
  <2>4. Users(c)' = Users(c) \cup {t} /\ t \notin Users(c)
    BY <2>1, <2>2, <2>3 DEF Users, SameUseCalls, TypeOK
  <2>5. \A d \in Chunk \ {c} : Users(d)' = Users(d)
    BY <2>2, <2>3 DEF Users, SameUseCalls, TypeOK
  <2>6. useCnt' = [useCnt EXCEPT ![c] = @ + 1]
    BY <1>2 DEF SetUse
  <2> QED BY <2>2, <2>4, <2>5, <2>6, PinCountGrows
<1>3. ASSUME NEW c \in Chunk, NEW w \in BOOLEAN, SetUseAbsent(t, c, w)
      PROVE  CallDiscipline' /\ PinCount'
  <2>1. call[t].op = "none" /\ uses[t][c] = "none" /\ UNCHANGED <<uses, evict>>
    BY <1>1, <1>3 DEF SetUseAbsent
  <2>2. PICK p \in {"space", "swapOutWait", "swapIn"} : StartCall(t, p, "use", c, w, 0)
    BY <1>3 DEF SetUseAbsent, WhereToWait
  <2>3. "use" \in OpsAt(p) /\ p \in Locations \ {"swapOut", "unload"}
    BY <1>0 DEF OpsAt
  <2>4. CallDiscipline'
    BY <2>1, <2>2, <2>3, StartCallPlace
  <2>5. Only(t) /\ call'[t].op = "use" /\ call'[t].chunk = c
    BY <2>1, <2>2 DEF StartCall, Goto, NewCall, Only, TypeOK
  <2>6. Users(c)' = Users(c) \cup {t} /\ t \notin Users(c)
    BY <2>1, <2>5 DEF Users, Only
  <2>7. \A d \in Chunk \ {c} : Users(d)' = Users(d)
    BY <2>1, <2>5 DEF Users, Only
  <2>8. useCnt' = [useCnt EXCEPT ![c] = @ + 1]
    BY <1>3 DEF SetUseAbsent
  <2> QED BY <2>4, <2>6, <2>7, <2>8, PinCountGrows
<1>4. ASSUME NEW c \in Chunk, UnsetUse(t, c) PROVE CallDiscipline' /\ PinCount'
  <2>1. call[t].op = "none" /\ uses[t][c] # "none" /\ uses' = [uses EXCEPT ![t][c] = "none"]
    BY <1>1, <1>4 DEF UnsetUse
  <2>2. CallDiscipline' /\ SameUseCalls
    <3>1. CASE EndCall(t)
      BY <2>1, <3>1, EndCallPlace
    <3>2. ASSUME NEW min, CallSwapOut(t, min, "untouched"), UNCHANGED call
          PROVE  CallDiscipline' /\ SameUseCalls
      <4>1. call[t].op \in OpsAt("untouched")
        BY <2>1 DEF OpsAt
      <4> QED BY <1>0, <3>2, <4>1, CallSwapOutPlace
    <3> QED BY <1>4, <3>1, <3>2 DEF UnsetUse
  <2>3. Users(c)' = Users(c) \ {t} /\ t \in Users(c)
    BY <2>1, <2>2 DEF Users, SameUseCalls, TypeOK
  <2>4. \A d \in Chunk \ {c} : Users(d)' = Users(d)
    BY <2>1, <2>2 DEF Users, SameUseCalls, TypeOK
  <2>5. useCnt' = [useCnt EXCEPT ![c] = @ - 1]
    BY <1>4 DEF UnsetUse
  <2> QED BY <2>2, <2>3, <2>4, <2>5, PinCountShrinks
<1>5. CASE AwaitSwapIn(t)
  <2> DEFINE c == call[t].chunk
  <2>1. call[t].op = "use" /\ c \in Chunk
    BY <1>0, <1>5, WhereItRuns DEF AwaitSwapIn, OpsAt, CallDiscipline, CallAtPlace
  <2>2. CASE UNCHANGED threadVars /\ WaitFrame
    BY <2>2, ThreadsStay, PinCountKept DEF WaitFrame
  <2>3. CASE Grant(t, c, call[t].write, "MEM_ALLOCATED") /\ UNCHANGED useCnt
    <3>1. EndCall(t) /\ uses' = [uses EXCEPT ![t][c] = IF call[t].write THEN "write" ELSE "read"]
      BY <2>3 DEF Grant
    <3>2. CallDiscipline' /\ Only(t) /\ call'[t].op = "none"
      BY <3>1, EndCallPlace
    <3>3. \A d \in Chunk : Users(d)' = Users(d)
      BY <2>1, <3>1, <3>2 DEF Users, Only, TypeOK
    <3> QED BY <2>3, <3>2, <3>3 DEF PinCount
  <2> QED BY <1>5, <2>2, <2>3 DEF AwaitSwapIn
<1> QED BY <1>2, <1>3, <1>4, <1>5

-----------------------------------------------------------------------------
(* The first inductive invariant: it holds under every policy.             *)

TypeInv == TypeOK /\ CallDiscipline /\ PinCount

\* A newly constructed manager satisfies the invariant of types and pins.
LEMMA InitTypeInv == Init => TypeInv
<1> SUFFICES ASSUME Init PROVE TypeInv
  OBVIOUS
<1>1. call \in [Thread -> CallRecord] /\ evict \in [Thread -> EvictRecord]
  BY IdleRecords DEF Init
<1>2. InitialLimit \in Nat
  BY ConstantsAssumption
<1>3. IOType /\ LockType /\ ChunkType
  BY <1>2 DEF Init, IOType, LockType, ChunkType, Status
<1>4. ThreadType
  BY <1>1 DEF Init, ThreadType, Locations
<1>5. TypeOK
  BY <1>3, <1>4, TypeParts
<1>6. \A t \in Thread : call[t].op = "none" /\ call[t].chunk = NoChunk
  BY DEF Init, NoCall, NewCall
<1>7. CallDiscipline
  BY <1>6, ConstantsAssumption DEF Init, CallDiscipline, CallAtPlace, Where, OpsAt
<1>8. \A c \in Chunk : Users(c) = {}
  BY <1>6 DEF Init, Users
<1>9. PinCount
  BY <1>8, FS_EmptySet DEF Init, PinCount
<1> QED BY <1>5, <1>7, <1>9 DEF TypeInv

\* Every step keeps the types.
LEMMA NextTypeOK ==
    ASSUME TypeInv, Next
    PROVE  TypeOK'
<1>0. TypeOK /\ CallDiscipline /\ PinCount
  BY DEF TypeInv
<1>1. ASSUME NEW t \in Thread, Request(t) \/ Release(t) PROVE TypeOK'
  <2>1. \A c \in Chunk : uses[t][c] # "none" => useCnt[c] > 0
    BY <1>0, UsersCounted DEF Users
  <2> QED BY <1>0, <1>1, <2>1, RequestType
<1>2. ASSUME NEW t \in Thread, Step(t) \/ Recover(t) PROVE TypeOK'
  BY <1>0, <1>2, SwapOutType, SpaceType, WaitStepType DEF Step
<1>3. CASE IOStep
  BY <1>0, <1>3, IOStepType
<1>4. CASE Unwound
  BY <1>0, <1>4 DEF Unwound, vars, chunkVars, acctVars, dataVars, syncVars, threadVars, TypeOK
<1> QED BY <1>1, <1>2, <1>3, <1>4 DEF Next

\* Every step keeps the calls in place and the uses counted.
LEMMA NextPinCount ==
    ASSUME TypeInv, Next
    PROVE  CallDiscipline' /\ PinCount'
<1>0. TypeOK /\ CallDiscipline /\ PinCount
  BY DEF TypeInv
<1>1. ASSUME NEW t \in Thread, Request(t) \/ Release(t) PROVE CallDiscipline' /\ PinCount'
  <2>1. CASE \/ \E c \in Chunk, w \in BOOLEAN : SetUse(t, c, w) \/ SetUseAbsent(t, c, w)
             \/ \E c \in Chunk : UnsetUse(t, c)
    BY <1>0, <2>1, UsePins
  <2>2. CASE \/ \E c \in Chunk : Mmalloc(t, c) \/ PrepareUse(t, c) \/ Mfree(t, c) \/ Write(t, c)
             \/ \E n \in MemoryLimits : SetMemoryLimit(t, n)
    <3>1. CallDiscipline' /\ SameUseCalls
      BY <1>0, <2>2, OtherRequestPlace
    <3>2. UNCHANGED <<useCnt, uses>>
      BY <2>2 DEF Mmalloc, PrepareUse, Mfree, Dispose, Write, SetMemoryLimit, chunkVars
    <3> QED BY <1>0, <3>1, <3>2, PinCountKept
  <2> QED BY <1>1, <2>1, <2>2 DEF Request, Release
<1>2. ASSUME NEW t \in Thread, Step(t) \/ Recover(t) PROVE CallDiscipline' /\ PinCount'
  <2>1. CASE AwaitSwapIn(t)
    BY <1>0, <2>1, UsePins
  <2>2. CASE SwapOutSelect(t) \/ Unload(t) \/ SwapOutDone(t)
    <3>1. UNCHANGED <<useCnt, uses>>
      BY <2>2 DEF SwapOutSelect, SwapOutDone, SwapOutFrame, Unload, UnloadSkip, UnloadCached,
                  UnloadWrite, UnloadThrow, Unloaded
    <3> QED BY <1>0, <2>2, <3>1, SwapOutPlace, PinCountKept
  <2>3. CASE \/ EnsureEnoughSpace(t) \/ Evicted(t) \/ MmallocDone(t)
             \/ SwapInNotNeeded(t) \/ SwapIn(t)
    <3>1. UNCHANGED <<useCnt, uses>>
      BY <2>3 DEF EnsureEnoughSpace, WaitFrame, Evicted, MmallocDone, SwapInNotNeeded, SwapIn,
                  chunkVars
    <3> QED BY <1>0, <2>3, <3>1, SpacePlace, PinCountKept
  <2>4. CASE \/ AwaitSwapOut(t) \/ PfFree(t) \/ Untouched(t) \/ Shrink(t) \/ Shrunk(t)
             \/ Recover(t)
    <3>1. UNCHANGED <<useCnt, uses>>
      BY <2>4 DEF AwaitSwapOut, WaitFrame, PfFree, Dispose, Untouched, Shrink, Shrunk, Recover,
                  chunkVars
    <3> QED BY <1>0, <2>4, <3>1, WaitStepPlace, PinCountKept
  <2> QED BY <1>2, <2>1, <2>2, <2>3, <2>4 DEF Step
<1>3. CASE IOStep
  <2>1. UNCHANGED <<useCnt, uses>>
    BY <1>3 DEF IOStep, PollReturn, WorkerCheck, WaitFrame
  <2> QED BY <1>0, <1>3, <2>1, IOStepPlace, PinCountKept
<1>4. CASE Unwound
  <2>1. UNCHANGED threadVars /\ UNCHANGED <<useCnt, uses>>
    BY <1>4 DEF Unwound, vars, chunkVars, threadVars
  <2> QED BY <1>0, <2>1, ThreadsStay, PinCountKept
<1> QED BY <1>1, <1>2, <1>3, <1>4 DEF Next

\* A step that changes nothing keeps the invariant.
LEMMA StutterTypeInv ==
    ASSUME TypeInv, UNCHANGED vars
    PROVE  TypeInv'
<1>1. TypeOK' /\ UNCHANGED threadVars /\ UNCHANGED <<useCnt, uses>>
  BY DEF TypeInv, TypeOK, vars, chunkVars, acctVars, dataVars, syncVars, threadVars
<1> QED BY <1>1, ThreadsStay, PinCountKept DEF TypeInv

\* Every variable keeps its type, and useCnt is, for every chunk, the number of threads
\* that have set use on it or are in setUse: under any policy, with any number of threads.
THEOREM TypesAndPins == Spec => [](TypeOK /\ PinCount)
<1>1. TypeInv /\ [Next]_vars => TypeInv'
  BY NextTypeOK, NextPinCount, StutterTypeInv DEF TypeInv
<1>2. TypeInv => TypeOK /\ PinCount
  BY DEF TypeInv
<1> QED BY InitTypeInv, <1>1, <1>2, PTL DEF Spec

-----------------------------------------------------------------------------
(* The second inductive invariant: chunks, calls and sleepers agree, and   *)
(* agree more closely if no handle loads immediately.                      *)

\* What the status of a chunk says: its transfers, its use count, its location.  A chunk
\* that is loaded immediately is read in without a user, possibly while it is written.
ChunkOK(c) ==
    /\ aio[c] # {} <=> status[c] \in {"MEM_SWAPIN", "MEM_SWAPOUT"}
    /\ ~LoadImmediately =>
          /\ aio[c] = IF status[c] = "MEM_SWAPIN" THEN {"read"}
                      ELSE IF status[c] = "MEM_SWAPOUT" THEN {"write"}
                      ELSE {}
          /\ status[c] = "MEM_SWAPIN" => useCnt[c] > 0
    /\ c \in ring => status[c] # "ABSENT"
    /\ c \notin ring => useCnt[c] = 0
    /\ status[c] = "MEM_ALLOCATED" => useCnt[c] = 0
    /\ status[c] \in InUse => useCnt[c] > 0
    /\ status[c] = "ABSENT" => ~swapBuf[c]
    /\ status[c] \in {"MEM_SWAPOUT", "MEM_SWAPPED", "MEM_SWAPIN"} => swapBuf[c]
    /\ \A t \in Thread : uses[t][c] # "none" => status[c] \in InUse

\* What the call of a thread says about its chunk.
CallOK(t) ==
    LET c == call[t].chunk IN
    /\ call[t].op = "prepare" => LoadImmediately
    /\ call[t].op = "mmalloc" => status[c] = "ABSENT"
    /\ call[t].op = "mfree" =>
          /\ c \notin ring
          /\ ~LoadImmediately => status[c] \in {"MEM_SWAPOUT", "MEM_SWAPPED"}
    /\ call[t].op = "use" /\ Where(t) \in {"space", "evicted"} => status[c] # "MEM_SWAPOUT"
    /\ call[t].op = "use" /\ Where(t) = "swapIn" => status[c] \in Present

\* A chunk that is being created or deleted is in no other call.
Exclusive ==
    \A t \in Thread, u \in Thread :
        t # u /\ call[t].op \in {"mmalloc", "mfree"} => call[u].chunk # call[t].chunk

SafeInv ==
    /\ \A c \in Chunk : ChunkOK(c)
    /\ \A t \in Thread : CallOK(t)
    /\ Exclusive
    /\ SleepersHavePending

\* A step does to a chunk only what the calls that wait for it can bear.
Harmless(c) ==
    /\ status[c] = "ABSENT" => status'[c] = "ABSENT"
    /\ c \notin ring => c \notin ring'
    /\ ~LoadImmediately /\ useCnt[c] = 0 /\ status[c] \in {"MEM_SWAPOUT", "MEM_SWAPPED"}
          => status'[c] \in {"MEM_SWAPOUT", "MEM_SWAPPED"}
    /\ useCnt[c] > 0 /\ status[c] # "MEM_SWAPOUT" => status'[c] # "MEM_SWAPOUT"
    /\ useCnt[c] > 0 /\ status[c] \in Present => status'[c] \in Present

\* A step frees the locations of chunks in RAM only.
KeepsLocations == \A c \in Chunk : status[c] \notin Allocated => swapBuf'[c] = swapBuf[c]

\* cleanupCachedElements takes locations of chunks in RAM only.
LEMMA CleanKeepsLocations ==
    /\ UNCHANGED swapBuf => KeepsLocations
    /\ TypeOK /\ FreeLocations(Cached) => KeepsLocations
    /\ \A min : \A K \in Cleanups(min) : TypeOK /\ FreeLocations(K) => KeepsLocations
BY DEF KeepsLocations, FreeLocations, Cleanups, Cached, Chunks, TypeOK

\* The arrival of events.
LEMMA ArriveSafe ==
    ASSUME TypeInv, SafeInv, NEW E \in SUBSET Events, Arrive(E), KeepsLocations,
           UNCHANGED <<useCnt, ring, uses>>
    PROVE  /\ \A c \in Chunk : ChunkOK(c)' /\ Harmless(c)
           /\ Pending' = {} => Pending = {} \/ sleeping' = {}
<1>0. TypeOK
  BY DEF TypeInv
<1> DEFINE In  == {c \in E : status[c] = "MEM_SWAPIN"}
           Out == {c \in E : status[c] = "MEM_SWAPOUT"}
<1>1. E \subseteq Chunk /\ E = In \cup Out
  BY DEF Events, SafeInv, ChunkOK
<1>2. ASSUME NEW c \in Chunk PROVE ChunkOK(c)' /\ Harmless(c)
  <2>0. ChunkOK(c)
    BY DEF SafeInv
  <2>1. CASE c \notin E
    <3>1. status'[c] = status[c] /\ aio'[c] = aio[c]
      BY <1>1, <2>1 DEF Arrive
    <3> QED BY <2>0, <3>1 DEF ChunkOK, Harmless, KeepsLocations, Allocated, InUse
  <2>2. CASE c \in In
    <3>1. status[c] = "MEM_SWAPIN" /\ aio'[c] = {} /\ useCnt[c] \in Nat
      BY <1>0, <2>2 DEF Arrive, TypeOK
    <3>2. status'[c] = IF useCnt[c] = 0 THEN "MEM_ALLOCATED" ELSE "MEM_ALLOCATED_INUSE_READ"
      BY <2>2, <3>1 DEF Arrive, Completed
    <3> QED BY <2>0, <3>1, <3>2 DEF ChunkOK, Harmless, InUse, Present, Allocated
  <2>3. CASE c \in Out
    <3>1. status[c] = "MEM_SWAPOUT" /\ status'[c] = "MEM_SWAPPED" /\ aio'[c] = {}
      BY <2>3 DEF Arrive, Completed
    <3>2. swapBuf'[c] = swapBuf[c]
      BY <3>1 DEF KeepsLocations, Allocated, InUse
    <3> QED BY <2>0, <3>1, <3>2 DEF ChunkOK, Harmless, InUse, Present, Allocated
  <2> QED BY <1>1, <2>1, <2>2, <2>3
<1>3. ASSUME Pending' = {}, Pending # {} PROVE sleeping' = {}
  <2>1. E # {}
    BY <1>3 DEF Arrive, Pending
  <2> QED BY <1>1, <2>1 DEF Arrive, SignalCompletion
<1> QED BY <1>2, <1>3

\* Nothing happens to the chunks but that locations are freed.
LEMMA QuietSafe ==
    ASSUME TypeInv, SafeInv, KeepsLocations, UNCHANGED <<status, aio, useCnt, ring, uses>>
    PROVE  /\ \A c \in Chunk : ChunkOK(c)' /\ Harmless(c)
           /\ Pending' = Pending
BY DEF SafeInv, ChunkOK, Harmless, KeepsLocations, Pending, Allocated, InUse

\* Looking for events.
LEMMA TakeEventsSafe ==
    ASSUME TypeInv, SafeInv, NEW t, NEW after, TakeEvents(t, after), KeepsLocations,
           UNCHANGED <<useCnt, ring, uses>>, aioWaiter = NoThread, Pending # {}
    PROVE  /\ \A c \in Chunk : ChunkOK(c)' /\ Harmless(c)
           /\ SleepersHavePending'
<1>1. ASSUME NEW E \in SUBSET Events \ {{}}, Arrive(E), UNCHANGED aioWaiter
      PROVE  /\ \A c \in Chunk : ChunkOK(c)' /\ Harmless(c)
             /\ SleepersHavePending'
  BY <1>1, ArriveSafe DEF SleepersHavePending
<1>2. CASE NothingArrives
  BY <1>2, QuietSafe DEF NothingArrives, SleepersHavePending
<1> QED BY <1>1, <1>2 DEF TakeEvents

\* waitForAIO keeps the safety invariant of every chunk and of every call.
LEMMA WaitSafe ==
    ASSUME TypeInv, SafeInv, NEW t \in Thread, WaitForAIO(t), KeepsLocations,
           UNCHANGED <<useCnt, ring, uses>>
    PROVE  /\ \A c \in Chunk : ChunkOK(c)' /\ Harmless(c)
           /\ SleepersHavePending'
<1>1. CASE aioWaiter # NoThread /\ UNCHANGED <<status, aio, aioWaiter>>
  BY <1>1, QuietSafe DEF SafeInv, SleepersHavePending
<1>2. CASE NothingArrives /\ UNCHANGED aioWaiter
  BY <1>2, QuietSafe DEF NothingArrives, SafeInv, SleepersHavePending
<1>3. CASE aioWaiter = NoThread /\ Pending # {} /\ TakeEvents(t, t)
  BY <1>3, TakeEventsSafe
<1> QED BY <1>1, <1>2, <1>3 DEF WaitForAIO

\* Who is in setUse counts as a user of the chunk, which is alive.
LEMMA UserKnown ==
    ASSUME TypeInv, SafeInv, NEW t \in Thread, call[t].op = "use"
    PROVE  /\ call[t].chunk \in Chunk /\ useCnt[call[t].chunk] > 0
           /\ call[t].chunk \in ring /\ status[call[t].chunk] # "ABSENT"
<1>1. call[t].chunk \in Chunk
  BY DEF TypeInv, CallDiscipline, CallAtPlace
<1>2. t \in Users(call[t].chunk)
  BY DEF Users
<1>3. useCnt[call[t].chunk] > 0
  BY <1>1, <1>2, UsersCounted DEF TypeInv
<1> QED BY <1>1, <1>3 DEF SafeInv, ChunkOK

\* A call that stays where it was, or goes where less is asked of its chunk, bears a
\* harmless step.
LEMMA CallStays ==
    ASSUME TypeInv, SafeInv, \A c \in Chunk : Harmless(c), NEW t \in Thread,
           call'[t].op = call[t].op, call'[t].chunk = call[t].chunk,
           \/ Where(t)' = Where(t)
           \/ Where(t)' \notin {"space", "evicted", "swapIn"}
           \/ {Where(t), Where(t)'} \subseteq {"space", "evicted"}
    PROVE  CallOK(t)'
<1> DEFINE c == call[t].chunk
<1>0. CallOK(t)
  BY DEF SafeInv
<1>1. CASE call[t].op \in {"mmalloc", "mfree"}
  <2>1. c \in Chunk
    BY <1>1 DEF TypeInv, CallDiscipline, CallAtPlace
  <2>2. ChunkOK(c) /\ Harmless(c)
    BY <2>1 DEF SafeInv
  <2> QED BY <1>0, <1>1, <2>2 DEF CallOK, ChunkOK, Harmless
<1>2. CASE call[t].op = "use"
  <2>1. Harmless(c) /\ useCnt[c] > 0
    BY <1>2, UserKnown
  <2> QED BY <1>0, <1>2, <2>1 DEF CallOK, Harmless
<1>3. CASE call[t].op \in {"none", "prepare", "limit"}
  BY <1>0, <1>3 DEF CallOK
<1>4. call[t].op \in {"none", "mmalloc", "use", "prepare", "mfree", "limit"}
  BY DEF TypeInv, TypeOK
<1> QED BY <1>1, <1>2, <1>3, <1>4

\* After a harmless step of thread t it is enough to look at its own call.
LEMMA OthersStay ==
    ASSUME TypeInv, SafeInv, \A c \in Chunk : ChunkOK(c)' /\ Harmless(c), SleepersHavePending',
           NEW t \in Thread, Only(t), CallOK(t)', Exclusive'
    PROVE  SafeInv'
<1>1. ASSUME NEW u \in Thread \ {t} PROVE CallOK(u)'
  <2>1. call'[u] = call[u] /\ Where(u)' = Where(u)
    BY DEF Only, Where
  <2> QED BY <2>1, CallStays
<1> QED BY <1>1 DEF SafeInv

\* Thread t goes on with its call.
LEMMA GoOn ==
    ASSUME TypeInv, SafeInv, \A c \in Chunk : ChunkOK(c)' /\ Harmless(c), SleepersHavePending',
           NEW t \in Thread, Only(t), CallOK(t)',
           call'[t].op = call[t].op, call'[t].chunk = call[t].chunk
    PROVE  SafeInv'
<1>1. Exclusive'
  BY DEF SafeInv, Exclusive, Only
<1> QED BY <1>1, OthersStay

\* Thread t ends its call.
LEMMA EndSafe ==
    ASSUME TypeInv, SafeInv, \A c \in Chunk : ChunkOK(c)' /\ Harmless(c), SleepersHavePending',
           NEW t \in Thread, EndCall(t)
    PROVE  SafeInv'
<1>1. Only(t) /\ call'[t].op = "none" /\ call'[t].chunk = NoChunk
  BY EndCallPlace DEF TypeInv
<1>2. \A u \in Thread : call[u].op \in {"mmalloc", "mfree"} => call[u].chunk # NoChunk
  BY ConstantsAssumption DEF TypeInv, CallDiscipline, CallAtPlace
<1>3. Exclusive'
  BY <1>1, <1>2 DEF SafeInv, Exclusive, Only
<1>4. CallOK(t)'
  BY <1>1 DEF CallOK
<1> QED BY <1>1, <1>3, <1>4, OthersStay

\* No thread moves.
LEMMA ThreadsStaySafe ==
    ASSUME TypeInv, SafeInv, \A c \in Chunk : ChunkOK(c)' /\ Harmless(c), SleepersHavePending',
           UNCHANGED threadVars
    PROVE  SafeInv'
<1>1. Exclusive'
  BY DEF SafeInv, Exclusive, threadVars
<1>2. ASSUME NEW t \in Thread PROVE CallOK(t)'
  <2>1. call'[t] = call[t] /\ Where(t)' = Where(t)
    BY DEF threadVars, Where
  <2> QED BY <2>1, CallStays
<1> QED BY <1>1, <1>2 DEF SafeInv

\* Thread t ends the call that makes or unmakes chunk c: nobody else knows it.
LEMMA EndExclusive ==
    ASSUME TypeInv, SafeInv, NEW t \in Thread, NEW c \in Chunk, EndCall(t),
           \A u \in Thread \ {t} : call[u].chunk # c,
           \A d \in Chunk : ChunkOK(d)', \A d \in Chunk \ {c} : Harmless(d),
           SleepersHavePending'
    PROVE  SafeInv'
<1>1. Only(t) /\ call'[t].op = "none" /\ call'[t].chunk = NoChunk
  BY EndCallPlace DEF TypeInv
<1>2. \A u \in Thread : call[u].op \in {"mmalloc", "mfree"} => call[u].chunk # NoChunk
  BY ConstantsAssumption DEF TypeInv, CallDiscipline, CallAtPlace
<1>3. Exclusive'
  BY <1>1, <1>2 DEF SafeInv, Exclusive, Only
<1>4. CallOK(t)'
  BY <1>1 DEF CallOK
<1>5. ASSUME NEW u \in Thread \ {t} PROVE CallOK(u)'
  <2>0. CallOK(u) /\ call'[u] = call[u] /\ Where(u)' = Where(u) /\ call[u].chunk # c
    BY <1>1 DEF SafeInv, Only, Where
  <2>1. CASE call[u].op \in {"mmalloc", "mfree"}
    <3>1. call[u].chunk \in Chunk \ {c}
      BY <2>0, <2>1 DEF TypeInv, CallDiscipline, CallAtPlace
    <3>2. ChunkOK(call[u].chunk) /\ Harmless(call[u].chunk)
      BY <3>1 DEF SafeInv
    <3> QED BY <2>0, <2>1, <3>2 DEF CallOK, ChunkOK, Harmless
  <2>2. CASE call[u].op = "use"
    <3>1. Harmless(call[u].chunk) /\ useCnt[call[u].chunk] > 0
      BY <2>0, <2>2, UserKnown
    <3> QED BY <2>0, <2>2, <3>1 DEF CallOK, Harmless
  <2>3. CASE call[u].op \in {"none", "prepare", "limit"}
    BY <2>0, <2>3 DEF CallOK
  <2>4. call[u].op \in {"none", "mmalloc", "use", "prepare", "mfree", "limit"}
    BY DEF TypeInv, TypeOK
  <2> QED BY <2>1, <2>2, <2>3, <2>4
<1> QED BY <1>3, <1>4, <1>5 DEF SafeInv

\* Nothing arrives and no use changes.
LEMMA QuietStep ==
    ASSUME TypeInv, SafeInv, KeepsLocations,
           UNCHANGED <<status, aio, useCnt, ring, uses, sleeping, aioWaiter>>
    PROVE  /\ \A c \in Chunk : ChunkOK(c)' /\ Harmless(c)
           /\ SleepersHavePending'
BY QuietSafe DEF SafeInv, SleepersHavePending

\* The steps of swapOut.
LEMMA SwapOutSafe ==
    ASSUME TypeInv, SafeInv, NEW t \in Thread, SwapOutSelect(t) \/ Unload(t) \/ SwapOutDone(t)
    PROVE  SafeInv'
<1>0. TypeOK /\ CallDiscipline
  BY DEF TypeInv
<1>1. /\ evict[t].ret \in Locations \ {"swapOut", "unload"} /\ Where(t) = evict[t].ret
      /\ pc[t] \in {"swapOut", "unload"}
  BY <1>0 DEF TypeOK, SwapOutSelect, Unload, SwapOutDone, At, Where, Locations
<1>2. ASSUME NEW ok, SwapOutReturns(t, ok) PROVE Only(t) /\ UNCHANGED call /\ Where(t)' = Where(t)
  BY <1>0, <1>1, <1>2 DEF SwapOutReturns, Goto, TypeOK, Only, Where
<1>3. ASSUME Goto(t, "thrown"), UNCHANGED <<call, evict>>
      PROVE  Only(t) /\ UNCHANGED call /\ Where(t)' = "thrown"
  BY <1>0, <1>3 DEF Goto, TypeOK, Only, Where
<1>4. ASSUME Only(t), UNCHANGED call, Where(t)' = Where(t) \/ Where(t)' = "thrown",
             \A c \in Chunk : ChunkOK(c)' /\ Harmless(c), SleepersHavePending'
      PROVE  SafeInv'
  <2>1. CallOK(t)'
    BY <1>4, CallStays
  <2> QED BY <1>4, <2>1, GoOn
<1>5. CASE SwapOutSelect(t)
  <2>1. KeepsLocations
    BY <1>0, <1>5, CleanKeepsLocations DEF SwapOutSelect
  <2>2. /\ \A c \in Chunk : ChunkOK(c)' /\ Harmless(c)
        /\ SleepersHavePending'
    BY <1>5, <2>1, QuietStep DEF SwapOutSelect, SwapOutFrame
  <2>3. ASSUME NEW V, Goto(t, "unload"), UNCHANGED call,
               evict' = [evict EXCEPT ![t].todo = V, ![t].quota = Quota(evict[t].min)]
        PROVE  Only(t) /\ UNCHANGED call /\ Where(t)' = Where(t)
    BY <1>0, <1>1, <2>3 DEF Goto, TypeOK, Only, Where
  <2> QED BY <1>2, <1>3, <1>4, <1>5, <2>2, <2>3 DEF SwapOutSelect, Throw
<1>6. CASE SwapOutDone(t)
  <2>1. /\ \A c \in Chunk : ChunkOK(c)' /\ Harmless(c)
        /\ SleepersHavePending'
    BY <1>6, CleanKeepsLocations, QuietStep DEF SwapOutDone, SwapOutFrame
  <2> QED BY <1>2, <1>4, <1>6, <2>1 DEF SwapOutDone
<1>7. CASE Unload(t)
  <2>1. PICK v \in evict[t].todo :
           UnloadSkip(t, v) \/ UnloadCached(t, v) \/ UnloadWrite(t, v) \/ UnloadThrow(t, v)
    BY <1>7 DEF Unload
  <2> DEFINE c == v[1]
  <2>2. c \in Chunk
    BY <1>0 DEF TypeOK
  <2>3. ASSUME NEW b, Unloaded(t, v, b) PROVE Only(t) /\ UNCHANGED call /\ Where(t)' = Where(t)
    BY <1>0, <1>1, <2>3 DEF Unloaded, TypeOK, Only, Where
  <2>4. CASE UnloadSkip(t, v)
    <3>1. Only(t) /\ UNCHANGED call /\ Where(t)' = Where(t)
      BY <2>3, <2>4 DEF UnloadSkip
    <3>2. UNCHANGED <<status, aio, useCnt, ring, uses, sleeping, aioWaiter, swapBuf>>
      BY <2>4 DEF UnloadSkip, Unloaded
    <3> QED BY <1>4, <3>1, <3>2, CleanKeepsLocations, QuietStep
  <2>5. CASE UnloadCached(t, v)
    <3>1. Only(t) /\ UNCHANGED call /\ Where(t)' = Where(t)
      BY <2>3, <2>5 DEF UnloadCached
    <3>2. /\ status[c] = "MEM_ALLOCATED" /\ swapBuf[c]
          /\ status' = [status EXCEPT ![c] = "MEM_SWAPPED"]
          /\ sleeping' = {}
          /\ UNCHANGED <<aio, swapBuf, useCnt, ring, uses, aioWaiter>>
      BY <2>5 DEF UnloadCached, Unloaded
    <3>3. ASSUME NEW d \in Chunk PROVE ChunkOK(d)' /\ Harmless(d)
      <4>1. status'[d] = IF d = c THEN "MEM_SWAPPED" ELSE status[d]
        BY <1>0, <3>2 DEF TypeOK
      <4>2. ChunkOK(d) /\ useCnt[d] \in Nat
        BY <1>0 DEF SafeInv, TypeOK
      <4> QED BY <3>2, <4>1, <4>2 DEF ChunkOK, Harmless, InUse
    <3>4. SleepersHavePending'
      BY <3>2 DEF SafeInv, SleepersHavePending, Pending
    <3> QED BY <1>4, <3>1, <3>3, <3>4
  <2>6. CASE UnloadWrite(t, v)
    <3>1. Only(t) /\ UNCHANGED call /\ Where(t)' = Where(t)
      BY <2>3, <2>6 DEF UnloadWrite
    <3>2. /\ status[c] = "MEM_ALLOCATED"
          /\ status' = [status EXCEPT ![c] = "MEM_SWAPOUT"]
          /\ aio' = [aio EXCEPT ![c] = @ \cup {"write"}]
          /\ UNCHANGED <<sleeping, useCnt, ring, uses, aioWaiter>>
      BY <2>6 DEF UnloadWrite, Unloaded
    <3>3. PICK K \in SUBSET Cached : swapBuf' = [d \in Chunk |-> d = c \/ (swapBuf[d] /\ d \notin K)]
      BY <2>6 DEF UnloadWrite, Cleanups
    <3>4. ASSUME NEW d \in Chunk PROVE ChunkOK(d)' /\ Harmless(d)
      <4>1. /\ status'[d] = IF d = c THEN "MEM_SWAPOUT" ELSE status[d]
            /\ aio'[d] = IF d = c THEN aio[d] \cup {"write"} ELSE aio[d]
        BY <1>0, <3>2 DEF TypeOK
      <4>2. ChunkOK(d) /\ useCnt[d] \in Nat
        BY <1>0 DEF SafeInv, TypeOK
      <4>3. d # c => swapBuf'[d] = (swapBuf[d] /\ d \notin K)
        BY <3>3
      <4>4. swapBuf'[c] /\ (d \in K => status[d] \in Allocated)
        BY <2>2, <3>3 DEF Cached, Chunks
      <4>5. d # c /\ status[d] \notin Allocated /\ swapBuf[d] => swapBuf'[d]
        BY <4>3, <4>4
      <4>6. CASE d = c
        <5>1. aio[c] = {} /\ useCnt[c] = 0
          BY <3>2, <4>2, <4>6 DEF ChunkOK
        <5>2. aio'[d] = {"write"} /\ status'[d] = "MEM_SWAPOUT" /\ swapBuf'[d]
          BY <4>1, <4>4, <4>6, <5>1
        <5> HIDE DEF c
        <5> QED BY <3>2, <4>2, <4>6, <5>1, <5>2 DEF ChunkOK, Harmless, InUse
      <4>7. CASE d # c
        <5> HIDE DEF c
        <5> QED BY <3>2, <4>1, <4>2, <4>3, <4>5, <4>7 DEF ChunkOK, Harmless, InUse, Allocated
      <4> QED BY <4>6, <4>7
    <3>5. SleepersHavePending'
      <4>1. Pending \subseteq Pending'
        BY <1>0, <2>2, <3>2 DEF Pending, TypeOK
      <4> QED BY <3>2, <4>1 DEF SafeInv, SleepersHavePending
    <3> QED BY <1>4, <3>1, <3>4, <3>5
  <2>7. CASE UnloadThrow(t, v)
    <3>1. Only(t) /\ UNCHANGED call /\ Where(t)' = "thrown"
      BY <1>3, <2>7 DEF UnloadThrow
    <3>2. KeepsLocations
      BY <1>0, <2>7, CleanKeepsLocations DEF UnloadThrow
    <3>3. UNCHANGED <<status, aio, useCnt, ring, uses, sleeping, aioWaiter>>
      BY <2>7 DEF UnloadThrow, syncVars
    <3> QED BY <1>4, <3>1, <3>2, <3>3, QuietStep
  <2> QED BY <2>1, <2>4, <2>5, <2>6, <2>7
<1> QED BY <1>5, <1>6, <1>7

\* The return from swapIn with the chunk there or on its way.
LEMMA SwapInReturnsSafe ==
    ASSUME TypeInv, SafeInv, NEW t \in Thread, SwapInReturns(t),
           \A c \in Chunk : ChunkOK(c)' /\ Harmless(c), SleepersHavePending',
           status'[call[t].chunk] \in Present
    PROVE  SafeInv'
<1>1. CASE call[t].op = "use" /\ Goto(t, "swapIn") /\ UNCHANGED <<call, evict>>
  <2>1. Only(t) /\ Where(t)' = "swapIn"
    BY <1>1 DEF Goto, TypeInv, TypeOK, Only, Where
  <2>2. CallOK(t)'
    BY <1>1, <2>1 DEF CallOK
  <2> QED BY <1>1, <2>1, <2>2, GoOn
<1>2. CASE EndCall(t)
  BY <1>2, EndSafe
<1> QED BY <1>1, <1>2 DEF SwapInReturns

\* The steps of ensureEnoughSpace and what follows it.
LEMMA SpaceSafe ==
    ASSUME TypeInv, SafeInv, NEW t \in Thread,
           \/ EnsureEnoughSpace(t) \/ Evicted(t) \/ MmallocDone(t)
           \/ SwapInNotNeeded(t) \/ SwapIn(t)
    PROVE  SafeInv'
<1>0. TypeOK /\ CallDiscipline
  BY DEF TypeInv
<1> DEFINE c == call[t].chunk
<1>1. /\ CallOK(t) /\ Where(t) = pc[t] /\ call[t].op \in {"mmalloc", "use", "prepare"}
      /\ c \in Chunk
  <2>1. Where(t) = pc[t] /\ pc[t] \in {"space", "evicted"}
    BY DEF EnsureEnoughSpace, Evicted, MmallocDone, SwapInNotNeeded, SwapIn, At, Where
  <2>2. call[t].op \in {"mmalloc", "use", "prepare"} /\ c \in Chunk
    BY <1>0, <2>1 DEF CallDiscipline, CallAtPlace, OpsAt
  <2> QED BY <2>1, <2>2 DEF SafeInv, CallOK
<1>2. CASE EnsureEnoughSpace(t)
  <2>1. KeepsLocations /\ UNCHANGED <<useCnt, ring, uses>>
    BY <1>2, CleanKeepsLocations DEF EnsureEnoughSpace, WaitFrame
  <2>2. CASE WaitForAIO(t) /\ UNCHANGED <<pc, evict>>
    <3>1. UNCHANGED threadVars
      BY <1>2, <2>2 DEF EnsureEnoughSpace, threadVars
    <3> QED BY <2>1, <2>2, <3>1, WaitSafe, ThreadsStaySafe
  <2>3. ASSUME NEW min, CallSwapOut(t, min, "evicted"), NothingArrives, UNCHANGED aioWaiter
        PROVE  SafeInv'
    <3>1. Only(t) /\ Where(t)' = "evicted" /\ call'[t] = call[t]
      BY <1>0, <1>2, <2>3 DEF EnsureEnoughSpace, CallSwapOut, Goto, NewEvict, TypeOK, Only, Where
    <3>2. /\ \A d \in Chunk : ChunkOK(d)' /\ Harmless(d)
          /\ SleepersHavePending'
      BY <2>1, <2>3, QuietStep DEF NothingArrives
    <3>3. Where(t) = "space"
      BY <1>1, <1>2 DEF EnsureEnoughSpace, At
    <3>4. CallOK(t)'
      BY <3>1, <3>2, <3>3, CallStays
    <3> QED BY <3>1, <3>2, <3>4, GoOn
  <2> QED BY <1>2, <2>2, <2>3 DEF EnsureEnoughSpace
<1>3. CASE Evicted(t)
  <2>1. KeepsLocations /\ UNCHANGED <<useCnt, ring, uses>>
    BY <1>0, <1>3, CleanKeepsLocations DEF Evicted
  <2>2. /\ \A d \in Chunk : ChunkOK(d)' /\ Harmless(d)
        /\ SleepersHavePending'
    <3>1. CASE NothingArrives /\ UNCHANGED aioWaiter
      BY <2>1, <3>1, QuietStep DEF NothingArrives
    <3>2. CASE WaitForAIO(t)
      BY <2>1, <3>2, WaitSafe
    <3> QED BY <1>3, <3>1, <3>2 DEF Evicted
  <2>3. call'[t].op = call[t].op /\ call'[t].chunk = call[t].chunk
        /\ Only(t) /\ Where(t)' \in {"space", "thrown"}
    BY <1>0, <1>3 DEF Evicted, Throw, Goto, TypeOK, Only, Where
  <2>4. Where(t) = "evicted"
    BY <1>1, <1>3 DEF Evicted, At
  <2>5. CallOK(t)'
    BY <2>2, <2>3, <2>4, CallStays
  <2> QED BY <2>2, <2>3, <2>5, GoOn
<1>4. CASE MmallocDone(t)
  <2>1. /\ call[t].op = "mmalloc" /\ status[c] = "ABSENT"
        /\ \A u \in Thread \ {t} : call[u].chunk # c
    BY <1>1, <1>4 DEF MmallocDone, CallOK, SafeInv, Exclusive
  <2>2. ASSUME NEW d \in Chunk PROVE ChunkOK(d)' /\ (d # c => Harmless(d))
    <3>1. status'[d] = IF d = c THEN "MEM_ALLOCATED" ELSE status[d]
      BY <1>0, <1>4 DEF MmallocDone, TypeOK
    <3>2. ChunkOK(d) /\ UNCHANGED <<aio, useCnt, uses, swapBuf>> /\ ring' = ring \cup {c}
      BY <1>4 DEF SafeInv, MmallocDone
    <3> HIDE DEF c
    <3> QED BY <2>1, <3>1, <3>2 DEF ChunkOK, Harmless, InUse
  <2>3. SleepersHavePending'
    BY <1>4 DEF MmallocDone, SafeInv, SleepersHavePending, Pending
  <2>4. EndCall(t)
    BY <1>4 DEF MmallocDone
  <2> QED BY <1>1, <2>1, <2>2, <2>3, <2>4, EndExclusive
<1>5. CASE SwapInNotNeeded(t)
  <2>1. UNCHANGED <<status, aio, useCnt, ring, uses, sleeping, aioWaiter, swapBuf>>
    BY <1>5 DEF SwapInNotNeeded, chunkVars
  <2>2. status'[c] \in Present
    BY <1>5, <2>1 DEF SwapInNotNeeded, AlreadyThere
  <2> QED BY <1>5, <2>1, <2>2, CleanKeepsLocations, QuietStep, SwapInReturnsSafe DEF SwapInNotNeeded
<1>6. CASE SwapIn(t)
  <2>1. /\ status[c] \notin Present
        /\ call[t].op = "use" => status[c] # "MEM_SWAPOUT" /\ useCnt[c] > 0
        /\ call[t].op \in {"use", "prepare"}
    BY <1>1, <1>6, UserKnown DEF SwapIn, At, AlreadyThere, CallOK
  <2>2. status[c] \in {"MEM_SWAPPED", "MEM_SWAPOUT"} /\ swapBuf[c]
    BY <1>0, <1>1, <1>6, <2>1 DEF SwapIn, SafeInv, ChunkOK, TypeOK, Status
  <2>3. ASSUME NEW d \in Chunk PROVE ChunkOK(d)' /\ Harmless(d)
    <3>1. /\ status'[d] = IF d = c THEN "MEM_SWAPIN" ELSE status[d]
          /\ aio'[d] = IF d = c THEN aio[d] \cup {"read"} ELSE aio[d]
      BY <1>0, <1>6 DEF SwapIn, TypeOK
    <3>2. ChunkOK(d) /\ UNCHANGED <<useCnt, uses, swapBuf, ring>>
      BY <1>6 DEF SafeInv, SwapIn
    <3>3. CASE d = c
      <4>1. aio'[d] # {} /\ status'[d] = "MEM_SWAPIN"
        BY <3>1, <3>3
      <4>2. \A u \in Thread : uses[u][d] = "none"
        BY <2>2, <3>2, <3>3 DEF ChunkOK, InUse
      <4>3. ~LoadImmediately => aio'[d] = {"read"} /\ useCnt[d] > 0
        BY <1>1, <2>1, <2>2, <3>1, <3>2, <3>3 DEF ChunkOK, CallOK
      <4> HIDE DEF c
      <4>4. ChunkOK(d)'
        BY <2>2, <3>2, <3>3, <4>1, <4>2, <4>3 DEF ChunkOK, InUse
      <4>5. Harmless(d)
        BY <2>2, <3>2, <3>3, <4>1, <4>3, <1>0 DEF Harmless, Present, TypeOK
      <4> QED BY <4>4, <4>5
    <3>4. CASE d # c
      <4> HIDE DEF c
      <4> QED BY <3>1, <3>2, <3>4 DEF ChunkOK, Harmless
    <3> QED BY <3>3, <3>4
  <2>4. Pending \subseteq Pending' /\ status'[c] \in Present
    BY <1>0, <1>1, <1>6 DEF SwapIn, Pending, TypeOK, Present
  <2>5. SleepersHavePending'
    BY <1>6, <2>4 DEF SwapIn, SafeInv, SleepersHavePending
  <2> QED BY <1>6, <2>3, <2>4, <2>5, SwapInReturnsSafe DEF SwapIn
<1> QED BY <1>2, <1>3, <1>4, <1>5, <1>6

\* The end of mfree.
LEMMA DisposeSafe ==
    ASSUME TypeInv, SafeInv, NEW t \in Thread, NEW c \in Chunk, Dispose(t, c),
           aio[c] = {}, useCnt[c] = 0, ring' = ring \ {c},
           \A u \in Thread \ {t} : call[u].chunk # c
    PROVE  SafeInv'
<1>0. TypeOK /\ PinCount
  BY DEF TypeInv
<1>1. \A u \in Thread : uses[u][c] = "none"
  <2>1. \A u \in Thread : u \in Users(c) => useCnt[c] > 0
    BY <1>0, UsersCounted
  <2>2. \A u \in Thread : u \notin Users(c)
    BY <2>1
  <2> QED BY <2>2 DEF Users
<1>2. ASSUME NEW d \in Chunk PROVE ChunkOK(d)' /\ (d # c => Harmless(d))
  <2>1. status'[d] = IF d = c THEN "ABSENT" ELSE status[d]
    BY <1>0 DEF Dispose, TypeOK
  <2>2. d # c => swapBuf'[d] = swapBuf[d]
    BY <1>0 DEF Dispose, TypeOK
  <2>3. ChunkOK(d) /\ UNCHANGED <<useCnt, uses, aio>>
    BY DEF SafeInv, Dispose
  <2>4. CASE d = c
    <3>1. ~swapBuf'[d] /\ status'[d] = "ABSENT" /\ d \notin ring' /\ aio'[d] = {}
      BY <1>0, <2>1, <2>3, <2>4 DEF Dispose, TypeOK
    <3> QED BY <1>1, <2>3, <2>4, <3>1 DEF ChunkOK, InUse
  <2>5. CASE d # c
    BY <2>1, <2>2, <2>3, <2>5 DEF ChunkOK, Harmless
  <2> QED BY <2>4, <2>5
<1>3. SleepersHavePending' /\ EndCall(t)
  BY DEF Dispose, SafeInv, SleepersHavePending, Pending
<1> QED BY <1>2, <1>3, EndExclusive

\* The other steps of a call.
LEMMA WaitStepSafe ==
    ASSUME TypeInv, SafeInv, NEW t \in Thread,
           \/ AwaitSwapOut(t) \/ AwaitSwapIn(t) \/ PfFree(t)
           \/ Untouched(t) \/ Shrink(t) \/ Shrunk(t) \/ Recover(t)
    PROVE  SafeInv'
<1>0. TypeOK /\ CallDiscipline
  BY DEF TypeInv
<1> DEFINE c == call[t].chunk
<1>1. ASSUME WaitForAIO(t), UNCHANGED threadVars, WaitFrame
      PROVE  SafeInv'
  BY <1>1, CleanKeepsLocations, WaitSafe, ThreadsStaySafe DEF WaitFrame
<1>2. CASE AwaitSwapOut(t)
  <2>1. CASE NothingArrives /\ UNCHANGED aioWaiter
    <3>1. /\ \A d \in Chunk : ChunkOK(d)' /\ Harmless(d)
          /\ SleepersHavePending'
      BY <1>2, <2>1, CleanKeepsLocations, QuietStep DEF AwaitSwapOut, WaitFrame, NothingArrives
    <3>2. CASE status[c] = "MEM_SWAPPED" /\ Goto(t, "space") /\ UNCHANGED <<call, evict>>
      <4>1. Only(t) /\ Where(t)' = "space"
        BY <1>0, <3>2 DEF Goto, TypeOK, Only, Where
      <4>2. CallOK(t)
        BY DEF SafeInv
      <4>3. status' = status
        BY <2>1 DEF NothingArrives
      <4>4. call[t].op \in {"use", "prepare"}
        BY <1>0, <1>2 DEF AwaitSwapOut, At, CallDiscipline, CallAtPlace, Where, OpsAt
      <4>5. CallOK(t)'
        BY <3>2, <4>1, <4>2, <4>3, <4>4 DEF CallOK
      <4> QED BY <3>1, <3>2, <4>1, <4>5, GoOn
    <3>3. CASE status[c] \in Present /\ SwapInReturns(t)
      BY <2>1, <3>1, <3>3, SwapInReturnsSafe DEF NothingArrives
    <3>4. CASE WaitForAIO(t) /\ UNCHANGED threadVars
      BY <1>1, <1>2, <3>4 DEF AwaitSwapOut
    <3> QED BY <1>2, <3>2, <3>3, <3>4 DEF AwaitSwapOut
  <2>2. CASE WaitForAIO(t) /\ UNCHANGED threadVars
    BY <1>1, <1>2, <2>2 DEF AwaitSwapOut
  <2> QED BY <1>2, <2>1, <2>2 DEF AwaitSwapOut
<1>3. CASE AwaitSwapIn(t)
  <2>1. CASE /\ status[c] \in Allocated
             /\ Grant(t, c, call[t].write, "MEM_ALLOCATED")
             /\ UNCHANGED <<useCnt, aio, ring, memory_max, acctVars, dataVars, aioWaiter, sleeping>>
    <3>1. call[t].op = "use"
      BY <1>0, <1>3 DEF AwaitSwapIn, At, CallDiscipline, CallAtPlace, Where, OpsAt
    <3>2. c \in Chunk /\ useCnt[c] > 0 /\ c \in ring
      BY <3>1, UserKnown
    <3>3. ASSUME NEW d \in Chunk PROVE ChunkOK(d)' /\ Harmless(d)
      <4>1. ChunkOK(d) /\ UNCHANGED <<useCnt, aio, ring>>
        BY <2>1 DEF SafeInv
      <4>2. CASE d = c
        <5>1. status'[c] \in InUse
          BY <1>0, <2>1, <3>2 DEF Grant, TypeOK, InUse
        <5> QED BY <2>1, <3>2, <4>1, <4>2, <5>1 DEF ChunkOK, Harmless, InUse, Allocated, Present
      <4>3. CASE d # c
        <5>1. status'[d] = status[d] /\ swapBuf'[d] = swapBuf[d]
              /\ \A u \in Thread : uses'[u][d] = uses[u][d]
          BY <1>0, <2>1, <4>3 DEF Grant, TypeOK
        <5> QED BY <4>1, <5>1 DEF ChunkOK, Harmless
      <4> QED BY <4>2, <4>3
    <3>4. SleepersHavePending' /\ EndCall(t)
      BY <2>1 DEF SafeInv, SleepersHavePending, Pending, Grant
    <3> QED BY <3>3, <3>4, EndSafe
  <2> QED BY <1>1, <1>3, <2>1 DEF AwaitSwapIn
<1>4. CASE PfFree(t)
  <2>1. call[t].op = "mfree" /\ c \in Chunk
    BY <1>0, <1>4 DEF PfFree, At, CallDiscipline, CallAtPlace, Where, OpsAt
  <2>2. c \notin ring /\ useCnt[c] = 0 /\ \A u \in Thread \ {t} : call[u].chunk # c
    BY <2>1 DEF SafeInv, CallOK, ChunkOK, Exclusive
  <2>3. CASE aio[c] = {} /\ Dispose(t, c) /\ UNCHANGED ring
    BY <2>1, <2>2, <2>3, DisposeSafe
  <2> QED BY <1>1, <1>4, <2>3 DEF PfFree
<1>5. CASE Untouched(t) \/ Shrunk(t)
  <2>1. UNCHANGED <<status, aio, useCnt, ring, uses, swapBuf, aioWaiter>> /\ EndCall(t)
    BY <1>5 DEF Untouched, Shrunk, chunkVars
  <2>2. \A d \in Chunk : ChunkOK(d)' /\ Harmless(d)
    BY <2>1, CleanKeepsLocations, QuietSafe
  <2>3. SleepersHavePending'
    BY <1>5, <2>1 DEF Untouched, Shrunk, SafeInv, SleepersHavePending, Pending
  <2> QED BY <2>1, <2>2, <2>3, EndSafe
<1>6. CASE Shrink(t)
  <2>1. UNCHANGED <<status, aio, useCnt, ring, uses, swapBuf, sleeping, aioWaiter>>
    BY <1>6 DEF Shrink, chunkVars
  <2>2. /\ \A d \in Chunk : ChunkOK(d)' /\ Harmless(d)
        /\ SleepersHavePending'
    BY <2>1, CleanKeepsLocations, QuietStep
  <2>3. CASE EndCall(t)
    BY <2>2, <2>3, EndSafe
  <2>4. CASE CallSwapOut(t, 0, "shrunk") /\ UNCHANGED call
    <3>1. Only(t) /\ Where(t)' = "shrunk"
      BY <1>0, <2>4 DEF CallSwapOut, Goto, NewEvict, TypeOK, Only, Where
    <3>2. CallOK(t)'
      BY <2>2, <2>4, <3>1, CallStays
    <3> QED BY <2>2, <2>4, <3>1, <3>2, GoOn
  <2> QED BY <1>6, <2>3, <2>4 DEF Shrink
<1>7. CASE Recover(t)
  <2>1. UNCHANGED <<status, aio, useCnt, ring, uses, swapBuf, sleeping, aioWaiter>>
    BY <1>7 DEF Recover, chunkVars, syncVars
  <2>2. /\ \A d \in Chunk : ChunkOK(d)' /\ Harmless(d)
        /\ SleepersHavePending'
    BY <2>1, CleanKeepsLocations, QuietStep
  <2>3. Only(t) /\ call'[t].op = "none" /\ call'[t].chunk = NoChunk
    BY <1>0, <1>7 DEF Recover, Goto, NoCall, NewCall, TypeOK, Only
  <2>4. \A u \in Thread : call[u].op \in {"mmalloc", "mfree"} => call[u].chunk # NoChunk
    BY <1>0, ConstantsAssumption DEF CallDiscipline, CallAtPlace
  <2>5. Exclusive'
    BY <2>3, <2>4 DEF SafeInv, Exclusive, Only
  <2>6. CallOK(t)'
    BY <2>3 DEF CallOK
  <2> QED BY <2>2, <2>3, <2>5, <2>6, OthersStay
<1> QED BY <1>2, <1>3, <1>4, <1>5, <1>6, <1>7

\* Arriving IO.
LEMMA IOStepSafe ==
    ASSUME TypeInv, SafeInv, IOStep
    PROVE  SafeInv'
<1>1. ASSUME NEW t, NEW after, PollReturn(t, after) PROVE SafeInv'
  <2>1. PICK E \in SUBSET Events : Arrive(E)
    BY <1>1 DEF PollReturn
  <2>2. /\ \A c \in Chunk : ChunkOK(c)' /\ Harmless(c)
        /\ Pending' = {} => Pending = {} \/ sleeping' = {}
    BY <1>1, <2>1, CleanKeepsLocations, ArriveSafe DEF PollReturn, WaitFrame
  <2>3. SleepersHavePending'
    <3>1. sleeping' # {} => sleeping # {}
      BY <2>1 DEF Arrive, SignalCompletion
    <3> QED BY <1>1, <2>2, <3>1 DEF PollReturn, SafeInv, SleepersHavePending
  <2> QED BY <1>1, <2>2, <2>3, ThreadsStaySafe DEF PollReturn
<1>2. CASE WorkerCheck
  BY <1>2, CleanKeepsLocations, TakeEventsSafe, ThreadsStaySafe DEF WorkerCheck, WaitFrame
<1> QED BY <1>1, <1>2 DEF IOStep

\* Thread t starts a call about a chunk that fits what the other calls say.
LEMMA StartSafe ==
    ASSUME TypeInv, SafeInv, \A c \in Chunk : ChunkOK(c)' /\ Harmless(c), SleepersHavePending',
           NEW t \in Thread, Only(t), CallOK(t)',
           call'[t].op \in {"mmalloc", "mfree"} => \A u \in Thread \ {t} : call[u].chunk # call'[t].chunk,
           \A u \in Thread \ {t} :
               call[u].op \in {"mmalloc", "mfree"} => call[u].chunk # call'[t].chunk
    PROVE  SafeInv'
<1>1. Exclusive'
  BY DEF SafeInv, Exclusive, Only
<1> QED BY <1>1, OthersStay

\* A chunk in the ring is neither being created nor being deleted.
LEMMA RingSettled ==
    ASSUME TypeInv, SafeInv, NEW c \in ring, NEW u \in Thread, call[u].op \in {"mmalloc", "mfree"}
    PROVE  call[u].chunk # c
BY DEF SafeInv, CallOK, ChunkOK, TypeInv, TypeOK

\* The calls of the program.
LEMMA RequestSafe ==
    ASSUME TypeInv, SafeInv, NEW t \in Thread, Request(t) \/ Release(t)
    PROVE  SafeInv'
<1>0. TypeOK /\ CallDiscipline /\ PinCount
  BY DEF TypeInv
<1>1. Idle(t) => call[t].op = "none"
  BY <1>0 DEF Idle, At, CallDiscipline, CallAtPlace, Where, OpsAt
<1>2. ASSUME NEW c \in Chunk, Mmalloc(t, c) PROVE SafeInv'
  <2>1. UNCHANGED <<status, aio, useCnt, ring, uses, swapBuf, sleeping, aioWaiter>>
    BY <1>2 DEF Mmalloc, chunkVars
  <2>2. /\ \A d \in Chunk : ChunkOK(d)' /\ Harmless(d)
        /\ SleepersHavePending'
    BY <2>1, CleanKeepsLocations, QuietStep
  <2>3. Only(t) /\ call'[t].op = "mmalloc" /\ call'[t].chunk = c
    BY <1>0, <1>2 DEF Mmalloc, StartCall, Goto, NewCall, TypeOK, Only
  <2>4. CallOK(t)' /\ \A u \in Thread : call[u].chunk # c
    BY <1>2, <2>1, <2>3 DEF Mmalloc, CallOK
  <2> QED BY <2>2, <2>3, <2>4, StartSafe
<1>3. ASSUME NEW c \in Chunk, Mfree(t, c) PROVE SafeInv'
  <2>1. c \in ring /\ ring' = ring \ {c} /\ \A u \in Thread : call[u].chunk # c
    BY <1>3 DEF Mfree, Unreferenced
  <2>2. Users(c) = {}
    BY <1>3 DEF Mfree, Unreferenced, Users
  <2>3. useCnt[c] = 0
    BY <1>0, <2>2, FS_EmptySet DEF PinCount
  <2>4. CASE aio[c] = {} /\ Dispose(t, c)
    BY <2>1, <2>3, <2>4, DisposeSafe
  <2>5. CASE /\ aio[c] # {}
             /\ StartCall(t, "pffree", "mfree", c, FALSE, 0)
             /\ UNCHANGED <<status, useCnt, swapBuf, aio, memory_max, memory_swapped,
                            memory_tobefreed, dataVars, aioWaiter, sleeping, uses, evict>>
    <3>1. ~LoadImmediately => status[c] = "MEM_SWAPOUT"
      BY <2>3, <2>5 DEF SafeInv, ChunkOK
    <3>2. ASSUME NEW d \in Chunk PROVE ChunkOK(d)' /\ Harmless(d)
      BY <2>1, <2>3, <2>5 DEF SafeInv, ChunkOK, Harmless, Allocated, InUse
    <3>3. SleepersHavePending'
      BY <2>5 DEF SafeInv, SleepersHavePending, Pending
    <3>4. Only(t) /\ call'[t].op = "mfree" /\ call'[t].chunk = c
      BY <1>0, <2>5 DEF StartCall, Goto, NewCall, TypeOK, Only
    <3>5. CallOK(t)'
      BY <2>1, <2>5, <3>1, <3>4 DEF CallOK
    <3> QED BY <2>1, <3>2, <3>3, <3>4, <3>5, StartSafe
  <2> QED BY <1>3, <2>4, <2>5 DEF Mfree
<1>4. ASSUME NEW c \in Chunk, Write(t, c) PROVE SafeInv'
  <2>1. UNCHANGED <<status, aio, useCnt, ring, uses, swapBuf, sleeping, aioWaiter>>
        /\ UNCHANGED threadVars
    BY <1>4 DEF Write, chunkVars, syncVars
  <2> QED BY <2>1, CleanKeepsLocations, QuietStep, ThreadsStaySafe
<1>5. ASSUME NEW c \in Chunk, NEW w \in BOOLEAN, SetUse(t, c, w) PROVE SafeInv'
  <2>1. ASSUME NEW d \in Chunk PROVE ChunkOK(d)' /\ Harmless(d)
    <3>1. ChunkOK(d) /\ UNCHANGED <<aio, ring>>
      BY <1>5 DEF SafeInv, SetUse
    <3>2. CASE d = c
      <4>1. /\ status'[c] \in InUse /\ c \in ring /\ status[c] \in Allocated
            /\ useCnt'[c] > 0
        BY <1>0, <1>5 DEF SetUse, Grant, TypeOK, InUse, Allocated
      <4> QED BY <3>1, <3>2, <4>1 DEF ChunkOK, Harmless, InUse, Allocated, Present
    <3>3. CASE d # c
      <4>1. status'[d] = status[d] /\ swapBuf'[d] = swapBuf[d] /\ useCnt'[d] = useCnt[d]
            /\ \A u \in Thread : uses'[u][d] = uses[u][d]
        BY <1>0, <1>5, <3>3 DEF SetUse, Grant, TypeOK
      <4> QED BY <3>1, <4>1 DEF ChunkOK, Harmless
    <3> QED BY <3>2, <3>3
  <2>2. SleepersHavePending' /\ EndCall(t)
    BY <1>5 DEF SetUse, Grant, SafeInv, SleepersHavePending, Pending
  <2> QED BY <2>1, <2>2, EndSafe
<1>6. ASSUME NEW c \in Chunk, NEW w \in BOOLEAN, SetUseAbsent(t, c, w) PROVE SafeInv'
  <2>1. /\ c \in ring /\ status[c] \notin Allocated
        /\ UNCHANGED <<status, swapBuf, aio, ring, aioWaiter, sleeping, uses, evict>>
        /\ useCnt' = [useCnt EXCEPT ![c] = @ + 1]
    BY <1>6 DEF SetUseAbsent
  <2>2. ASSUME NEW d \in Chunk PROVE ChunkOK(d)' /\ Harmless(d)
    <3>1. ChunkOK(d) /\ useCnt[d] \in Nat
      BY <1>0 DEF SafeInv, TypeOK
    <3>2. CASE d = c
      <4>1. useCnt'[d] = useCnt[d] + 1
        BY <1>0, <2>1, <3>2 DEF TypeOK
      <4> QED BY <2>1, <3>1, <3>2, <4>1 DEF ChunkOK, Harmless, Allocated, InUse
    <3>3. CASE d # c
      <4>1. useCnt'[d] = useCnt[d]
        BY <1>0, <2>1, <3>3 DEF TypeOK
      <4> QED BY <2>1, <3>1, <4>1 DEF ChunkOK, Harmless
    <3> QED BY <3>2, <3>3
  <2>3. SleepersHavePending'
    BY <2>1 DEF SafeInv, SleepersHavePending, Pending
  <2>4. Only(t) /\ call'[t].op = "use" /\ call'[t].chunk = c /\ pc'[t] = WhereToWait(c)
    BY <1>0, <1>6 DEF SetUseAbsent, StartCall, Goto, NewCall, TypeOK, Only
  <2>5. status[c] \in {"MEM_SWAPOUT", "MEM_SWAPPED", "MEM_SWAPIN"}
    BY <1>0, <2>1 DEF SafeInv, ChunkOK, TypeOK, Status, Present
  <2>6. CallOK(t)'
    BY <2>1, <2>4, <2>5 DEF CallOK, Where, WhereToWait, Present
  <2>7. \A u \in Thread : call[u].op \in {"mmalloc", "mfree"} => call[u].chunk # c
    BY <2>1, RingSettled
  <2> QED BY <2>2, <2>3, <2>4, <2>6, <2>7, StartSafe
<1>7. ASSUME NEW c \in Chunk, UnsetUse(t, c) PROVE SafeInv'
  <2>1. /\ uses[t][c] # "none" /\ uses' = [uses EXCEPT ![t][c] = "none"]
        /\ useCnt' = [useCnt EXCEPT ![c] = @ - 1]
        /\ status' = [status EXCEPT ![c] = StatusReleased(c)]
        /\ UNCHANGED <<swapBuf, aio, ring, aioWaiter>>
    BY <1>7 DEF UnsetUse
  <2>2. t \in Users(c)
    BY <2>1 DEF Users
  <2>3. useCnt[c] > 0 /\ useCnt[c] \in Nat /\ \A u \in Thread : u # t /\ u \in Users(c) => useCnt[c] > 1
    BY <1>0, <2>2, UsersCounted
  <2>4. status[c] \in InUse
    BY <2>1 DEF SafeInv, ChunkOK
  <2>5. ASSUME NEW d \in Chunk PROVE ChunkOK(d)' /\ Harmless(d)
    <3>1. ChunkOK(d)
      BY DEF SafeInv
    <3>2. CASE d = c
      <4>1. /\ useCnt'[c] = useCnt[c] - 1 /\ uses'[t][c] = "none"
            /\ \A u \in Thread \ {t} : uses'[u][c] = uses[u][c]
        BY <1>0, <2>1 DEF TypeOK
      <4>2. CASE useCnt[c] = 1
        <5>1. status'[c] = "MEM_ALLOCATED" /\ useCnt'[c] = 0
          BY <1>0, <2>1, <2>4, <4>1, <4>2 DEF StatusReleased, TypeOK
        <5>2. \A u \in Thread : uses'[u][c] = "none"
          <6>1. ASSUME NEW u \in Thread, u # t, uses[u][c] # "none" PROVE FALSE
            <7>1. u \in Users(c)
              BY <6>1 DEF Users
            <7>2. useCnt[c] > 1
              BY <2>3, <6>1, <7>1
            <7> QED BY <4>2, <7>2
          <6> QED BY <4>1, <6>1
        <5> QED BY <2>1, <2>3, <2>4, <3>1, <3>2, <5>1, <5>2 DEF ChunkOK, Harmless, InUse, Present, Allocated
      <4>3. CASE useCnt[c] > 1
        <5>1. status'[c] = status[c] /\ useCnt'[c] > 0
          BY <1>0, <2>1, <2>3, <4>1, <4>3 DEF StatusReleased, TypeOK
        <5> QED BY <2>1, <2>3, <2>4, <3>1, <3>2, <4>1, <5>1 DEF ChunkOK, Harmless, InUse
      <4> QED BY <2>3, <4>2, <4>3
    <3>3. CASE d # c
      <4>1. status'[d] = status[d] /\ useCnt'[d] = useCnt[d]
            /\ \A u \in Thread : uses'[u][d] = uses[u][d]
        BY <1>0, <2>1, <3>3 DEF TypeOK
      <4> QED BY <2>1, <3>1, <4>1 DEF ChunkOK, Harmless
    <3> QED BY <3>2, <3>3
  <2>6. SleepersHavePending'
    BY <1>7, <2>1 DEF UnsetUse, SafeInv, SleepersHavePending, Pending
  <2>7. CASE EndCall(t)
    BY <2>5, <2>6, <2>7, EndSafe
  <2>8. ASSUME NEW min, CallSwapOut(t, min, "untouched"), UNCHANGED call PROVE SafeInv'
    <3>1. Only(t) /\ Where(t)' = "untouched"
      BY <1>0, <2>8 DEF CallSwapOut, Goto, NewEvict, TypeOK, Only, Where
    <3>2. CallOK(t)'
      BY <2>5, <2>8, <3>1, CallStays
    <3> QED BY <2>5, <2>6, <2>8, <3>1, <3>2, GoOn
  <2> QED BY <1>7, <2>7, <2>8 DEF UnsetUse
<1>8. ASSUME NEW n \in MemoryLimits, SetMemoryLimit(t, n) PROVE SafeInv'
  <2>1. UNCHANGED <<status, aio, useCnt, ring, uses, swapBuf, sleeping, aioWaiter>>
    BY <1>8 DEF SetMemoryLimit, chunkVars
  <2>2. /\ \A d \in Chunk : ChunkOK(d)' /\ Harmless(d)
        /\ SleepersHavePending'
    BY <2>1, CleanKeepsLocations, QuietStep
  <2>3. CASE UNCHANGED threadVars
    BY <2>2, <2>3, ThreadsStaySafe
  <2>4. CASE /\ Goto(t, "swapOut")
             /\ call' = [call EXCEPT ![t] = NewCall("limit", NoChunk, FALSE, n)]
             /\ evict' = [evict EXCEPT ![t] = NewEvict(memory_used - n, "shrink")]
    <3>1. Only(t) /\ call'[t].op = "limit" /\ call'[t].chunk = NoChunk
      BY <1>0, <2>4 DEF Goto, NewCall, TypeOK, Only
    <3>2. \A u \in Thread : call[u].op \in {"mmalloc", "mfree"} => call[u].chunk # NoChunk
      BY <1>0, ConstantsAssumption DEF CallDiscipline, CallAtPlace
    <3>3. CallOK(t)'
      BY <3>1 DEF CallOK
    <3> QED BY <2>2, <3>1, <3>2, <3>3, StartSafe
  <2> QED BY <1>8, <2>3, <2>4 DEF SetMemoryLimit
<1>9. ASSUME NEW c \in Chunk, PrepareUse(t, c) PROVE SafeInv'
  <2>1. UNCHANGED <<status, aio, useCnt, ring, uses, swapBuf, sleeping, aioWaiter>>
    BY <1>9 DEF PrepareUse, chunkVars
  <2>2. /\ \A d \in Chunk : ChunkOK(d)' /\ Harmless(d)
        /\ SleepersHavePending'
    BY <2>1, CleanKeepsLocations, QuietStep
  <2>3. Only(t) /\ call'[t].op = "prepare" /\ call'[t].chunk = c
    BY <1>0, <1>9 DEF PrepareUse, StartCall, Goto, NewCall, TypeOK, Only
  <2>4. CallOK(t)'
    BY <1>9, <2>3 DEF PrepareUse, CallOK
  <2>5. \A u \in Thread : call[u].op \in {"mmalloc", "mfree"} => call[u].chunk # c
    BY <1>9, RingSettled DEF PrepareUse
  <2> QED BY <2>2, <2>3, <2>4, <2>5, StartSafe
<1> QED BY <1>2, <1>3, <1>4, <1>5, <1>6, <1>7, <1>8, <1>9 DEF Request, Release

-----------------------------------------------------------------------------
(* What follows.                                                           *)

\* A newly constructed manager satisfies the safety invariant.
LEMMA InitSafe == Init => SafeInv
<1> SUFFICES ASSUME Init PROVE SafeInv
  OBVIOUS
<1>1. \A t \in Thread : call[t].op = "none" /\ call[t].chunk = NoChunk
  BY DEF Init, NoCall, NewCall
<1>2. \A c \in Chunk : ChunkOK(c)
  BY DEF Init, ChunkOK, InUse
<1>3. (\A t \in Thread : CallOK(t)) /\ Exclusive
  BY <1>1 DEF CallOK, Exclusive
<1>4. SleepersHavePending
  BY DEF Init, SleepersHavePending
<1> QED BY <1>2, <1>3, <1>4 DEF SafeInv

\* Every step of the program keeps the safety invariant.
LEMMA NextSafe ==
    ASSUME TypeInv, SafeInv, [Next]_vars
    PROVE  SafeInv'
<1>1. CASE Unwound \/ UNCHANGED vars
  <2>1. UNCHANGED <<status, aio, useCnt, ring, uses, swapBuf, sleeping, aioWaiter>>
        /\ UNCHANGED threadVars
    BY <1>1 DEF Unwound, vars, chunkVars, syncVars
  <2> QED BY <2>1, CleanKeepsLocations, QuietStep, ThreadsStaySafe
<1>2. ASSUME NEW t \in Thread, Request(t) \/ Release(t) \/ Step(t) \/ Recover(t) PROVE SafeInv'
  BY <1>2, RequestSafe, SwapOutSafe, SpaceSafe, WaitStepSafe DEF Step
<1> QED BY <1>1, <1>2, IOStepSafe DEF Next

\* The parts of the invariant say what the properties say.
LEMMA SafeImplies ==
    ASSUME TypeInv, SafeInv
    PROVE  /\ PinnedResident /\ AwaitedChunkComes /\ SleepersHavePending
           /\ ~LoadImmediately => AioDiscipline
<1>1. PinnedResident
  BY DEF SafeInv, ChunkOK, PinnedResident
<1>2. ASSUME NEW t \in Thread, pc[t] = "swapIn" PROVE status[call[t].chunk] \in Present
  <2>1. call[t].op = "use" /\ Where(t) = "swapIn"
    BY <1>2 DEF TypeInv, CallDiscipline, CallAtPlace, Where, OpsAt
  <2> QED BY <2>1 DEF SafeInv, CallOK
<1>3. ~LoadImmediately => AioDiscipline
  BY DEF SafeInv, ChunkOK, AioDiscipline
<1> QED BY <1>1, <1>2, <1>3 DEF SafeInv, AwaitedChunkComes

\* The invariants hold in every state the program reaches.
LEMMA AlwaysSafe == Spec => [](TypeInv /\ SafeInv)
<1>1. Init => TypeInv /\ SafeInv
  BY InitTypeInv, InitSafe
<1>2. TypeInv /\ SafeInv /\ [Next]_vars => (TypeInv /\ SafeInv)'
  BY NextTypeOK, NextPinCount, StutterTypeInv, NextSafe DEF TypeInv
<1> QED BY <1>1, <1>2, PTL DEF Spec

\* Also for handles that load immediately: a chunk in use stays where the pointers to it
\* point; the chunk a setUse waits for is there or comes; nobody sleeps with nothing to
\* wake him.
THEOREM Safety == Spec => [](PinnedResident /\ AwaitedChunkComes /\ SleepersHavePending)
BY AlwaysSafe, SafeImplies, PTL

\* As long as no handle loads immediately, IO completes in the status it was started in.
THEOREM TransfersAgree ==
    ASSUME ~LoadImmediately
    PROVE  Spec => []AioDiscipline
<1>1. TypeInv /\ SafeInv => AioDiscipline
  BY SafeImplies
<1> QED BY <1>1, AlwaysSafe, PTL

-----------------------------------------------------------------------------
(* The status of a chunk only changes along the edges.                     *)

Edges == DocumentedEdges \cup UndocumentedEdges

\* Completed transfers end in the status they were started for.
LEMMA ArriveMoves ==
    ASSUME TypeOK, NEW E \in SUBSET Events, Arrive(E)
    PROVE  StatusMoves(Edges)
<1> SUFFICES ASSUME NEW c \in Chunk, status'[c] # status[c]
             PROVE  <<status[c], status'[c]>> \in Edges
  BY DEF StatusMoves
<1>1. status[c] \in {"MEM_SWAPIN", "MEM_SWAPOUT"} /\ status'[c] = Completed(c)
  BY DEF Arrive
<1>2. CASE status[c] = "MEM_SWAPOUT"
  BY <1>1, <1>2 DEF Completed, Edges, DocumentedEdges
<1>3. CASE status[c] = "MEM_SWAPIN"
  BY <1>1, <1>3 DEF Completed, Edges, DocumentedEdges, UndocumentedEdges
<1> QED BY <1>1, <1>2, <1>3

\* Neither does waiting for IO, whoever waits.
LEMMA WaitMoves ==
    ASSUME TypeOK,
           \/ \E t \in Thread : WaitForAIO(t) \/ PollReturn(t, t)
           \/ PollReturn(Worker, NoThread) \/ WorkerCheck
    PROVE  StatusMoves(Edges)
<1>1. CASE UNCHANGED status
  BY <1>1 DEF StatusMoves
<1>2. ASSUME NEW E \in SUBSET Events, Arrive(E) PROVE StatusMoves(Edges)
  BY <1>2, ArriveMoves
<1> QED BY <1>1, <1>2 DEF WaitForAIO, PollReturn, WorkerCheck, TakeEvents, NothingArrives

\* A use is granted to a chunk in RAM, which stays there.
LEMMA GrantMoves ==
    ASSUME TypeOK, NEW t \in Thread, NEW c \in Chunk, NEW write, NEW st,
           st \in {status[c], "MEM_ALLOCATED"}, status[c] \in Allocated, Grant(t, c, write, st)
    PROVE  StatusMoves(Edges)
<1>1. status'[c] \in InUse
  BY DEF Grant, TypeOK, Allocated, InUse
<1>2. \A d \in Chunk \ {c} : status'[d] = status[d]
  BY DEF Grant, TypeOK
<1>3. <<status[c], status'[c]>> \in Edges \/ status'[c] = status[c]
  BY <1>1 DEF Allocated, InUse, Edges, DocumentedEdges, UndocumentedEdges
<1> QED BY <1>2, <1>3 DEF StatusMoves

\* A step that changes the status of one chunk, along an edge or when it is born or dies.
LEMMA OneMoves ==
    ASSUME TypeOK, NEW c \in Chunk, NEW s, status' = [status EXCEPT ![c] = s],
           <<status[c], s>> \in Edges \/ s = status[c] \/ "ABSENT" \in {status[c], s}
    PROVE  StatusMoves(Edges)
BY DEF StatusMoves, TypeOK

\* What a swap-out does to a chunk: its copy in RAM is dropped, or written out.
LEMMA SwapOutMoves ==
    ASSUME TypeOK, NEW t \in Thread, SwapOutSelect(t) \/ Unload(t) \/ SwapOutDone(t)
    PROVE  StatusMoves(Edges)
<1>1. CASE UNCHANGED status
  BY <1>1 DEF StatusMoves
<1>2. ASSUME NEW v \in evict[t].todo, UnloadCached(t, v) \/ UnloadWrite(t, v)
      PROVE  StatusMoves(Edges)
  <2>1. v[1] \in Chunk
    BY DEF TypeOK
  <2>2. status[v[1]] = "MEM_ALLOCATED"
    BY <1>2 DEF UnloadCached, UnloadWrite
  <2>3. PICK s \in {"MEM_SWAPPED", "MEM_SWAPOUT"} : status' = [status EXCEPT ![v[1]] = s]
    BY <1>2 DEF UnloadCached, UnloadWrite
  <2>4. <<status[v[1]], s>> \in Edges
    BY <2>2 DEF Edges, DocumentedEdges, UndocumentedEdges
  <2> QED BY <2>1, <2>3, <2>4, OneMoves
<1> QED BY <1>1, <1>2 DEF SwapOutSelect, SwapOutDone, SwapOutFrame, Unload, UnloadSkip, UnloadThrow

\* What reserves room, and what follows: a chunk is born, or its read begins.  That it
\* is not on its way out then is what the invariant says of calls.
LEMMA SpaceMoves ==
    ASSUME TypeInv, SafeInv, ~LoadImmediately, NEW t \in Thread,
           EnsureEnoughSpace(t) \/ Evicted(t) \/ MmallocDone(t) \/ SwapInNotNeeded(t) \/ SwapIn(t)
    PROVE  StatusMoves(Edges)
<1>0. TypeOK /\ CallDiscipline
  BY DEF TypeInv
<1>1. CASE UNCHANGED status
  BY <1>1 DEF StatusMoves
<1>2. CASE WaitForAIO(t)
  BY <1>0, <1>2, WaitMoves
<1> DEFINE c == call[t].chunk
<1>3. CASE MmallocDone(t) \/ SwapIn(t)
  <2>1. pc[t] = "space" /\ Where(t) = "space"
    BY <1>3 DEF MmallocDone, SwapIn, At, Where
  <2>2. c \in Chunk /\ call[t].op \in {"mmalloc", "use", "prepare"} /\ CallOK(t)
    BY <1>0, <2>1 DEF CallDiscipline, CallAtPlace, OpsAt, SafeInv
  <2>3. CASE MmallocDone(t)
    <3>1. status[c] = "ABSENT" /\ status' = [status EXCEPT ![c] = "MEM_ALLOCATED"]
      BY <2>2, <2>3 DEF MmallocDone, CallOK
    <3> HIDE DEF c
    <3> QED BY <1>0, <2>2, <3>1, OneMoves
  <2>4. CASE SwapIn(t)
    <3>1. status[c] \notin Present /\ status[c] # "MEM_SWAPOUT"
      BY <2>1, <2>2, <2>4 DEF SwapIn, AlreadyThere, CallOK
    <3>2. status[c] \in {"MEM_SWAPPED", "ABSENT"}
      BY <1>0, <2>2, <3>1 DEF TypeOK, Status
    <3>3. status' = [status EXCEPT ![c] = "MEM_SWAPIN"]
      BY <2>4 DEF SwapIn
    <3>4. <<"MEM_SWAPPED", "MEM_SWAPIN">> \in Edges
      BY DEF Edges, DocumentedEdges
    <3> HIDE DEF c
    <3> QED BY <1>0, <2>2, <3>2, <3>3, <3>4, OneMoves
  <2> QED BY <1>3, <2>3, <2>4
<1> QED BY <1>1, <1>2, <1>3 DEF EnsureEnoughSpace, Evicted, SwapInNotNeeded, NothingArrives, chunkVars

\* Waits, grants and the end of a chunk.
LEMMA WaitStepMoves ==
    ASSUME TypeInv, NEW t \in Thread,
           \/ AwaitSwapOut(t) \/ AwaitSwapIn(t) \/ Untouched(t) \/ PfFree(t)
           \/ Shrink(t) \/ Shrunk(t) \/ Recover(t)
    PROVE  StatusMoves(Edges)
<1>0. TypeOK /\ CallDiscipline
  BY DEF TypeInv
<1>1. CASE UNCHANGED status
  BY <1>1 DEF StatusMoves
<1>2. CASE WaitForAIO(t)
  BY <1>0, <1>2, WaitMoves
<1> DEFINE c == call[t].chunk
<1>3. CASE /\ At(t, "swapIn") /\ status[c] \in Allocated
           /\ Grant(t, c, call[t].write, "MEM_ALLOCATED")
  <2>1. c \in Chunk
    BY <1>0, <1>3, ChunkOfCall DEF At, Where
  <2> QED BY <1>0, <1>3, <2>1, GrantMoves
<1>4. CASE At(t, "pffree") /\ Dispose(t, c)
  <2>1. c \in Chunk
    BY <1>0, <1>4, ChunkOfCall DEF At, Where
  <2>2. status' = [status EXCEPT ![c] = "ABSENT"]
    BY <1>4 DEF Dispose
  <2> HIDE DEF c
  <2> QED BY <1>0, <2>1, <2>2, OneMoves
<1> QED BY <1>1, <1>2, <1>3, <1>4
        DEF AwaitSwapOut, AwaitSwapIn, Untouched, PfFree, Shrink, Shrunk, Recover,
            NothingArrives, chunkVars

\* What the program asks for, and gives back.
LEMMA RequestMoves ==
    ASSUME TypeOK, NEW t \in Thread, Request(t) \/ Release(t)
    PROVE  StatusMoves(Edges)
<1>1. CASE UNCHANGED status
  BY <1>1 DEF StatusMoves
<1>2. ASSUME NEW c \in Chunk, NEW w \in BOOLEAN, SetUse(t, c, w) PROVE StatusMoves(Edges)
  BY <1>2, GrantMoves DEF SetUse
<1>3. ASSUME NEW c \in Chunk, UnsetUse(t, c) PROVE StatusMoves(Edges)
  <2>1. status' = [status EXCEPT ![c] = StatusReleased(c)]
    BY <1>3 DEF UnsetUse
  <2>2. <<status[c], StatusReleased(c)>> \in Edges \/ StatusReleased(c) = status[c]
    BY DEF StatusReleased, InUse, Edges, DocumentedEdges
  <2> QED BY <2>1, <2>2, OneMoves
<1>4. ASSUME NEW c \in Chunk, Mfree(t, c), Dispose(t, c) PROVE StatusMoves(Edges)
  <2>1. status' = [status EXCEPT ![c] = "ABSENT"]
    BY <1>4 DEF Dispose
  <2> QED BY <2>1, OneMoves
<1>5. ASSUME NEW c \in Chunk, \/ Mmalloc(t, c) \/ PrepareUse(t, c) \/ Write(t, c)
                              \/ \E w \in BOOLEAN : SetUseAbsent(t, c, w)
      PROVE  UNCHANGED status
  BY <1>5 DEF Mmalloc, PrepareUse, Write, SetUseAbsent, chunkVars
<1>6. ASSUME NEW c \in Chunk, Mfree(t, c) PROVE Dispose(t, c) \/ UNCHANGED status
  BY <1>6 DEF Mfree
<1>7. ASSUME NEW n \in MemoryLimits, SetMemoryLimit(t, n) PROVE UNCHANGED status
  BY <1>7 DEF SetMemoryLimit, chunkVars
<1> QED BY <1>1, <1>2, <1>3, <1>4, <1>5, <1>6, <1>7 DEF Request, Release

\* As long as no handle loads immediately, a chunk goes from one status to another only
\* as chunkStatusScheme.dot shows or in one of three more ways: no step skips the wait
\* for a transfer, and none moves a chunk that is in use out of RAM.
THEOREM StatusOnEdges ==
    ASSUME ~LoadImmediately
    PROVE  Spec => StatusGraph
<1>1. Init => TypeInv /\ SafeInv
  BY InitTypeInv, InitSafe
<1>2. TypeInv /\ SafeInv /\ [Next]_vars => (TypeInv /\ SafeInv)'
  BY NextTypeOK, NextPinCount, StutterTypeInv, NextSafe DEF TypeInv
<1>3. TypeInv /\ SafeInv /\ [Next]_vars =>
          [StatusMoves(DocumentedEdges \cup UndocumentedEdges)]_vars
  <2> SUFFICES ASSUME TypeInv, SafeInv, Next PROVE StatusMoves(Edges)
    BY DEF Edges
  <2>0. TypeOK
    BY DEF TypeInv
  <2>1. ASSUME NEW t \in Thread, Request(t) \/ Release(t) \/ Step(t) \/ Recover(t)
        PROVE  StatusMoves(Edges)
    BY <2>0, <2>1, RequestMoves, SwapOutMoves, SpaceMoves, WaitStepMoves DEF Step
  <2>2. CASE IOStep
    BY <2>0, <2>2, WaitMoves DEF IOStep
  <2>3. CASE Unwound
    BY <2>3 DEF Unwound, vars, chunkVars, StatusMoves
  <2> QED BY <2>1, <2>2, <2>3 DEF Next
<1> QED BY <1>1, <1>2, <1>3, PTL DEF Spec, StatusGraph
=============================================================================
