------------------------------ MODULE PageFile ------------------------------
(***************************************************************************)
(* The allocator of the page files: pfmalloc, allocInFree, pffree and      *)
(* cleanupCachedElements of managedFileSwap, and extendSwap.               *)
(*                                                                         *)
(* A location is identified by its global offset, under which all_space    *)
(* and free_space know it; locations that are not free never move.  The    *)
(* chain of locations of a chunk is the sequence of their offsets.         *)
(*                                                                         *)
(* The code runs under stateChangeMutex, and `op' is what it is at.  Only  *)
(* pffree on behalf of swapDelete may give the mutex up, before each       *)
(* location of the chain, to wait for its transfer: `deleting' holds the   *)
(* chunks this happens to.                                                 *)
(***************************************************************************)
EXTENDS Integers, Sequences, FiniteSets, FiniteSetsExt, SequencesExt

CONSTANTS
    Chunk,              \* identities of managed chunks
    NoChunk,            \* no chunk
    Size,               \* Size[c]: the size of chunk c, rounded up by mmalloc
    PageFileSize,       \* pageFileSize, a multiple of memoryAlignment
    InitialFiles,       \* pageFileNumber at construction
    MaxFiles,           \* how many files the disk has room for
    Requests,           \* bytes the manager asks the swap to make room for
    MemoryAlignment,    \* memoryAlignment
    LocationSize,       \* sizeof ( pageFileLocation ): no smaller block is kept
    Modulus,            \* unsigned arithmetic: 2^64
    Policy              \* swapPolicy: "fixed", "autoextendable" or "interactive"

ASSUME PageFileAssumption ==
    /\ NoChunk \notin Chunk /\ IsFiniteSet(Chunk)
    /\ MemoryAlignment \in Nat \ {0} /\ LocationSize \in Nat \ {0}
    /\ PageFileSize \in Nat \ {0} /\ PageFileSize % MemoryAlignment = 0
    /\ InitialFiles \in Nat \ {0} /\ MaxFiles \in Nat /\ InitialFiles <= MaxFiles
    /\ Requests \subseteq Nat
    /\ Size \in [Chunk -> Nat \ {0}]
    /\ \A c \in Chunk : Size[c] % MemoryAlignment = 0
    /\ Modulus \in Nat /\ MaxFiles * PageFileSize < Modulus
    /\ Policy \in {"fixed", "autoextendable", "interactive"}

VARIABLES
    all_space,          \* location at each offset: its size and its status
    free_space,         \* offsets of the free locations
    pageFileNumber,     \* number of swap files
    swapFree,           \* bytes booked free
    parts,              \* parts[c]: the offsets of the locations of c not yet freed
    aio,                \* the locations with a write under way (aio_ptr is set)
    booked,             \* whether the size of c is claimed from swapFree
    deleting,           \* chunks swapDelete is at
    op                  \* what is being done under the mutex

vars == <<all_space, free_space, pageFileNumber, swapFree, parts, aio, booked, deleting, op>>

NewOp(kind, c, d, n) ==
    [kind |-> kind, chunk |-> c, freeing |-> d, needed |-> n, cleaned |-> 0]
NoOp == NewOp("none", NoChunk, NoChunk, 0)

Offsets  == DOMAIN all_space
SwapSize == pageFileNumber * PageFileSize
Location(size, status) == [size |-> size, status |-> status]
IsFree(o) == all_space[o].status = "PAGE_FREE"
OffsetInFile(o) == o % PageFileSize             \* pageFileLocation::offset

\* The neighbours of an offset in the order of all_space.
NextOffset(o) == Min({n \in Offsets \cup {SwapSize} : n > o})
PrevOffset(o) == Max({n \in Offsets : n < o})

\* Together the locations of S hold as many bytes as there are pairs of one of them
\* and a byte of it.
BytesAt(S) == Cardinality(UNION {{o} \X (1..all_space[o].size) : o \in S})

\* A set of offsets from the lowest to the highest.
Ascending(S) == CHOOSE q \in [1..Cardinality(S) -> S] :
                    \A i, j \in 1..Cardinality(S) : i < j => q[i] < q[j]

\* A chunk in RAM that still owns its locations (status MEM_ALLOCATED... and swapBuf
\* set): they are no longer claimed from swapFree.
Cached(c) == parts[c] # <<>> /\ ~booked[c]
-----------------------------------------------------------------------------
(* pfmalloc.                                                               *)

Padded(size) == ((size + MemoryAlignment - 1) \div MemoryAlignment) * MemoryAlignment

\* Mutation: a block is split even if nothing is left of it.
TakesBlockNever(o, size) == all_space[o].size < Padded(size)

\* The rest of the block is too small to be managed, and goes with the allocation.
TakesBlock(o, size) == all_space[o].size - Padded(size) < LocationSize

\* Mutation: the rest of a block is as long as the block was.
AllocInUnshrunk(As, o, size, status) ==
    IF TakesBlock(o, size)
    THEN [As EXCEPT ![o] = Location(size, status)]
    ELSE [p \in DOMAIN As \cup {o + Padded(size)} |->
             CASE p = o                -> Location(size, status)
               [] p = o + Padded(size) -> Location(all_space[o].size, "PAGE_FREE")
               [] OTHER                -> As[p]]

\* allocInFree: the map As with `size' bytes allocated at o, in the status pfmalloc
\* gives them; Rest is what it hooks into free_space, Overhead what it takes off swapFree.
AllocInFree(As, o, size, status) ==
    IF TakesBlock(o, size)
    THEN [As EXCEPT ![o] = Location(size, status)]
    ELSE [p \in DOMAIN As \cup {o + Padded(size)} |->
             CASE p = o                -> Location(size, status)
               [] p = o + Padded(size) -> Location(all_space[o].size - Padded(size), "PAGE_FREE")
               [] OTHER                -> As[p]]

Rest(o, size) == IF TakesBlock(o, size) THEN {} ELSE {o + Padded(size)}

Overhead(o, size) ==
    (IF TakesBlock(o, size) THEN all_space[o].size ELSE Padded(size)) - size

\* The first free block that holds all of it.
FirstFit(size) ==
    {o \in free_space : /\ all_space[o].size >= size
                        /\ \A f \in free_space : f < o => all_space[f].size < size}

FreeBelow(o) == BytesAt({f \in free_space : f < o})

\* The chunk gets its locations, and is written to them: free blocks as they come, the
\* last one in part.  (Free blocks are multiples of the alignment: none is cut short.)
AllocAt(c, taken, last, left) ==
    /\ all_space' = AllocInFree([o \in Offsets |-> IF o \in taken
                                    THEN Location(all_space[o].size, "PAGE_PART")
                                    ELSE all_space[o]],
                                last, left, "PAGE_END")
    /\ free_space' = (free_space \ (taken \cup {last})) \cup Rest(last, left)
    /\ parts' = [parts EXCEPT ![c] = Ascending(taken \cup {last})]
    /\ aio' = aio \cup taken \cup {last}
    /\ swapFree' = (swapFree - Overhead(last, left) - Size[c]) % Modulus
    /\ booked' = [booked EXCEPT ![c] = TRUE]

AllocWhole(c) == \E o \in FirstFit(Size[c]) : AllocAt(c, {}, o, Size[c])

AllocParts(c) ==
    \E last \in free_space :
        LET left == Size[c] - FreeBelow(last) IN
        /\ 0 < left /\ left <= all_space[last].size
        /\ AllocAt(c, {f \in free_space : f < last}, last, left)
-----------------------------------------------------------------------------
(* pffree, of one location; `back' bytes are claimed back by the caller.   *)

\* Mutation: the location before is taken for free.
MergesLeftAlways(o) == OffsetInFile(o) # 0

\* Mutation: free space before a location is not merged.
MergesLeftNever(o) == FALSE

\* Free space before the location, in the same file.
MergesLeft(o) == OffsetInFile(o) # 0 /\ IsFree(PrevOffset(o))

\* Mutation: free space is merged from one file into the next.
MergesRightAnywhere(n) == n \in Offsets /\ IsFree(n)

\* Free space after it, in the same file.
MergesRight(n) == n \in Offsets /\ OffsetInFile(n) # 0 /\ IsFree(n)

\* Mutation: the overhead of an allocation is lost.
ReclaimedNot(size, n) == 0

\* The bytes of the block from `size' on up to the next location n, unusable so far.
Reclaimed(size, n) == n - size

PfFree(o, back) ==
    LET first == IF MergesLeft(o) THEN PrevOffset(o) ELSE o
        next  == NextOffset(o)
        size  == IF first = o THEN all_space[o].size
                              ELSE all_space[first].size + all_space[o].size
        gone  == ({o} \ {first}) \cup (IF MergesRight(next) THEN {next} ELSE {})
    IN  /\ all_space' = [p \in Offsets \ gone |->
             IF p # first THEN all_space[p]
             ELSE Location(next - first
                             + (IF next \in gone THEN all_space[next].size ELSE 0), "PAGE_FREE")]
        /\ free_space' = (free_space \ gone) \cup {first}
        /\ swapFree' = (swapFree + Reclaimed(first + size, next) + back) % Modulus
-----------------------------------------------------------------------------
(* What the chunks do with their locations.                                *)

Idle == op.kind = "none"

\* swapOut of a chunk without a location.  With an empty free_space pfmalloc returns
\* NULL; with too little in it, cached chunks are cleaned first.
SwapOut(c) ==
    /\ Idle /\ parts[c] = <<>> /\ Size[c] <= swapFree /\ free_space # {}
    /\ UNCHANGED <<pageFileNumber, deleting>>
    /\ IF FirstFit(Size[c]) # {}
       THEN AllocWhole(c) /\ UNCHANGED op
       ELSE IF BytesAt(free_space) >= Size[c]
       THEN AllocParts(c) /\ UNCHANGED op
       ELSE /\ op' = NewOp("pfmalloc", c, NoChunk, Size[c] - BytesAt(free_space))
            /\ UNCHANGED <<all_space, free_space, swapFree, parts, aio, booked>>

\* swapOut of a cached chunk: what it holds counts again.
Drop(c) ==
    /\ Idle /\ Cached(c) /\ Size[c] <= swapFree
    /\ booked' = [booked EXCEPT ![c] = TRUE]
    /\ swapFree' = (swapFree - Size[c]) % Modulus
    /\ UNCHANGED <<all_space, free_space, pageFileNumber, parts, aio, deleting, op>>

\* A write arrives.
WriteArrived(o) ==
    /\ Idle /\ aio' = aio \ {o}
    /\ UNCHANGED <<all_space, free_space, pageFileNumber, swapFree, parts, booked, deleting, op>>

\* A chunk that was written has been read in again, and becomes cached.
SwapInArrived(c) ==
    /\ Idle /\ booked[c] /\ c \notin deleting /\ Range(parts[c]) \cap aio = {}
    /\ booked' = [booked EXCEPT ![c] = FALSE]
    /\ swapFree' = (swapFree + Size[c]) % Modulus
    /\ UNCHANGED <<all_space, free_space, pageFileNumber, parts, aio, deleting, op>>

\* invalidateCacheFor, or swapDelete of a cached chunk: nothing to wait for.
Discard(c) ==
    /\ Idle /\ Cached(c)
    /\ op' = NewOp("discard", NoChunk, c, 0)
    /\ UNCHANGED <<all_space, free_space, pageFileNumber, swapFree, parts, aio, booked, deleting>>

\* swapDelete of a chunk that is not in RAM, or still on its way out.
SwapDelete(c) ==
    /\ Idle /\ booked[c] /\ c \notin deleting
    /\ op' = NewOp("delete", NoChunk, c, 0)
    /\ deleting' = deleting \cup {c}
    /\ UNCHANGED <<all_space, free_space, pageFileNumber, swapFree, parts, aio, booked>>

\* cleanupCachedElements ( min ) from ensureEnoughSpace or the scheduler's swapOut.
CleanUp(min) ==
    /\ Idle
    /\ op' = NewOp("cleanup", NoChunk, NoChunk, min)
    /\ UNCHANGED <<all_space, free_space, pageFileNumber, swapFree, parts, aio, booked, deleting>>

\* extendSwapByPolicy for what is missing to `min' bytes, if the disk has room: n files,
\* or as many more as the user likes if he is asked.
Extend(min) ==
    LET n == (min - swapFree + PageFileSize - 1) \div PageFileSize IN
    /\ Idle /\ Policy # "fixed" /\ min > swapFree
    /\ \E k \in n..(MaxFiles - pageFileNumber) :
          /\ Policy = "autoextendable" => k = n
          /\ LET new == {f * PageFileSize : f \in pageFileNumber..(pageFileNumber + k - 1)}
             IN  /\ all_space' = [o \in Offsets \cup new |-> IF o \in new
                                     THEN Location(PageFileSize, "PAGE_FREE")
                                     ELSE all_space[o]]
                 /\ free_space' = free_space \cup new
          /\ pageFileNumber' = pageFileNumber + k
          /\ swapFree' = (swapFree + k * PageFileSize) % Modulus
    /\ UNCHANGED <<parts, aio, booked, deleting, op>>
-----------------------------------------------------------------------------
(* The loops, one location or chunk at a time.                             *)

\* pffree: the next location of op.freeing.  After the last one swapDelete claims the
\* size of the chunk back, unless it was cached.
FreeNext ==
    LET d    == op.freeing
        o    == Head(parts[d])
        last == Len(parts[d]) = 1
    IN  /\ d # NoChunk /\ o \notin aio
        /\ PfFree(o, IF last /\ booked[d] THEN Size[d] ELSE 0)
        /\ parts' = [parts EXCEPT ![d] = Tail(@)]
        /\ booked' = [booked EXCEPT ![d] = @ /\ ~last]
        /\ deleting' = IF last THEN deleting \ {d} ELSE deleting
        /\ op' = IF ~last THEN op
                 ELSE IF op.kind \in {"discard", "delete"} THEN NoOp
                 ELSE [op EXCEPT !.freeing = NoChunk]
        /\ UNCHANGED <<pageFileNumber, aio>>

\* A write to it is under way: pffree gives the mutex up until it has arrived.
FreeWaits ==
    /\ op.freeing # NoChunk /\ Head(parts[op.freeing]) \in aio
    /\ op' = NoOp
    /\ UNCHANGED <<all_space, free_space, pageFileNumber, swapFree, parts, aio, booked, deleting>>

FreeResumes(c) ==
    /\ Idle /\ c \in deleting /\ Head(parts[c]) \notin aio
    /\ op' = NewOp("delete", NoChunk, c, 0)
    /\ UNCHANGED <<all_space, free_space, pageFileNumber, swapFree, parts, aio, booked, deleting>>

\* cleanupCachedElements goes on until it has freed enough, or all there is.
Cleaning == op.kind \in {"pfmalloc", "cleanup"} /\ op.freeing = NoChunk
CleanEnough == op.needed # 0 /\ op.cleaned >= op.needed

CleanNext(d) ==
    /\ Cleaning /\ ~CleanEnough /\ Cached(d)
    /\ op' = [op EXCEPT !.freeing = d, !.cleaned = @ + Size[d]]
    /\ UNCHANGED <<all_space, free_space, pageFileNumber, swapFree, parts, aio, booked, deleting>>

\* Mutation: any cleaning counts as success.
CleanedSome == op.cleaned > 0

\* What cleanupCachedElements returns: exactly enough is not a success.
CleanedUp == op.cleaned > op.needed

\* Back in pfmalloc: the parts are there now, or "Out of swap space" is thrown, with
\* stateChangeMutex held for ever.
CleanDone ==
    /\ Cleaning /\ (CleanEnough \/ \A d \in Chunk : ~Cached(d))
    /\ UNCHANGED <<pageFileNumber, deleting>>
    /\ IF op.kind = "pfmalloc" /\ CleanedUp
       THEN AllocParts(op.chunk) /\ op' = NoOp
       ELSE /\ op' = IF op.kind = "pfmalloc" THEN [op EXCEPT !.kind = "thrown"] ELSE NoOp
            /\ UNCHANGED <<all_space, free_space, swapFree, parts, aio, booked>>

\* Nothing more happens after that.
Unwound == op.kind = "thrown" /\ UNCHANGED vars
-----------------------------------------------------------------------------
\* The constructor: every file is one free block.
Init ==
    /\ pageFileNumber = InitialFiles
    /\ free_space = {f * PageFileSize : f \in 0..(InitialFiles - 1)}
    /\ all_space = [o \in free_space |-> Location(PageFileSize, "PAGE_FREE")]
    /\ swapFree = SwapSize
    /\ parts = [c \in Chunk |-> <<>>]
    /\ booked = [c \in Chunk |-> FALSE]
    /\ aio = {} /\ deleting = {}
    /\ op = NoOp

Next ==
    \/ \E c \in Chunk :
          \/ SwapOut(c) \/ Drop(c) \/ SwapInArrived(c) \/ Discard(c) \/ SwapDelete(c)
          \/ FreeResumes(c) \/ CleanNext(c)
    \/ \E o \in aio : WriteArrived(o)
    \/ \E min \in Requests : CleanUp(min) \/ Extend(min)
    \/ FreeNext \/ FreeWaits \/ CleanDone \/ Unwound

Spec == Init /\ [][Next]_vars
-----------------------------------------------------------------------------
(* Properties.                                                             *)

\* Types, and offsets inside the swap.
TypeOK ==
    /\ all_space \in [Offsets -> [size : Nat \ {0},
                                  status : {"PAGE_FREE", "PAGE_PART", "PAGE_END"}]]
    /\ Offsets \subseteq 0..(SwapSize - 1) /\ free_space \subseteq Offsets
    /\ pageFileNumber \in InitialFiles..MaxFiles /\ swapFree \in 0..(Modulus - 1)
    /\ aio \subseteq Offsets
    /\ parts \in [Chunk -> Seq(Offsets)] /\ booked \in [Chunk -> BOOLEAN]
    /\ deleting \subseteq {c \in Chunk : booked[c]}
    /\ op \in [kind : {"none", "pfmalloc", "cleanup", "discard", "delete", "thrown"},
               chunk : Chunk \cup {NoChunk}, freeing : Chunk \cup {NoChunk},
               needed : Nat, cleaned : Nat]

\* Allocation and pffree leave a tiling of every file: no location overlaps the next one
\* or the end of its file, what lies between them is less than a location and follows
\* no free one, and free neighbours have been merged.  free_space lists exactly the free
\* locations.
Tiling ==
    /\ \A o \in Offsets :
          LET next == NextOffset(o)
              gap  == next - o - all_space[o].size
          IN  /\ 0 <= gap /\ gap < LocationSize
              /\ OffsetInFile(o) + all_space[o].size <= PageFileSize
              /\ IsFree(o) => /\ gap = 0
                              /\ next \in Offsets /\ OffsetInFile(next) # 0 => ~IsFree(next)
    /\ free_space = {o \in Offsets : IsFree(o)}

\* Every location that is not free belongs to one chunk, and the chain of a chunk ends
\* at its only PAGE_END: pffree and copyMem walk chains until they meet it.
Chains ==
    /\ \A c \in Chunk : \A i \in DOMAIN parts[c] :
          /\ parts[c][i] \in Offsets
          /\ all_space[parts[c][i]].status =
                IF i = Len(parts[c]) THEN "PAGE_END" ELSE "PAGE_PART"
    /\ \A o \in Offsets : ~IsFree(o) =>
          Cardinality({ci \in Chunk \X (1..Cardinality(Offsets)) :
                          ci[2] \in DOMAIN parts[ci[1]] /\ parts[ci[1]][ci[2]] = o}) = 1

\* swapFree is, in unsigned arithmetic, what all locations hold together, less the sizes
\* of the chunks it is claimed for, whatever was split, padded, merged, cleaned and
\* extended before.
SwapFreeExact ==
    swapFree = (BytesAt(Offsets)
                  - Cardinality(UNION {{c} \X (1..Size[c]) : c \in {d \in Chunk : booked[d]}})) % Modulus

\* swapFree never passes zero: managedSwap.cpp has a check for it, commented out, that
\* would call it "Wrong memory accounting!".  It does not hold without DMA (README).
NoWrap == swapFree <= SwapSize

\* The room pfmalloc counts on after it has cleaned cached chunks is really there: it
\* walks free_space without looking for its end.
RoomCounted ==
    op.kind = "pfmalloc" /\ op.freeing = NoChunk /\ CleanedUp =>
        BytesAt(free_space) >= Size[op.chunk]

\* Once no chunk owns a location, every file is one free block again, and all of it is
\* booked free.
MergesBack ==
    (\A c \in Chunk : parts[c] = <<>>) =>
        /\ free_space = {f * PageFileSize : f \in 0..(pageFileNumber - 1)}
        /\ \A o \in free_space : all_space[o].size = PageFileSize
        /\ swapFree = SwapSize

\* What the chunks own, byte by byte.
owned == [c \in Chunk |-> UNION {o..(o + all_space[o].size - 1) : o \in Range(parts[c])}]

Space == INSTANCE SwapSpace WITH room <- SwapSize

\* The page file hands out room, disjoint and exactly as much as asked for, and leaves
\* it alone until it is given back.
ImplementsSwapSpace == Space!Spec
=============================================================================
