# Specification of rambrain

rambrain lets a program use more memory than there is RAM. Arrays are created through
`managedPtr` and used through short-lived `adhereTo` handles; a memory manager keeps what
is in use in RAM and moves the rest to swap files by asynchronous IO. This directory holds
TLA+ specifications of that system, their TLC configurations and machine-checked proofs.

Paths below are relative to the repository; line numbers refer to `src/src/`.

## 1. The system

| Component | State | Operations | Interacts with |
|---|---|---|---|
| `managedMemory` (`managedMemory.cpp`) | `memChunks`; per chunk `status`, `useCnt`, `locPtr`, `swapBuf`, `size`; `memory_max`, `memory_used`, `memory_swapped`, `memory_tobefreed`; `stateChangeMutex`, `swappingCond` | `mmalloc`, `mfree`, `setUse`, `unsetUse`, `prepareUse`, `setMemoryLimit`, and internally `ensureEnoughSpace`, `waitForAIO`, `waitForSwapin`, `waitForSwapout` | calls scheduler and swap with the mutex held |
| `cyclicManagedMemory` (the scheduler) | a doubly linked ring of chunks with `active`, `counterActive`, `preemptiveStart`; `preemptiveBytes` and two counters; `cyclicTopoLock` | `schedulerRegister`, `schedulerDelete`, `touch`, `untouch`, `swapOut`, `swapIn`, `decay` | chooses chunks, calls the swap |
| `managedFileSwap`: chunks and transfers | `pendingAios`, `totalSwapActionsQueued`, one tracker per transfer, `aio_lock`/`aio_ptr` per location, `aioWaiterLock`, the queue of the submit workers | `swapIn`, `swapOut`, `swapDelete`, `copyMem`, `scheduleCopy`, `checkForAIO`, `asyncIoArrived`, `completeTransactionOn`, `cleanupCachedElements`, `invalidateCacheFor` | changes status and accounts of chunks, wakes `swappingCond` |
| `managedFileSwap`: page file | `all_space`, `free_space` (offset to location), `swapFree`, `swapUsed` | `pfmalloc`, `allocInFree`, `pffree`, `extendSwap`, `extendSwapByPolicy` | called by swapOut, swapDelete, cache cleaning |
| worker threads | `io_submit_requests`, `io_arrive_work` | `io_submit_worker`, `io_arrrive_worker` | kernel AIO; the latter takes the mutex |
| `managedPtr`, `adhereTo` (`managedPtr.h`) | reference count `tracker`; `loadedReadable`, `loadedWritable` of a handle | construct, copy, assign, destroy, pull a pointer | requests to the manager |
| `managedDummySwap` | chunk buffers in RAM | the swap interface, synchronously | as the file swap |
| `configReader`, `regexMatcher`, `rambrainConfig` | the options read so far, three streams | `readConfig`, `reinit`, `resizeMemory`, `resizeSwap` | constructs swap and manager |
| C interface, generic pointers, timers, Windows emulation | - | - | thin layers |

How they interact. Every public call of the manager takes `stateChangeMutex` and runs to its
end under it, through scheduler and swap. It gives the mutex up in exactly two places: inside
`checkForAIO`, while it polls the kernel for at most 100 microseconds (one thread at a time,
the owner of `aioWaiterLock`), and in `pthread_cond_wait ( &swappingCond )`, for those who
find `aioWaiterLock` taken. Whoever finds events processes them for everybody: status, the
three accounts and the condition variable. A worker thread does the same every millisecond.

What makes it hard:

* every wait may change any status: `managedMemoryChunk.h:51` warns about it, and each caller
  has to look again;
* a chunk is on its way for a long time (`MEM_SWAPIN`, `MEM_SWAPOUT`), is booked in RAM and in
  swap meanwhile, may be wanted, released or freed meanwhile;
* a chunk read in keeps its location in the page file as a cache; the copy must be discarded
  on the first write, and may be discarded for room at any time;
* the accounts steer everything and are unsigned;
* who waits for room depends on others' transfers or releases, and on being woken.

What makes each part correct:

* manager: accounts equal what they count; what is in use does not move; a write is never
  lost; limits are kept; calls come back;
* scheduler: the ring stays a ring, with every chunk once; picks are sound;
* transfers: completed exactly once, in the status they were started in, even if nobody waits;
* page file: locations are disjoint, cover the file, merge back to one free block per file;
* pointers and handles: a chunk is freed once, after its last user; a pointer pulled from a
  handle stays valid as long as the handle;
* configuration: the first file that sets an option wins, specific blocks before default ones;
* shutdown: no transfer is left, no worker touches freed state.

The `hazards` of `PROJECT.json` list, line by line, where this code is exposed.

## 2. The modules

### ManagedMemory

The manager, the swap-out and the non-preemptive swap-in of the scheduler, and the state of
chunks and transfers of the file swap, as any number of threads use them.

State: `status`, `useCnt`, `swapBuf` (does the chunk own a location), `aio` (transfers queued
and not processed), `ring` (chunks registered with the scheduler), the limit and the three
accounts under their names in the code, `lock` (owner of `stateChangeMutex`), `aioWaiter` (owner
of `aioWaiterLock`), `sleeping` (threads in `pthread_cond_wait`), and per thread `pc`, `call`
and `evict` (its call and its frame of `swapOut`). Three variables are not in the code:
`uses[t][c]` is what thread t holds a pointer for; `ramFresh` and `diskFresh` say whether the
copy in RAM, or in the page file, is the last value written.

Actions. An action is a piece of code that runs without giving the mutex up, cut further where
the code loops, so that no action hides a loop. `lock` carries the mutex between the pieces:
`lock = t` after an action means t still owns it and nobody else can move, which is why
spinning with the mutex held is visible as such.

| Code | Actions |
|---|---|
| `mmalloc` | `Mmalloc`, `EnsureEnoughSpace`, `Evicted`, `MmallocDone` |
| `setUse` | `SetUse`, or `SetUseAbsent`, `AwaitSwapOut`, `EnsureEnoughSpace`..., `SwapIn` / `SwapInNotNeeded`, `AwaitSwapIn` |
| `prepareUse` by a handle | `PrepareUse`, then as above, without the grant |
| `unsetUse`, `untouch` | `UnsetUse`, with preemptive swap-out `SwapOutSelect`..., `Untouched` |
| `mfree`, `swapDelete`, the wait in `pffree` | `Mfree`, `PfFree`, both with `Dispose` |
| `setMemoryLimit` | `SetMemoryLimit`, `Shrink`, `Shrunk` |
| `cyclicManagedMemory::swapOut` | `SwapOutSelect`, `SwapOutDone` |
| `managedFileSwap::swapOut`, `pfmalloc` | `Unload`: `UnloadSkip`, `UnloadCached`, `UnloadWrite`, `UnloadThrow` |
| `checkForAIO`, `asyncIoArrived`, `completeTransactionOn` | `TakeEvents`, `PollReturn`, both with `Arrive` |
| `io_arrrive_worker` | `WorkerCheck`, `PollReturn(Worker, ...)` |
| the program writing through a pointer | `Write` |
| exceptions | `Throw`, `Recover`, `Unwound` |

Abstractions, and why they are sound for the properties below:

* Sizes count units of `memoryAlignment`, to which `mmalloc` rounds. With DMA (the default)
  the unit is 512 bytes and a rest of a block is never too small to be managed.
* The ring is the set of its chunks (`CyclicRing` has the ring itself). `Selections` gives every list some order of the ring could
  give: greedy, skipping what the swap cannot hold, up to the quota. The walk makes as many steps
  as `memChunks` has elements, so with n chunks in deletion, which have left the ring, it makes n
  steps more than the ring is long and comes to chunks again: an entry of a list is a pair of
  chunk and visit, for any number of visits.
* A transfer is one operation per chunk, and the kernel may finish it any time.
* A thread uses a chunk once at a time. Two uses by one thread change the shared state exactly
  as uses by two threads do, since calls are atomic in the absence of waits.
* `pthread_cond_wait` is not woken spuriously. POSIX allows it, and the code loops correctly
  around it; leaving it out makes a lost wake-up visible instead of repairing it by chance.
* `LoadImmediately` is the argument of `adhereTo` of that name. It is true by default
  (`managedPtr.h:407`); `waiting` and `live` have the default, which adds the reads of `prepareUse`
  to what can happen without it; `fatal` is for programs that pass false, where only `setUse` reads
  chunks in. Section 3 says what holds and what does not with the default.
* `swapPolicy::fixed`: `extendSwapByPolicy` returns false. Preemptive loading is off, as after
  `setPreemptiveLoading ( false )`.
* Client discipline: `mfree` is called once, for a chunk nobody uses or waits for. This is what
  `managedPtr` provides with its reference count.
* `Recover` lets a thread go on after an exception that left nothing behind. An exception out
  of `setUse` leaves `useCnt` raised, and one out of `pfmalloc` leaves the mutex locked: no
  recovery is claimed there, and the model stays in that state (`Unwound` keeps TLC from
  reporting it as a deadlock of the specification; `CallsReturn` counts `thrown` as an end).

### ObjectStore

What a program is promised, without limits, swap or IO: objects exist, are intact (the last
value written can be read back), are held by threads, and those held stay where they are.
`ManagedMemory` implements it: `ImplementsStore`, with `live` the ring, `intact` computed from
the freshness of the copy that counts in each status, `resident` the chunks in RAM, `holders`
from `uses`.

### PageFile

The allocator of the page files, to the byte: `all_space` and `free_space` map global offsets to
locations, `parts[c]` is the chain of locations a chunk owns, `booked` whether its size is
claimed from `swapFree`, `aio` the locations being written, `deleting` the chunks `swapDelete` is
at, and `op` what is being done under the mutex: pfmalloc while it cleans the cache, a cleaning
by itself, or a chain being freed.

| Code | Actions |
|---|---|
| `swapOut` of a chunk without location, `pfmalloc`, `allocInFree` | `SwapOut`, with `CleanNext`, `FreeNext`, `CleanDone` if cached chunks have to go |
| `swapOut` of a cached chunk | `Drop` |
| `asyncIoArrived` of a part written; `completeTransactionOn` of a read | `WriteArrived`, `SwapInArrived` |
| `invalidateCacheFor`, `swapDelete` of a cached chunk | `Discard`, `FreeNext` |
| `swapDelete`, `pffree` and its wait | `SwapDelete`, `FreeNext`, `FreeWaits`, `FreeResumes` |
| `cleanupCachedElements` | `CleanUp`, `CleanNext`, `FreeNext`, `CleanDone` |
| `extendSwapByPolicy`, `extendSwap` | `Extend` |

An action frees one location. Between two of them the mutex is kept (`op` is not `none`), except
where `pffree` finds a part being written: then others allocate and free until it has arrived.
`swapFree` is unsigned, so its arithmetic is modulo `Modulus`.

Abstractions: a chunk is not deleted while it is being read, so only writes are tracked in `aio`.
That restricts the programs: with handles that load immediately (the default), or with guesses, a
chunk is read in for nobody and can be freed meanwhile, and then `pffree` waits for the read and its
location can be freed twice (run `eager_free`). What is checked and proved of `PageFile` is for programs that free no
chunk whose read is under way; handles with `loadImmediately = false` and preemptive
loading off are enough for that. Further, chunks are sizes with an identity, which a new chunk may take over
when the old one owns nothing; files can be created and the disk has room for `MaxFiles` of them;
`memChunks` may have any order, so the next cached chunk to clean is any. Sizes are multiples of
the alignment, as `mmalloc` makes them: padding is modelled, and is always zero. pfmalloc looks
at the free block after the last one (`:809`), which does not exist; what it reads is not used as
long as `RoomCounted` holds.

### SwapSpace

What the page file promises: chunks own as many bytes as they need, no byte has two owners, what
is owned is not touched until it is given back, and room only grows. `PageFile` implements it
(`ImplementsSwapSpace`), with `owned` the bytes of the locations in a chain.

### CyclicRing

The scheduler, pointer by pointer: `sched` holds `next` and `prev` of each element, `active`,
`counterActive`, `preemptiveStart`, the chunks flagged `preemptiveLoaded`, `preemptiveBytes` and the
two counters that decide on a decay. Every operation of the scheduler is an operator from one
such state to the next, put together from `Linked` (`MUTUAL_CONNECT`), `InsertBefore` and
`FilterChain` as in the code; the actions are the calls that use them.

| Code | Definitions |
|---|---|
| `schedulerRegister`, `schedulerDelete`, `touch` | `SchedulerRegister`, `SchedulerDelete`, `Touch` |
| `swapOut` | `SwapOut`: `SwapOutWalk` (what it picks), `Unload` (what the swap makes of it), `SwapOutReordered` |
| `decay` | `DecayWalk`, `Decayed`, `Shrunk` |
| `swapIn` | `SwapInBegin`, `SwapInPlan`, `SwapInEvict`, `RoomFound`..., `SwapInRead` or `SwapInPlain` |
| `ensureEnoughSpace` | `RoomMade`, `RoomAwaited`, `CacheCleaned`, `GivesUp` |
| `setUse`, `unsetUse`, `untouch` | `SetUse`, `Grant`, `UnsetUse`, `Untouch` |
| `mmalloc`, `mfree` | `Mmalloc`, `MmallocDone`, `Mfree`, `MfreeDone` |
| `completeTransactionOn` | `Arrive` |

The three parts of the ring (`swapIn` of guesses, `swapOut`, `touch`) rely on each other to leave
the pointers where the next one expects them. The walk of `swapIn` takes for granted (`:473`)
that it only passes chunks that are swapped; where it does not, the ring may break, and the
model stops as soon as it has (`RingWhole` is a conjunct of the guards `At` and of `Arrive`), since what a broken ring does next
depends on which pointer is followed first. `SwapInLost` is the walk that does not end, because
the element it would end at has been freed while `ensureEnoughSpace` waited.

Abstractions: sizes are units of 512 bytes, and 20 units stand for a `memory_max` of 10241 bytes:
the products with `swapInFrac` and `swapOutFrac`, which the code computes in floating point, come
to 2 units of guesses, 16 to swap out to and 2 to keep free. The counters `consecutive` and
`sinceLast` stop at 2, from where on the powers the code compares do not change the outcome.
Bytes of a chunk freed while it was being read stay in `memory_used` (`leaked`). `Ring` is what is registered
with the scheduler: `mfree` takes a chunk out of it (`InDeletion`) before it waits for its transfer.
If that is a read, the chunk is in RAM with a location when it ends, and `Cleanups` counts it with the other cached
ones; that the location is then freed twice (run `eager_free`) has no effect on the ring.
`Those`, which `FilterChain` splits a stretch with, and `Bytes` are written without recursive or
second-order operators, so that they can be proved about.

### HandleProtocol

What a program holds: `managedPtr` with its `tracker`, `adhereTo` with its two flags, used by
several threads. The manager is reduced to status and use count. An operation is a sequence of
steps, `todo`: the calls of the manager it makes are atomic, and between them others run. A step
names its chunk, and the flag of a handle it sets use for, or how many uses it unsets; so what a
handle holds (`Held`) and what threads have still to unset (`Owed`) can be read off the state.

| Code | Actions |
|---|---|
| `managedPtr`: constructors, destructor, `operator=` | `Construct`, `Copy`, `Destroy`, `Assign` with `Take` |
| `mDelete` | the steps `MDelete`: a use for the destructors, then `Mfree` |
| `adhereTo`: constructors, destructor, `operator=` | `Adhere`, `CopyHandle`, `DestroyHandle`, `AssignHandle` with `Adopt` |
| pulling a pointer: `operator T *`, `operator const T *` | `Pull`, then `SetUse`, `Grant`, `GivePointer` |
| `managedPtr::waitForSwapin` | `Spin` |
| `prepareUse`, `setUse`, `unsetUse`, `mfree` of the manager | `PrepareUse`, `SetUse`, `Grant`, `UnsetUse`, `Mfree`, `MfreeDone`, and the exceptions |
| what the manager does meanwhile | `Evict`, `Fetch`, `Arrive` |

Abstractions: `Pull` merges the read of a flag and the compare-and-swap on it, which differ only
for threads that share a handle. `INUSE` stands for use for reading and for writing, which the
use count does not tell apart. An exception out of a constructor, an assignment or `mDelete` ends
the model (`ended`), since the program cannot go on with the object; one out of a pull leaves
flag and use behind, as in the code, and the handle in `failed`. As documented, one object is not
written by two threads at once, and a managedPtr is not assigned or destroyed under a handle on
it. `operator=` of a managedPtr without chunk does not release its tracker, which leaks; so
`RefCounted` has an inequality there.

### AioTransfer

How a chunk moves: `copyMem` queues its parts (`Begin`, `ScheduleCopy`, `Copied`), submit workers
hand them to the kernel (`Pop`, `Submit`, `Transferred`), and `checkForAIO` takes the events back
(`Occupied`, `NothingQueued`, `GetEvents`, `GetEventsTimed`, `AsyncIoArrived`, `CountArrived`,
`Checked`), called by threads that wait (`Join`, `Await`, `WakeUp`), by the arrive worker (`Poll`,
`Lock`, `Unlock`) and by `waitForCleanExit`. `tracker` is the counter of a transfer, `total` is
`totalSwapActionsQueued`. The end of the program, by `closeSwap` or the destructor, is `Exit`,
`WaitForCleanExit`, `LinearMfree` (only its wait for the mutex) and `CloseFiles`, `StopWorkers`,
`Joined`. Any thread may end the program at any time at which no call of another is under way.

A mutex is modelled as that of the build: unlocking frees it, whoever holds it. `waitForCleanExit`
calls `checkForAIO` without the mutex, which unlocks and locks it.

Abstractions: the kernel does what it is asked (errors end the program by an exception in a
worker thread); at most `aio_max_transactions` events are taken at once, which is more than the
instance has; an interrupted `io_getevents` is called again, which is part of
`GetEventsTimed`; how a chunk gets a location is `PageFile`, which chunk moves is the manager.

### The MC modules

The instances for TLC. `MCManagedMemoryLive` adds a bounded number of requests per thread,
`made`, and fairness.

### The proof modules

| Module | Extends | Theorems |
|---|---|---|
| `ManagedMemory_proofs` | `ManagedMemory` | types, pins, transfers, waits, status graph |
| `ManagedMemoryEffects_proofs` | the one above | accounts, limits, copies, refinement of `ObjectStore` |
| `AioTransfer_proofs` | `AioTransfer` | the mutex and `aioWaiterLock` |
| `AioTransferCount_proofs` | the one above | what is counted, types, the end |
| `HandleProtocol_proofs` | `HandleProtocol` | lemmas: the structure every operation relies on |
| `HandleProtocolCount_proofs` | the one above | types, trackers, use counts, pointers, spinning |
| `PageFile_proofs` | `PageFile` | types, tiling, chains, `swapFree`, refinement of `SwapSpace` |
| `CyclicRing_proofs` | `CyclicRing` | types, the memory limit, flags of guesses |

## 3. The runs

All instances of `ManagedMemory` have at least as many chunks as fit RAM, so that swap-outs happen, and two threads. Thread and chunk identities are symmetric where sizes are equal, and
no run with a liveness property uses symmetry.

| Run | Instance | Shows |
|---|---|---|
| `fatal` | 2 threads, chunks of 2, 1, 1 units, limits 2 and 3, swap 2, `outOfSwapIsFatal`, preemptive swap-out | types, accounts, transfers, use counts, waits, no stale copies, edges of the status graph, object store |
| `waiting` | 2 threads, chunks of 2, 1, 1 units, limit 3, swap 2, not fatal, preemptive swap-out, handles load immediately | with the default handles: pins and waits; what is not on its way out keeps within the limit |
| `live` | 2 threads, 2 chunks, 1 unit of RAM, 1 of swap, 3 and 2 requests, handles load immediately | calls return, transfers are completed, also those without a user, the mutex is given up; object store |
| `live_waiting` | as `live`, not fatal, 2 requests each, handles do not load immediately | violation, see below |
| `eager_free` | 2 threads, 3 chunks, limit 2, swap 2, handles load immediately | violation, see below |
| `eager_threads` | as `eager_free` | violation, see below |
| `page_file` | chunks of 1, 2, 4, 4 bytes, files of 4, one at first and two at most, locations of 2 | maps, chains and accounts of the allocator; swap space |
| `ring` | a thread that uses chunks and one that allocates and frees, one chunk of 18 units and three of 1, 20 units of RAM, 21 of swap, two guesses | the ring stays whole, guesses are counted and bounded, RAM stays within its limit |
| `ring_broken` | as `ring`, one thread | violation, see below |
| `handle` | 2 threads with a handle each, 2 managedPtrs, 2 chunks and an empty one, no handle assigned to itself (`Others`) | trackers, use counts, pointers that stay valid |
| `aio` | 2 threads, a submit worker, a chunk of two parts and one of one | parts and transfers counted, a clean end, everything ends |
| `aio_exit` | 1 thread, 1 chunk of two parts | violation, see below |

Why the bounds are enough. Three chunks are the least with which one chunk can be in use, one
on its way and one wanted; two threads the least with which one polls while the other sleeps;
a second size is what makes the greedy choice, the skipping and `Cleanups` differ from trivial.
RAM smaller than the chunks together, and swap smaller than that or as large, reach the full
swap, the last-resort cleaning of the cache and the exceptions.

Properties. `Accounting` relates the three accounts to the states of all chunks;
`AioDiscipline` ties transfers to status; `PinnedResident` is the promise a pointer relies on,
`PinCount` the counter it rests on; `Coherent` says that no stale copy is ever used;
`SleepersHavePending` that who sleeps or polls has something that will wake him;
`AwaitedChunkComes` that `waitForSwapin` never waits for a chunk that left again;
`NoDoubleFree` that cleaning the cache spares locations about to be freed, which it does not; `StatusGraph`
lists the status changes possible. Compared with `doc/chunkStatusScheme.dot` the code has
three edges more, named in `UndocumentedEdges`: the arrival of a read for a waiting `setUse`
leads to `MEM_ALLOCATED_INUSE_READ` at once, a cached chunk goes from `MEM_ALLOCATED` to
`MEM_SWAPPED`, and `setUse` after a wait resets a `MEM_ALLOCATED_INUSE_WRITE` of another
thread. `Budget` holds with a fixed limit.

In `page_file` a location may not be smaller than 2 bytes, so that rests of one byte become
overhead and longer ones do not; chunks fill a file exactly, share one, and run over its border;
together they are larger than both files, so that the cache has to be cleaned, in time and too
late. `Tiling` says that locations neither overlap nor leak, and that free neighbours are merged,
never over a file border; `Chains` that every location in use is in one chain that ends where its
only `PAGE_END` is; `SwapFreeExact` that `swapFree` is what the maps say, to the byte;
`RoomCounted` that pfmalloc finds the room it counted; `MergesBack` that an empty swap looks as
it did at first.

In `ring` the large chunk and two small ones fill RAM, so that every use of an absent chunk swaps
out and there is room for two guesses of three; one chunk can be freed and allocated again while
the other thread waits in `swapIn`. `GuessesCounted`, `GuessesBounded` and `GuessesInRam` tie
`preemptiveBytes` to the flags of chunks, whichever of `swapIn`, `touch`, `swapOut`, `decay` and
`schedulerDelete` changed them last; `BudgetKept` is the limit on RAM with guesses on top of what
was asked for; `RingKept` says that every step leaves one ring with all chunks and the three
pointers in it, except the two the code gets wrong: a `swapIn` whose walk leaves the swapped
section or reaches `active` (`InSwapped`), and a decay while `active` itself is out of RAM.

In `handle` a tracker counts to 2, the flags of a handle give up to two uses of one chunk, and one
chunk has destructors, for which deleting it needs a use of its own. `RefCounted` and `UseCounted`
relate tracker and use count to all objects alive and to the steps threads have still to take;
`UseCounted` is exact: each use a handle holds, except those a thread has still to set for it, and
each use that will still be unset. `PointersStay` is the promise of a handle, `SpinsAfterFailure`
says when a pull may hang, and `Deleted` that the last managedPtr takes its chunk with it. The
action constraint `Others` leaves out the assignment of a handle to itself (it unsets its uses and
then sets them again), which the theorems include.

In `aio` a transfer of two parts and one of one overlap, two threads wait for one or both, and the
arrive worker competes for `aioWaiterLock`. One submit worker is the default of the code
(`io_submit_num_threads`); with two, and the same properties, TLC visits 300,000 states without
an error. `TransferCounted` says that no part is in two places (`Places`), and relates the tracker of a chunk
to its parts under way (`UnderWay`) and the `copyMem` that queues them, and `total` to all of them
and to those who have still to count one; `ClosedQuiet` says that what `close` frees is needed by nobody;
`Ends` that transfers and the program end.

Fairness (`live`). Strong fairness of each thread's steps: the mutex is taken and released
over and over, and a thread that keeps trying gets it (Linux mutexes give this in practice,
not by contract; with weak fairness no program of this kind terminates). The timed
`io_getevents` returns; the arrive worker keeps polling, every millisecond by its code; the
kernel finishes a transfer that is asked about infinitely often. No fairness of requests or
releases: a program may keep its chunks for ever, and calls return nevertheless, by exception
if need be. In `aio` it is the same: strong fairness for each thread and for the arrive worker, who
compete for the mutex, weak fairness for submit workers and kernel. In `handle` each thread goes
on with an operation it has begun, and a chunk somebody waits for is read and arrives (what
`live` shows of the manager); no operation has to begin.

### What the violations show

* `live_waiting`: with `outOfSwapIsFatal` off, `ensureEnoughSpace` is meant to wait until
  other threads release something (comments at `managedMemory.cpp:205` and `:218`). With no
  transfer queued `checkForAIO` returns true, so `waitForAIO` neither waits nor releases the
  mutex; the loop spins with the mutex held, and nobody can release anything.
* `eager_free`: thread 1 frees a chunk that a handle's `prepareUse` has begun to read in. It has no use,
  so `mfree` takes it, and `pffree` waits with the mutex given up (`managedFileSwap.cpp:894-899`). The read
  completes: the chunk is `MEM_ALLOCATED`, has its location, and is still in `memChunks`. Before
  thread 1 gets the mutex, thread 2 asks for room, finds nothing to swap out and cleans the cache as a last
  resort; `cleanupCachedElements` (`:1379`, "We may safely delete the pageFileLocation") frees that location.
  `pffree` goes on and frees it again: it is merged a second time, or is no location any more. This needs handles
  that load immediately, or guesses; otherwise a chunk `pffree` waits for is on its way out, and never
  among those the cleaning takes.
* `eager_threads`: a bare `prepareUse` does not protect its chunk by `useCnt`. After the wait
  in `ensureEnoughSpace` it only checks that the chunk has not come back; if it came and is on
  its way out again, a read is started on a location being written. `Coherent` and `ImplementsStore` fail
  on the same trace: what comes back may be older than what was written.
* `ring_broken`: after `swapOut` has moved every chunk out, `touch` leaves `counterActive` on a
  chunk still being written; the fix-up at `cyclicManagedMemory.cpp:592` looks for
  `MEM_SWAPPED` only. The next `swapIn` walks over a chunk in RAM, which is `active`, and inserts
  the stretch before `active` although `active` is in it: elements are not reached any more.
* `aio_exit`: `closeSwap` and the destructor call `waitForCleanExit` without the mutex, against
  the rule for whoever changes a status. If `checkForAIO` has to wait, it unlocks the mutex, even if another
  thread holds it, and comes back with it locked: `linearMfree`, in the thread that has the
  mutex already, or the arrive worker `close` wants to join, waits for ever. TLC finds this as a
  violation of `Ends` without its premise `mutex # u`. Taking the mutex before, as the tests do,
  does not cure all of it: while the arrive worker is in its timed wait, `checkForAIO` returns at
  once, `waitForCleanExit` asks again with the mutex held, and the worker needs the mutex to go on.

More, not kept as runs:

* with immediate loading, `mfree` of a chunk in `MEM_SWAPIN` never takes its bytes off
  `memory_used`, so `Accounting` fails in the instance of `live`, and is not among its properties;
* with the default handles `PinnedResident`, `PinCount`, `AwaitedChunkComes` and
  `SleepersHavePending` are proved (section 4; all but `PinCount` also in `waiting`). In the instance of
  `eager_free` `AioDiscipline`, `NoDoubleFree`, `Accounting`,
  `StatusGraph` (from `MEM_SWAPOUT` to `MEM_SWAPIN`), `Coherent` and `ImplementsStore` fail. The smaller one of
  `live`, where these steps do not all fit in, keeps `ImplementsStore`, and so does one thread
  alone on chunks of two sizes;
* `StatusGraph` fails against the documented edges alone;
* pfmalloc throws "Out of swap space" if cleaning has freed exactly what was missing
  (`CleanedUp`), with the mutex held;
* `Budget` fails when the limit is lowered (sizes 2, 1, 1, limits 1 and 5, swap 5): `swapOut` counts
  a chunk twice when another is in deletion, and `setMemoryLimit` reports a limit it has not
  made room for;
* `NoWrap` fails in `PageFile` with chunks of 1, 2, 3 bytes (`SmallSizes`) in files of 5: overhead is taken off
  `swapFree` without a look, and between two parts of a deletion there is more in `free_space`
  than `swapFree` counts. `swapFree` wraps until the deletion is over, and `swapOut` believes that
  there is room for anything. It takes a swap without DMA: in units of 512 bytes there is no
  overhead;
* `SpinsAfterFailure` and `PointersStay` fail in `HandleProtocol` if two threads pull from one handle (`User <-
  Together`): the loser of the compare-and-swap locks the mutex and spins for a chunk that is
  `MEM_SWAPPED`, while the winner, who would have it read, waits for the mutex. The comment at
  `managedPtr.h:351` has it "burn a little bit of power". The documentation of `adhereTo`
  (`:381`) forbids the sharing; `tests/testAdhereTo.cpp:175` does it nevertheless, with a chunk that is in RAM;
* of the conditions of `checkCycle`, those on the three sections of the ring (what is in RAM,
  what is not) fail even with one thread; `RingWhole` has those on the ring itself.

## 4. The proofs

For every finite number of threads and chunks, every size, limit and swap size, with tlapm (SMT
and Zenon; PTL for the temporal steps).

In `ManagedMemory_proofs`:

* `TypesAndPins`: `Spec => [](TypeOK /\ PinCount)`, under every policy. The inductive
  invariant `TypeInv` adds `CallDiscipline`: at which place of its code a call of which kind
  can be, and that it has a chunk exactly if its kind needs one. Without it `PinCount` is not
  inductive: what `AwaitSwapIn` grants must be what the call counted.
* `Safety`: `Spec => [](PinnedResident /\ AwaitedChunkComes /\ SleepersHavePending)`, under every
  policy and also for handles that load immediately. The invariant `SafeInv` has a part for every
  chunk (`ChunkOK`: transfer, location, ring and users by status), a part for every call (`CallOK`:
  what a wait may rely on), `Exclusive` (a chunk being created or deleted belongs to one call)
  and `SleepersHavePending`. Some conjuncts of `ChunkOK` and `CallOK` hold only if no handle loads
  immediately, and are stated so: that a chunk has no transfer but the one its status names, that one being
  read has a user (which makes it arrive in use), and that one being deleted is on its way out or out. The argument for a
  wait is `Harmless`: what any step of another thread can do to a chunk somebody waits for. That
  the invariant always holds is `AlwaysSafe`, from which the theorems here follow.
* `TransfersAgree`: `Spec => []AioDiscipline` if handles do not load immediately, the assumption
  `eager_threads` shows to be needed.

* `StatusOnEdges`: `Spec => StatusGraph`, under the same assumption. For each action, one lemma says
  which status changes it can make; after a wait it is `CallOK` that bounds the status
  a call can find, for instance that `AwaitSwapIn` finds its chunk in RAM or coming.

In `ManagedMemoryEffects_proofs`, all if handles do not load immediately: with immediate loading
`Accounting` is false (section 3), and transfers without a user make the status of a chunk
unpredictable for whoever waits. The control is left to the module above: `NextEffect` reduces every
step to one of a few effects on chunks, accounts and copies, and each property is proved effect by
effect.

* `Accounts`: `Spec => []Accounting`. The accounts are sums of sizes, and each effect moves one chunk
  into or out of the sets summed over; the lemmas on `Bytes` turn that into arithmetic. What may be
  subtracted is known from `SafeInv`: a chunk completed, skipped or deleted is in the set it is taken
  from.
* `WithinBudget`: `Spec => []Budget`, if `MemoryLimits` is the initial limit alone, and
  `GrowthWithinLimit`, without that assumption: a step that books RAM ends within the limit of that
  moment. That `Budget` itself does not survive a lower limit is a counterexample TLC gives.
* `NothingLost`: `Spec => []Coherent`. `CopiesOK` is the inductive part: the copy that counts in each
  status is fresh, and a chunk has a location wherever its copy lies there.
* `Refinement`: `Spec => ImplementsStore`, step by step: creation, deletion, grants and releases map
  to those of the store, transfers that complete to `Load`, what is written out or dropped to `Evict`,
  everything else to a stutter; that `intact` is `live` in every state comes from `CopiesOK`.

In `AioTransfer_proofs`, for any number of threads, workers, chunks and parts:

* `ProcessedAlone`: `Spec => [](WaiterWorks /\ (~ Closing => ProcessesUnderMutex))`: only the holder of
  `aioWaiterLock` has events, and until somebody ends the program he processes them with the
  mutex held. The invariant `Inv` says more: who is where in the code that needs the mutex has it
  (`Guarded`), and whose chunk fits his place (`Busy`), by which one who works for
  `waitForCleanExit` is told from the others. Every action is an instance of four relations
  (`Moves`, `KeepsChunk`, `KeepsWaiter`, `KeepsMutex`) that together keep the invariant
  (`StepKeeps`). The premise `~ Closing` is what `aio_exit` shows to be needed.

In `AioTransferCount_proofs`, also at the end of the program:

* `PartsCounted`: `Spec => [](TypeOK /\ TransferCounted /\ ClosedQuiet)`. The invariant `Books` adds to
  `Inv`: `Ways`, the parts under way have one place each, taken parts one taker; `Ledger`, the two
  counters; `CopyOrder`, one `copyMem` moves a chunk and comes only to parts it has not queued, without
  which a part could be queued twice; `TimedForPart`, who waits in `io_getevents` waits for something;
  `Alone`, who ends the program has no call of another beside him; `Through` and `FreedBy`, that
  what `close` frees is freed by one who has seen `total` at zero and stays at zero.

In `HandleProtocol_proofs` and `HandleProtocolCount_proofs`, for any number of threads, managedPtrs,
handles and chunks, with chunks that fail, have destructors or are empty (`HandleAssumption`: finite
sets, distinct names):

* `TypeCorrect`: `Spec => []TypeOK`; a use count never gets negative.
* `ReferencesCounted`: `Spec => []RefCounted`: trackers are exact, what is referred to is there, and
  `mDelete` deletes something that is there and not in use.
* `UsesCounted`: `Spec => []UseCounted`: use counts are exact, also for handles that threads share, for
  one assigned to itself, and after a setUse that threw.
* `PointersRemain`: `Spec => PointersStay`, and `SpinsOnlyAfterFailure`: `Spec => []SpinsAfterFailure`,
  if no two threads pull from one handle (`OneUser`, which the documentation of `adhereTo` demands and
  without which TLC refutes both, section 3).

The invariant has three layers. `Struct` says what is left to be done: which steps may be in `todo`
in which order and what each relies on (`Planned`, with `SetOK`, `UnsetOK`, ... for each kind of step),
that objects worked on are kept apart except for pulls (`Apart`), that handles are on living
managedPtrs (`Anchored`), that a chunk is deleted by one thread (`DeletedOnce`) and a flag set by one
(`SetOnce`), and the trackers (`Referred`). A step of another thread is `Harmless` to what a thread
relies on. `UseCounted` is inductive on top of it: each action changes `Held` and `Owed` by as much as
the count (`Balance`), what is owed being numbered from the end of `todo`, so that a step taken leaves
the rest as it is. `InUse` ties the status to the count; with it a chunk with a use is neither evicted
nor deleted. The last layer (`UserInv`) is for handles with one user: a handle that has given out a
pointer has a use that is set, and a use that was granted keeps its chunk in RAM (`Uses`); who
pulls is the user (`UserPulls`); who has the mutex for ever spins for a handle that has failed
(`Spinning`). TLC has checked it on the instance of `handle` before the proof.

In `PageFile_proofs`, for any number of chunks and files, any sizes and any alignment, also those for
which `swapFree` wraps (its arithmetic stays modulo `Modulus`):

* `PageInvariant`: `Spec => []PageInv`, the inductive invariant all others follow from. `Layout` is about
  the map alone: locations follow each other without a gap that could hold one, every file begins with
  one, and no two free ones are neighbours in a file (`TileOK`, said of each location and the one that
  `Follows` it, so that allocating, freeing and extending change it at one place). `Owners` gives each
  location that is not free one chunk and one place of its chain. `Whole` says that a chunk has all its
  bytes unless it is being freed, `Working` what `op` may be doing to whom, `Exact` what `swapFree` is
  worth. None of this is enough for pfmalloc: `Promised` is, that what is free and what the chunk being
  cleaned still has to give make up what pfmalloc saw when it began, and it is what makes the free list
  long enough when it comes to allocate.
* From it `PageFileTypes` (`TypeOK`), `PageFileTiling` (`Tiling`), `PageFileChains` (`Chains`),
  `PageFileExact` (`SwapFreeExact`) and `PageFileRoom` (`RoomCounted`). `PageFileMergesBack`
  (`MergesBack`): what is free is one block per file once nothing is owned, since the first location of a
  file has no free neighbour and ends where the file does.
* `PageFileImplementsSwapSpace`: `Spec => ImplementsSwapSpace`. A step leaves the chains alone, grows the
  swap, or gives a location to a chunk or takes one from it (`Moves`); that the bytes of the locations of
  a chain are as many as its chunk needs (`BytesCount`) turns sums over locations into sets of bytes.

  The lemmas below these: offsets and multiples of the alignment, sums of weights (`Total`), what
  allocating (`AllotsTiles`), merging (`MergesTiles`) and extending (`ExtendedTiles`) make of a tiled map,
  and one lemma per action.

In `CyclicRing_proofs`, for any number of threads and chunks, any sizes and limits, and threads that use
chunks as well as allocate and free them, which the run keeps apart:

* `RingInvariant`: `Spec => []RingInv`, from which the other three follow: `RingTypes` (`TypeOK`),
  `RingBudget` (`BudgetKept`) and `RingGuesses` (`GuessesInRam`). The budget is the hard one: `swapIn` may
  give up the mutex in `ensureEnoughSpace`, and what it found out before is worth nothing then. So
  `ThreadOK` says what each thread may rely on at which place of its call: that the chunk it uses or
  waits for is in the ring, that a chunk being allocated or freed is its own, that it has the mutex
  and room for the chunk where it is about to read it alone. `Counted` (each use counted has its user)
  keeps a chunk somebody waits for out of the walks of `swapOut` and `decay` and away from `mfree`;
  `Marked` says that cached locations are for chunks in RAM, and flags for those of them that are not being deleted, and
  `EmptyRing` that who finds nothing to swap out throws.
* Below it: walks along `prev` and `next` stay in a ring that is whole (`BackwardsIn`, `StretchIn`), so
  that what `swapOut` and `decay` pick is in RAM and unused (`SwapOutWalkIs`, `DecayWalkIs`), and what
  `swapIn` picks is swapped and fits in memory, guesses included (`WalkBackIs`); `filterChain`,
  `insertBefore`, `schedulerRegister`, `schedulerDelete`, `touch` and the three reorderings lead from a
  state of the scheduler to one, with known flags (`Leads`); one lemma per action.

The layout: lemmas on data (`Bytes`, sequences of steps, sets of uses), on the pieces of actions, one
lemma per action for each part of an invariant, then initial state, step and theorem. The
assumptions are those of `ConstantsAssumption`, `AioAssumption`, `HandleAssumption`,
`PageFileAssumption` and `RingAssumption` (sizes positive, finitely many threads and chunks, distinct
names, a swap that has room for all chunks of `CyclicRing`), which the runs evaluate.

Only model-checked:

* of `CyclicRing`, `GuessesCounted`, `GuessesBounded` and `RingKept`. The first subtracts in `decay` what
  the walk from `preemptiveStart` to `active` has picked, so it needs that all in that section is
  flagged; the second needs the first; the third is about the order of the whole ring through
  `filterChain`. All need an invariant on the order of the three sections, which does not hold
  as `checkCycle` states it (section 3); a weaker one that is inductive remains to be found;
* with handles that load immediately, `Budget` (`waiting`) and `ImplementsStore` (`live`, a small instance):
  their theorems assume that no handle does;
* liveness (`CallsReturn`, `TransfersComplete`, `MutexReleased`, `Ends`, `Deleted`): fairness needs ENABLED,
  which is out of the prover's reach.

## 5. What is left

An inductive invariant on the sections of the ring, for the three properties of `CyclicRing` above.

Not modelled, and why: the configuration (sequential parsing of text before there are threads;
its defects would be in strings); the dummy swap and the dummy manager (every call one step);
the C interface and the generic pointers (the same calls as those modelled); `mrealloc` (it
throws at once); PARENTAL_CONTROL (off by default); the Windows emulation (other build);
statistics and timers (nothing reads them back).

## 6. Running it

    tlc -workers 2 -config MCFatal.cfg MCManagedMemory.tla
    tlc -workers 2 -config MCEagerFree.cfg MCManagedMemory.tla
    tlc -workers 2 -config MCLive.cfg MCManagedMemoryLive.tla
    tlc -workers 2 -config MCPageFile.cfg MCPageFile.tla
    tlc -workers 2 -config MCCyclicRing.cfg MCCyclicRing.tla
    tlc -workers 2 -config MCHandleProtocol.cfg MCHandleProtocol.tla
    tlc -workers 2 -config MCAioTransfer.cfg MCAioTransfer.tla
    tlapm ManagedMemory_proofs.tla
    tlapm ManagedMemoryEffects_proofs.tla
    tlapm AioTransfer_proofs.tla
    tlapm AioTransferCount_proofs.tla
    tlapm HandleProtocol_proofs.tla
    tlapm HandleProtocolCount_proofs.tla
    tlapm PageFile_proofs.tla
    tlapm CyclicRing_proofs.tla

`PROJECT.json` lists runs, the lines each definition models, and for each property of a
passing run a mutant of the model that violates it (the operators commented "Mutation", "Mutant" or "A mutant").
