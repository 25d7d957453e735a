---------------------------- MODULE AioTransfer ----------------------------
(***************************************************************************)
(* How the file swap moves a chunk: copyMem cuts the transfer into the     *)
(* parts of the chunk's chain of locations, a pool of threads hands them   *)
(* to the kernel (io_submit_worker), and whoever calls checkForAIO takes   *)
(* the events back: a thread that waits for its chunk, the arrive worker,  *)
(* or waitForCleanExit.  A tracker counts the parts of one transfer,       *)
(* totalSwapActionsQueued all of them; the last part completes the chunk.  *)
(* closeSwap waits for the transfers, frees what they use and stops the    *)
(* workers.                                                                *)
(*                                                                         *)
(* `mutex' is stateChangeMutex.  An unlock frees it whoever holds it, as   *)
(* the pthread mutex of the build does (of the default kind).              *)
(***************************************************************************)
EXTENDS Integers, FiniteSets, Sequences

CONSTANTS
    User,       \* threads of the program
    Arriver,    \* the thread of io_arrrive_worker
    Worker,     \* the threads of io_submit_worker
    NoThread,
    Chunk,
    Parts,      \* how many locations the chain of a chunk has
    Null        \* the NULL that ends a worker; no request; no chunk

Part   == UNION {{c} \X (1..Parts[c]) : c \in Chunk}
Thread == User \cup {Arriver}

ASSUME AioAssumption ==
    /\ IsFiniteSet(User) /\ IsFiniteSet(Worker) /\ Worker # {} /\ IsFiniteSet(Chunk)
    /\ Arriver \notin User /\ Worker \cap Thread = {} /\ NoThread \notin Thread
    /\ Null \notin Chunk \cup (Chunk \X Nat)
    /\ Parts \in [Chunk -> Nat \ {0}]

VARIABLES
    status,     \* managedMemoryChunk::status
    tracker,    \* the counter of the parts of a transfer
    total,      \* totalSwapActionsQueued
    requests,   \* io_submit_requests
    held,       \* per submit worker: the request it has taken
    kernel,     \* parts the kernel works on
    events,     \* parts the kernel has finished
    taken,      \* per thread: aio_eventarr, as far as it is not processed
    mutex,      \* who holds stateChangeMutex
    waiter,     \* who holds aioWaiterLock
    working,    \* io_arrive_work
    freed,      \* whether close has freed the event array and the locations
    pc, chunk   \* per thread: where it is, and the chunk it moves

transfers == <<status, tracker, total>>
queues    == <<requests, held, kernel, events>>
vars == <<transfers, queues, taken, mutex, waiter, working, freed, pc, chunk>>

Moving == {"SWAPIN", "SWAPOUT"}

Init ==
    /\ status = [c \in Chunk |-> "ALLOCATED"]
    /\ tracker = [c \in Chunk |-> 0] /\ total = 0
    /\ requests = <<>> /\ held = [w \in Worker |-> Null]
    /\ kernel = {} /\ events = {}
    /\ taken = [t \in Thread |-> {}]
    /\ mutex = NoThread /\ waiter = NoThread
    /\ working = TRUE /\ freed = FALSE
    /\ pc = [t \in Thread \cup Worker |-> "idle"]
    /\ chunk = [t \in User |-> Null]

Goto(t, p) == pc' = [pc EXCEPT ![t] = p]

\* A thread that runs under the mutex, and what it may do without it.
Locks(t, p, q) == pc[t] = p /\ mutex = NoThread /\ mutex' = t /\ Goto(t, q)
-----------------------------------------------------------------------------
(* completeTransactionOn wakes all who sleep on swappingCond.              *)

Completed(c) == [status EXCEPT ![c] = IF @ = "SWAPIN" THEN "ALLOCATED" ELSE "SWAPPED"]
Awake(p) == [t \in DOMAIN p |-> IF p[t] = "sleep" THEN "wake" ELSE p[t]]

\* A mutant: the last part but one completes the transfer.
CountedEarly(t, c, next) ==
    LET p == [pc EXCEPT ![t] = next]
    IN  /\ tracker' = [tracker EXCEPT ![c] = @ - 1]
        /\ IF tracker[c] = 2 THEN status' = Completed(c) /\ pc' = Awake(p)
           ELSE UNCHANGED status /\ pc' = p

\* One less on the tracker; the last one completes the transfer.
Counted(t, c, next) ==
    LET p == [pc EXCEPT ![t] = next]
    IN  /\ tracker' = [tracker EXCEPT ![c] = @ - 1]
        /\ IF tracker[c] = 1 THEN status' = Completed(c) /\ pc' = Awake(p)
           ELSE UNCHANGED status /\ pc' = p
-----------------------------------------------------------------------------
(* swapIn and swapOut: copyMem, part by part, all under the mutex.         *)

Closing == \E u \in User : pc[u] # "idle" /\ chunk[u] = Null
Cur(t)  == chunk[t][1]

Begin(t) ==
    \E c \in Chunk :
        /\ Locks(t, "idle", "copy") /\ ~ Closing /\ status[c] \notin Moving
        /\ status' = [status EXCEPT ![c] = IF @ = "ALLOCATED" THEN "SWAPOUT" ELSE "SWAPIN"]
        /\ tracker' = [tracker EXCEPT ![c] = 1] /\ total' = total + 1
        /\ chunk' = [chunk EXCEPT ![t] = <<c, 1>>]
        /\ UNCHANGED <<queues, taken, waiter, working, freed>>

\* A mutant: totalSwapActionsQueued does not count the parts.
ScheduleCopyUncounted(t) ==
    /\ pc[t] = "copy" /\ chunk[t] \in Part
    /\ tracker' = [tracker EXCEPT ![Cur(t)] = @ + 1] /\ UNCHANGED total
    /\ requests' = Append(requests, chunk[t])
    /\ chunk' = [chunk EXCEPT ![t] = <<@[1], @[2] + 1>>]
    /\ UNCHANGED <<status, held, kernel, events, taken, mutex, waiter, working, freed, pc>>

ScheduleCopy(t) ==
    LET c == Cur(t) IN
    /\ pc[t] = "copy" /\ chunk[t] \in Part
    /\ tracker' = [tracker EXCEPT ![c] = @ + 1] /\ total' = total + 1
    /\ requests' = Append(requests, chunk[t])
    /\ chunk' = [chunk EXCEPT ![t] = <<@[1], @[2] + 1>>]
    /\ UNCHANGED <<status, held, kernel, events, taken, mutex, waiter, working, freed, pc>>

Copied(t) ==
    /\ pc[t] = "copy" /\ chunk[t] \notin Part
    /\ total' = total - 1 /\ Counted(t, Cur(t), "await")
    /\ UNCHANGED <<queues, taken, mutex, waiter, working, freed, chunk>>

\* Another thread, or the same one later, comes to wait for a chunk that is moving.
Join(t) ==
    \E c \in Chunk :
        /\ Locks(t, "idle", "await") /\ ~ Closing /\ status[c] \in Moving
        /\ chunk' = [chunk EXCEPT ![t] = <<c, Parts[c] + 1>>]
        /\ UNCHANGED <<transfers, queues, taken, waiter, working, freed>>

\* It waits on, or leaves: not every call waits for the transfer it started.
Await(t) ==
    /\ pc[t] = "await"
    /\ \/ status[Cur(t)] \in Moving /\ Goto(t, "check") /\ UNCHANGED <<mutex, chunk>>
       \/ Goto(t, "idle") /\ mutex' = NoThread /\ chunk' = [chunk EXCEPT ![t] = Null]
    /\ UNCHANGED <<transfers, queues, taken, waiter, working, freed>>
-----------------------------------------------------------------------------
(* checkForAIO, of whoever calls it.  Only the holder of aioWaiterLock     *)
(* asks for events; without any it gives the mutex up until the timeout.   *)

Return(t) == IF t = Arriver THEN "unlock" ELSE IF chunk[t] = Null THEN "clean" ELSE "await"

\* Somebody else is at it.  waitForAIO sleeps on swappingCond then.
Occupied(t) ==
    /\ pc[t] = "check" /\ waiter # NoThread
    /\ IF Return(t) = "await" THEN Goto(t, "sleep") /\ mutex' = NoThread
       ELSE Goto(t, Return(t)) /\ UNCHANGED mutex
    /\ UNCHANGED <<transfers, queues, taken, waiter, working, freed, chunk>>

NothingQueued(t) ==
    /\ pc[t] = "check" /\ waiter = NoThread /\ total = 0
    /\ Goto(t, Return(t))
    /\ UNCHANGED <<transfers, queues, taken, mutex, waiter, working, freed, chunk>>

GetEvents(t) ==
    /\ pc[t] = "check" /\ waiter = NoThread /\ total # 0 /\ waiter' = t
    /\ taken' = [taken EXCEPT ![t] = events] /\ events' = {}
    /\ IF events # {} THEN Goto(t, "work") /\ UNCHANGED mutex
       ELSE Goto(t, "timed") /\ mutex' = NoThread
    /\ UNCHANGED <<transfers, requests, held, kernel, working, freed, chunk>>

\* io_getevents returns with some events, or none when its time is up; more may come
\* until the mutex is there.  A call that a signal interrupts tries again.
GetEventsTimed(t) ==
    /\ Locks(t, "timed", "work")
    /\ \E some \in SUBSET events : /\ taken' = [taken EXCEPT ![t] = some]
                                   /\ events' = events \ some
    /\ UNCHANGED <<transfers, requests, held, kernel, waiter, working, freed, chunk>>

\* A mutant: the part is counted here and once more at the end.
AsyncIoArrivedTwice(t) ==
    \E p \in taken[t] :
        /\ pc[t] = "work"
        /\ taken' = [taken EXCEPT ![t] = @ \ {p}]
        /\ Counted(t, p[1], "count") /\ total' = total - 1
        /\ UNCHANGED <<queues, mutex, waiter, working, freed, chunk>>

AsyncIoArrived(t) ==
    \E p \in taken[t] :
        /\ pc[t] = "work"
        /\ taken' = [taken EXCEPT ![t] = @ \ {p}]
        /\ Counted(t, p[1], "count")
        /\ UNCHANGED <<total, queues, mutex, waiter, working, freed, chunk>>

\* The last line of asyncIoArrived: closeSwap reads totalSwapActionsQueued without a lock.
CountArrived(t) ==
    /\ pc[t] = "count" /\ Goto(t, "work") /\ total' = total - 1
    /\ UNCHANGED <<status, tracker, queues, taken, mutex, waiter, working, freed, chunk>>

\* A mutant: returns without unlocking aioWaiterLock.
CheckedLocked(t) ==
    /\ pc[t] = "work" /\ taken[t] = {} /\ Goto(t, Return(t))
    /\ UNCHANGED <<transfers, queues, taken, mutex, waiter, working, freed, chunk>>

Checked(t) ==
    /\ pc[t] = "work" /\ taken[t] = {} /\ Goto(t, Return(t)) /\ waiter' = NoThread
    /\ UNCHANGED <<transfers, queues, taken, mutex, working, freed, chunk>>

WakeUp(t) ==
    /\ Locks(t, "wake", "await")
    /\ UNCHANGED <<transfers, queues, taken, waiter, working, freed, chunk>>

CheckForAIO(t) ==
    \/ Occupied(t) \/ NothingQueued(t) \/ GetEvents(t) \/ GetEventsTimed(t)
    \/ AsyncIoArrived(t) \/ CountArrived(t) \/ Checked(t)
-----------------------------------------------------------------------------
(* io_arrrive_worker: every millisecond, as long as something is queued.   *)

Poll ==
    /\ pc[Arriver] = "idle"
    /\ IF working THEN total > 0 /\ Goto(Arriver, "lock") ELSE Goto(Arriver, "stopped")
    /\ UNCHANGED <<transfers, queues, taken, mutex, waiter, working, freed, chunk>>

Lock ==
    /\ Locks(Arriver, "lock", "check")
    /\ UNCHANGED <<transfers, queues, taken, waiter, working, freed, chunk>>

Unlock ==
    /\ pc[Arriver] = "unlock" /\ Goto(Arriver, "idle") /\ mutex' = NoThread
    /\ UNCHANGED <<transfers, queues, taken, waiter, working, freed, chunk>>
-----------------------------------------------------------------------------
(* io_submit_worker, and the kernel.                                       *)

Pop(w) ==
    /\ pc[w] = "idle" /\ held[w] = Null /\ requests # <<>>
    /\ requests' = Tail(requests)
    /\ IF Head(requests) = Null THEN Goto(w, "stopped") /\ UNCHANGED held
       ELSE held' = [held EXCEPT ![w] = Head(requests)] /\ UNCHANGED pc
    /\ UNCHANGED <<transfers, kernel, events, taken, mutex, waiter, working, freed, chunk>>

\* io_submit is repeated until the kernel takes the request.
Submit(w) ==
    /\ held[w] # Null
    /\ kernel' = kernel \cup {held[w]} /\ held' = [held EXCEPT ![w] = Null]
    /\ UNCHANGED <<transfers, requests, events, taken, mutex, waiter, working, freed, pc, chunk>>

Transferred(p) ==
    /\ p \in kernel /\ kernel' = kernel \ {p} /\ events' = events \cup {p}
    /\ UNCHANGED <<transfers, requests, held, taken, mutex, waiter, working, freed, pc, chunk>>
-----------------------------------------------------------------------------
(* The end: waitForCleanExit, which ~managedMemory and closeSwap call      *)
(* without the mutex; linearMfree, which takes it to free what is left     *)
(* (closeSwap frees nothing); close.                                       *)

Exit(t) ==
    /\ \A u \in User : pc[u] = "idle"
    /\ Goto(t, "clean")
    /\ UNCHANGED <<transfers, queues, taken, mutex, waiter, working, freed, chunk>>

WaitForCleanExit(t) ==
    /\ pc[t] = "clean"
    /\ IF total # 0 THEN Goto(t, "check") ELSE \E p \in {"mfree", "close"} : Goto(t, p)
    /\ UNCHANGED <<transfers, queues, taken, mutex, waiter, working, freed, chunk>>

LinearMfree(t) ==
    /\ pc[t] = "mfree" /\ mutex = NoThread /\ Goto(t, "close")
    /\ UNCHANGED <<transfers, queues, taken, mutex, waiter, working, freed, chunk>>

CloseFiles(t) ==
    /\ pc[t] = "close" /\ Goto(t, "stop") /\ freed' = TRUE
    /\ UNCHANGED <<transfers, queues, taken, mutex, waiter, working, chunk>>

StopWorkers(t) ==
    /\ pc[t] = "stop" /\ Goto(t, "join") /\ working' = FALSE
    /\ requests' = requests \o [w \in 1..Cardinality(Worker) |-> Null]
    /\ UNCHANGED <<transfers, held, kernel, events, taken, mutex, waiter, freed, chunk>>

Joined(t) ==
    /\ pc[t] = "join" /\ \A w \in Worker \cup {Arriver} : pc[w] = "stopped"
    /\ Goto(t, "closed")
    /\ UNCHANGED <<transfers, queues, taken, mutex, waiter, working, freed, chunk>>

Close(t) == LinearMfree(t) \/ CloseFiles(t) \/ StopWorkers(t) \/ Joined(t)

\* The program has ended, or waits for the mutex waitForCleanExit has left it with.
Ended ==
    /\ \E u \in User : pc[u] = "closed" \/ (pc[u] \in {"mfree", "join"} /\ mutex = u)
    /\ UNCHANGED vars
-----------------------------------------------------------------------------
\* What a user's thread does by itself, once it has called.
Continue(t) == \/ ScheduleCopy(t) \/ Copied(t) \/ Await(t) \/ CheckForAIO(t)
               \/ WaitForCleanExit(t) \/ Close(t)
Arrive == Poll \/ Lock \/ CheckForAIO(Arriver) \/ Unlock

Next ==
    \/ \E t \in User : Begin(t) \/ Join(t) \/ WakeUp(t) \/ Exit(t) \/ Continue(t)
    \/ Arrive
    \/ \E w \in Worker : Pop(w) \/ Submit(w)
    \/ \E p \in Part : Transferred(p)
    \/ Ended

\* Every thread is scheduled, and one that wants the mutex again and again gets it at
\* last; the kernel finishes each transfer.  Nobody has to call.
Fairness ==
    /\ \A t \in User : SF_vars(Continue(t))
    /\ SF_vars(Arrive)
    /\ \A w \in Worker : WF_vars(Pop(w) \/ Submit(w))
    /\ \A p \in Part : WF_vars(Transferred(p))

Spec == Init /\ [][Next]_vars /\ Fairness
-----------------------------------------------------------------------------
TypeOK ==
    /\ status \in [Chunk -> Moving \cup {"ALLOCATED", "SWAPPED"}]
    /\ tracker \in [Chunk -> Nat] /\ total \in Nat
    /\ requests \in Seq(Part \cup {Null}) /\ held \in [Worker -> Part \cup {Null}]
    /\ kernel \subseteq Part /\ events \subseteq Part /\ taken \in [Thread -> SUBSET Part]
    /\ {mutex, waiter} \subseteq Thread \cup {NoThread}
    /\ {working, freed} \subseteq BOOLEAN
    /\ pc \in [Thread \cup Worker ->
                 {"idle", "copy", "await", "sleep", "wake", "check", "timed", "work", "count",
                  "lock", "unlock", "stopped", "clean", "mfree", "close", "stop", "join", "closed"}]
    /\ chunk \in [User -> {Null} \cup (Chunk \X Nat)]

\* Where part p of a transfer is, on its way: in the queue of the workers, with a worker,
\* with the kernel, among the events, or with a thread that has taken it from there.
Places(p) ==
         {"queue"}  \X {i \in DOMAIN requests : requests[i] = p}
    \cup {"worker"} \X {w \in Worker : held[w] = p}
    \cup {"kernel"} \X ({p} \cap kernel)
    \cup {"events"} \X ({p} \cap events)
    \cup {"taken"}  \X {t \in Thread : p \in taken[t]}

UnderWay == {p \in Part : Places(p) # {}}

Copying(c) == {t \in User : pc[t] = "copy" /\ Cur(t) = c}

\* No part is under way twice, and a chunk is moving exactly as long as a part of it is
\* under way or yet to be queued: the tracker neither completes it early, with parts the
\* kernel still writes, nor twice (completeTransactionOn throws then).
\* totalSwapActionsQueued counts every part under way, every copyMem that goes on, and a
\* part that has arrived until the last line of asyncIoArrived.
TransferCounted ==
    /\ \A p \in Part : \A x, y \in Places(p) : x = y
    /\ \A c \in Chunk :
          /\ tracker[c] = Cardinality({p \in UnderWay : p[1] = c}) + Cardinality(Copying(c))
          /\ status[c] \in Moving <=> tracker[c] > 0
    /\ total = Cardinality(UnderWay) + Cardinality({t \in User : pc[t] = "copy"})
               + Cardinality({t \in Thread : pc[t] = "count"})

\* Once close has freed the event array and the locations, and closed the files, no part
\* is left that a worker, the kernel or a thread with events would use them for, nobody
\* is about to ask for events, and only the NULLs that end the workers are queued.
ClosedQuiet ==
    freed => /\ UnderWay = {} /\ \A c \in Chunk : status[c] \notin Moving
             /\ \A t \in Thread : pc[t] \notin {"copy", "timed", "count"}
             /\ \A i \in DOMAIN requests : requests[i] = Null

\* Every transfer is completed, whether or not somebody waits for it.  A program that
\* ends with its transfers complete gets through, unless waitForCleanExit has left it the
\* mutex: it sees the last part counted, linearMfree gets the mutex, all workers stop.
Ends ==
    /\ \A c \in Chunk : status[c] \in Moving ~> status[c] \notin Moving
    /\ \A u \in User :
          pc[u] = "clean" /\ mutex # u /\ (\A c \in Chunk : status[c] \notin Moving)
             ~> pc[u] = "closed"

\* Whoever processes an event holds stateChangeMutex: completeTransactionOn changes the
\* status of the chunk and the accounts of the manager.
ProcessesUnderMutex == \A t \in Thread : pc[t] = "work" /\ taken[t] # {} => mutex = t
=============================================================================
