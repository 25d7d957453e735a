------------------------- MODULE AioTransfer_proofs -------------------------
(***************************************************************************)
(* Proofs about AioTransfer, for any number of threads, workers, chunks    *)
(* and parts: who processes events, and under which locks.                 *)
(***************************************************************************)
EXTENDS AioTransfer, TLAPS

\* Where a thread runs code that must hold stateChangeMutex, ...
Inside == {"copy", "await", "check", "work", "count", "unlock"}

\* ... where it has taken aioWaiterLock, and where it is the one that ends the program.
Processing == {"timed", "work", "count"}
AtEnd      == {"clean", "mfree", "close", "stop", "join", "closed"}

PerThread(f) == f = [u \in Thread \cup Worker |-> f[u]]

Typed ==
    /\ PerThread(pc) /\ DOMAIN pc = Thread \cup Worker
    /\ chunk \in [User -> {Null} \cup (Chunk \X Nat)]
    /\ taken \in [Thread -> SUBSET Part]
    /\ events \subseteq Part

\* A thread of the program works on a chunk, unless it is idle or ends the program.
Busy ==
    \A u \in User : /\ pc[u] \in {"copy", "await", "sleep", "wake"} => chunk[u] # Null
                    /\ pc[u] \in {"idle"} \cup AtEnd => chunk[u] = Null
                    /\ pc[u] \notin {"lock", "unlock"}

\* Whoever processes events has aioWaiterLock, and only he has events.
WaiterWorks ==
    \A t \in Thread : /\ pc[t] \in Processing => waiter = t
                      /\ taken[t] # {} => pc[t] \in {"work", "count"}

\* Until somebody ends the program, whoever is inside holds the mutex.
Guarded == ~ Closing => \A t \in Thread : pc[t] \in Inside => mutex = t

Inv == Typed /\ Busy /\ WaiterWorks /\ Guarded
-----------------------------------------------------------------------------
(* What any step of a thread has to keep to.                               *)

\* Thread t goes to p, and who sleeps on swappingCond may be woken.
Moves(t, p) ==
    /\ PerThread(pc') /\ DOMAIN pc' = Thread \cup Worker /\ pc'[t] = p
    /\ \A u \in (Thread \cup Worker) \ {t} :
          pc'[u] = pc[u] \/ (pc[u] = "sleep" /\ pc'[u] = "wake")

\* The chunk of t fits where t goes, and a thread that ends the program goes on with it.
KeepsChunk(t, p) ==
    /\ chunk' \in [User -> {Null} \cup (Chunk \X Nat)]
    /\ \A u \in User \ {t} : chunk'[u] = chunk[u]
    /\ t \in User => /\ p \in {"copy", "await", "sleep", "wake"} => chunk'[t] # Null
                     /\ p \in {"idle"} \cup AtEnd => chunk'[t] = Null
                     /\ p \notin {"lock", "unlock"}
                     /\ chunk[t] = Null /\ pc[t] # "idle" => chunk'[t] = Null /\ p # "idle"

\* Events and aioWaiterLock are taken and left by t alone.
KeepsWaiter(t, p) ==
    /\ taken' \in [Thread -> SUBSET Part] /\ events' \subseteq Part
    /\ \A u \in Thread \ {t} : taken'[u] = taken[u]
    /\ taken'[t] # {} => p \in {"work", "count"}
    /\ \/ waiter' = waiter /\ (p \in Processing => waiter = t)
       \/ waiter = NoThread /\ waiter' = t
       \/ waiter = t /\ waiter' = NoThread /\ p \notin Processing

\* The mutex is taken when it is free, and given up by its holder.
KeepsMutex(t, p) ==
    \/ mutex' = mutex /\ (p \in Inside => mutex = t)
    \/ mutex = NoThread /\ mutex' = t
    \/ mutex = t /\ mutex' = NoThread /\ p \notin Inside

LEMMA GoMoves ==
    ASSUME Typed, NEW t \in Thread \cup Worker, NEW p
    PROVE  LET q == [pc EXCEPT ![t] = p]
           IN  /\ PerThread(q) /\ DOMAIN q = Thread \cup Worker /\ q[t] = p
               /\ \A u \in (Thread \cup Worker) \ {t} : q[u] = pc[u]
               /\ Goto(t, p) => Moves(t, p)
<1> DEFINE q == [pc EXCEPT ![t] = p]
<1>1. q = [u \in Thread \cup Worker |-> IF u = t THEN p ELSE pc[u]]
  <2>1. DOMAIN pc = Thread \cup Worker
    BY DEF Typed
  <2> QED BY <2>1
<1>2. DOMAIN q = Thread \cup Worker /\ q[t] = p
      /\ \A u \in (Thread \cup Worker) \ {t} : q[u] = pc[u]
  BY <1>1
<1>3. PerThread(q)
  BY <1>1 DEF PerThread
<1>4. Goto(t, p) => pc' = q
  BY DEF Goto
<1> HIDE DEF q
<1>5. Goto(t, p) => Moves(t, p)
  BY <1>2, <1>3, <1>4 DEF Moves
<1> QED BY <1>2, <1>3, <1>5 DEF q

LEMMA GotoMoves ==
    ASSUME Typed, NEW t \in Thread \cup Worker, NEW p, p # "sleep",
           pc' \in {[pc EXCEPT ![t] = p], Awake([pc EXCEPT ![t] = p])}
    PROVE  Moves(t, p)
<1> DEFINE q == [pc EXCEPT ![t] = p]
<1>1. PerThread(q) /\ DOMAIN q = Thread \cup Worker /\ q[t] = p
      /\ \A u \in (Thread \cup Worker) \ {t} : q[u] = pc[u]
  BY GoMoves
<1> HIDE DEF q
<1>3. CASE pc' = q
  BY <1>1, <1>3 DEF Moves
<1>4. CASE pc' = Awake(q)
  <2>1. pc' = [u \in Thread \cup Worker |-> IF q[u] = "sleep" THEN "wake" ELSE q[u]]
    BY <1>1, <1>4 DEF Awake
  <2>2. \A u \in Thread \cup Worker : pc'[u] = IF q[u] = "sleep" THEN "wake" ELSE q[u]
    BY <2>1
  <2>3. PerThread(pc') /\ DOMAIN pc' = Thread \cup Worker
    BY <2>1 DEF PerThread
  <2> QED BY <1>1, <2>2, <2>3 DEF Moves
<1> QED BY <1>3, <1>4 DEF q

\* Closing is for ever: whoever ends the program goes on with it.
LEMMA StaysClosing ==
    ASSUME Inv, NEW t \in Thread, NEW p, Moves(t, p), KeepsChunk(t, p), Closing
    PROVE  Closing'
<1>1. PICK u \in User : pc[u] # "idle" /\ chunk[u] = Null
  BY DEF Closing
<1>2. pc'[u] # "idle" /\ chunk'[u] = Null
  <2>1. CASE u = t
    BY <1>1, <2>1 DEF Moves, KeepsChunk
  <2>2. CASE u # t
    BY <1>1, <2>2 DEF Moves, KeepsChunk, Thread
  <2> QED BY <2>1, <2>2
<1> QED BY <1>2 DEF Closing

\* A step that keeps to all of this keeps the invariant.
LEMMA StepKeeps ==
    ASSUME Inv, NEW t \in Thread, NEW p, Moves(t, p), KeepsChunk(t, p),
           KeepsWaiter(t, p), ~ Closing => KeepsMutex(t, p)
    PROVE  Inv'
<1>0. NoThread \notin Thread /\ User \subseteq Thread
  BY AioAssumption DEF Thread
<1>1. Typed'
  BY DEF Typed, Moves, KeepsChunk, KeepsWaiter
<1>2. Busy'
  <2> SUFFICES ASSUME NEW u \in User
               PROVE  /\ pc'[u] \in {"copy", "await", "sleep", "wake"} => chunk'[u] # Null
                      /\ pc'[u] \in {"idle"} \cup AtEnd => chunk'[u] = Null
                      /\ pc'[u] \notin {"lock", "unlock"}
    BY DEF Busy, AtEnd
  <2>1. CASE u = t
    BY <2>1 DEF Moves, KeepsChunk
  <2>2. CASE u # t
    BY <1>0, <2>2 DEF Moves, KeepsChunk, Inv, Busy, AtEnd
  <2> QED BY <2>1, <2>2
<1>3. WaiterWorks'
  <2> SUFFICES ASSUME NEW u \in Thread
               PROVE  /\ pc'[u] \in Processing => waiter' = u
                      /\ taken'[u] # {} => pc'[u] \in {"work", "count"}
    BY DEF WaiterWorks, Processing
  <2>1. CASE u = t
    BY <2>1 DEF Moves, KeepsWaiter
  <2>2. CASE u # t
    BY <1>0, <2>2 DEF Moves, KeepsWaiter, Inv, WaiterWorks, Processing
  <2> QED BY <2>1, <2>2
<1>4. Guarded'
  <2> SUFFICES ASSUME ~ Closing', NEW u \in Thread, pc'[u] \in Inside PROVE mutex' = u
    BY DEF Guarded, Inside
  <2>1. KeepsMutex(t, p) /\ \A v \in Thread : pc[v] \in Inside => mutex = v
    BY StaysClosing DEF Inv, Guarded
  <2>2. CASE u = t
    BY <2>1, <2>2 DEF Moves, KeepsMutex
  <2>3. CASE u # t
    BY <1>0, <2>1, <2>3 DEF Moves, KeepsMutex, Inside
  <2> QED BY <2>2, <2>3
<1> QED BY <1>1, <1>2, <1>3, <1>4 DEF Inv
-----------------------------------------------------------------------------
(* The steps of threads.                                                   *)

\* Calls of the program: copyMem, and waiting for a chunk.
LEMMA CallKeeps ==
    ASSUME Inv, NEW t \in User,
           \/ Begin(t) \/ ScheduleCopy(t) \/ Copied(t) \/ Join(t) \/ Await(t) \/ WakeUp(t)
    PROVE  Inv'
<1>0. t \in Thread /\ Typed
  BY DEF Thread, Inv
<1>1. CASE Begin(t) \/ Join(t)
  <2>1. PICK c \in Chunk, n \in Nat, p \in {"copy", "await"} :
           Locks(t, "idle", p) /\ ~ Closing /\ chunk' = [chunk EXCEPT ![t] = <<c, n>>]
           /\ UNCHANGED <<queues, taken, waiter>>
    BY <1>1, AioAssumption DEF Begin, Join
  <2>2. Moves(t, p)
    BY <1>0, <2>1, GotoMoves DEF Locks, Goto
  <2>3. KeepsChunk(t, p)
    BY <2>1, AioAssumption DEF KeepsChunk, Locks, Inv, Typed, AtEnd
  <2>4. KeepsWaiter(t, p)
    BY <1>0, <2>1 DEF KeepsWaiter, Locks, Inv, Typed, WaiterWorks, Processing, queues
  <2>5. KeepsMutex(t, p)
    BY <2>1 DEF Locks, KeepsMutex
  <2> QED BY <1>0, <2>2, <2>3, <2>4, <2>5, StepKeeps
<1>2. CASE ScheduleCopy(t)
  <2>1. Moves(t, "copy")
    BY <1>0, <1>2 DEF ScheduleCopy, Moves, Typed
  <2>2. KeepsChunk(t, "copy")
    <3>1. PICK c \in Chunk, n \in Nat : chunk[t] = <<c, n>>
      BY <1>0, <1>2 DEF ScheduleCopy, Inv, Busy, Typed
    <3>2. chunk' = [chunk EXCEPT ![t] = <<c, n + 1>>]
      BY <1>2, <3>1 DEF ScheduleCopy
    <3>3. \A k \in Nat : <<c, k>> \in Chunk \X Nat /\ <<c, k>> # Null
      BY AioAssumption
    <3>4. chunk'[t] = <<c, n + 1>> /\ chunk' \in [User -> {Null} \cup (Chunk \X Nat)]
          /\ \A u \in User \ {t} : chunk'[u] = chunk[u]
      BY <1>0, <3>2, <3>3 DEF Typed
    <3> QED BY <3>1, <3>3, <3>4 DEF KeepsChunk, AtEnd
  <2>3. KeepsWaiter(t, "copy")
    BY <1>0, <1>2 DEF ScheduleCopy, KeepsWaiter, Inv, Typed, WaiterWorks, Processing
  <2>4. ~ Closing => KeepsMutex(t, "copy")
    BY <1>0, <1>2 DEF ScheduleCopy, KeepsMutex, Inv, Guarded, Inside
  <2> QED BY <1>0, <2>1, <2>2, <2>3, <2>4, StepKeeps
<1>3. CASE Copied(t)
  <2>1. Moves(t, "await")
    BY <1>0, <1>3, GotoMoves DEF Copied, Counted
  <2>2. KeepsChunk(t, "await")
    BY <1>3 DEF Copied, KeepsChunk, Inv, Typed, Busy, AtEnd
  <2>3. KeepsWaiter(t, "await")
    BY <1>0, <1>3 DEF Copied, KeepsWaiter, Inv, Typed, WaiterWorks, Processing, queues
  <2>4. ~ Closing => KeepsMutex(t, "await")
    BY <1>0, <1>3 DEF Copied, KeepsMutex, Inv, Guarded, Inside
  <2> QED BY <1>0, <2>1, <2>2, <2>3, <2>4, StepKeeps
<1>4. CASE Await(t)
  <2>0. pc[t] = "await" /\ chunk[t] # Null
    BY <1>4 DEF Await, Inv, Busy
  <2>1. CASE Goto(t, "check") /\ UNCHANGED <<mutex, chunk>>
    <3>1. Moves(t, "check")
      BY <1>0, <2>1, GotoMoves DEF Goto
    <3>2. KeepsChunk(t, "check")
      BY <2>0, <2>1 DEF KeepsChunk, Inv, Typed, AtEnd
    <3>3. KeepsWaiter(t, "check")
      BY <1>0, <1>4 DEF Await, KeepsWaiter, Inv, Typed, WaiterWorks, Processing, queues
    <3>4. ~ Closing => KeepsMutex(t, "check")
      BY <1>0, <2>0, <2>1 DEF KeepsMutex, Inv, Guarded, Inside
    <3> QED BY <1>0, <3>1, <3>2, <3>3, <3>4, StepKeeps
  <2>2. CASE Goto(t, "idle") /\ mutex' = NoThread /\ chunk' = [chunk EXCEPT ![t] = Null]
    <3>1. Moves(t, "idle")
      BY <1>0, <2>2, GotoMoves DEF Goto
    <3>2. KeepsChunk(t, "idle")
      BY <2>0, <2>2 DEF KeepsChunk, Inv, Typed, AtEnd
    <3>3. KeepsWaiter(t, "idle")
      BY <1>0, <1>4 DEF Await, KeepsWaiter, Inv, Typed, WaiterWorks, Processing, queues
    <3>4. ~ Closing => KeepsMutex(t, "idle")
      BY <1>0, <2>0, <2>2 DEF KeepsMutex, Inv, Guarded, Inside
    <3> QED BY <1>0, <3>1, <3>2, <3>3, <3>4, StepKeeps
  <2> QED BY <1>4, <2>1, <2>2 DEF Await
<1>5. CASE WakeUp(t)
  <2>1. Moves(t, "await")
    BY <1>0, <1>5, GotoMoves DEF WakeUp, Locks, Goto
  <2>2. KeepsChunk(t, "await")
    BY <1>5 DEF WakeUp, Locks, KeepsChunk, Inv, Typed, Busy, AtEnd
  <2>3. KeepsWaiter(t, "await")
    BY <1>0, <1>5 DEF WakeUp, Locks, KeepsWaiter, Inv, Typed, WaiterWorks, Processing, queues
  <2>4. KeepsMutex(t, "await")
    BY <1>5 DEF WakeUp, Locks, KeepsMutex
  <2> QED BY <1>0, <2>1, <2>2, <2>3, <2>4, StepKeeps
<1> QED BY <1>1, <1>2, <1>3, <1>4, <1>5

\* checkForAIO, of threads of the program and of the arrive worker.
LEMMA CheckKeeps ==
    ASSUME Inv, NEW t \in Thread, CheckForAIO(t) PROVE Inv'
<1>0. Typed /\ pc[t] \in {"check", "timed", "work", "count"}
  BY DEF Inv, CheckForAIO, Occupied, NothingQueued, GetEvents, GetEventsTimed, Locks,
         AsyncIoArrived, CountArrived, Checked
<1>1. ASSUME NEW p, p \in {"timed", "work", "count", Return(t)}
                       \cup {q \in {"sleep"} : Return(t) = "await"}, chunk' = chunk
      PROVE  KeepsChunk(t, p)
  BY <1>0, <1>1, AioAssumption DEF KeepsChunk, Return, Inv, Typed, Busy, AtEnd
<1>2. Return(t) \notin Processing /\ Return(t) # "sleep"
  BY DEF Return, Processing
<1>3. CASE Occupied(t)
  <2>1. CASE Return(t) = "await" /\ Goto(t, "sleep") /\ mutex' = NoThread
    <3>1. Moves(t, "sleep")
      BY <1>0, <2>1, GoMoves
    <3>2. KeepsChunk(t, "sleep")
      BY <1>1, <1>3, <2>1 DEF Occupied
    <3>3. KeepsWaiter(t, "sleep")
      BY <1>3 DEF Occupied, KeepsWaiter, Inv, Typed, WaiterWorks, Processing, queues
    <3>4. ~ Closing => KeepsMutex(t, "sleep")
      BY <1>3, <2>1 DEF Occupied, KeepsMutex, Inv, Guarded, Inside
    <3> QED BY <3>1, <3>2, <3>3, <3>4, StepKeeps
  <2>2. CASE Goto(t, Return(t)) /\ UNCHANGED mutex
    <3>1. Moves(t, Return(t))
      BY <1>0, <1>2, <2>2, GotoMoves DEF Goto
    <3>2. KeepsChunk(t, Return(t))
      BY <1>1, <1>3 DEF Occupied
    <3>3. KeepsWaiter(t, Return(t))
      BY <1>2, <1>3 DEF Occupied, KeepsWaiter, Inv, Typed, WaiterWorks, queues
    <3>4. ~ Closing => KeepsMutex(t, Return(t))
      BY <1>3, <2>2 DEF Occupied, KeepsMutex, Inv, Guarded, Inside
    <3> QED BY <3>1, <3>2, <3>3, <3>4, StepKeeps
  <2> QED BY <1>3, <2>1, <2>2 DEF Occupied
<1>4. CASE NothingQueued(t)
  <2>1. Moves(t, Return(t))
    BY <1>0, <1>2, <1>4, GotoMoves DEF NothingQueued, Goto
  <2>2. KeepsChunk(t, Return(t))
    BY <1>1, <1>4 DEF NothingQueued
  <2>3. KeepsWaiter(t, Return(t))
    BY <1>2, <1>4 DEF NothingQueued, KeepsWaiter, Inv, Typed, WaiterWorks, queues
  <2>4. ~ Closing => KeepsMutex(t, Return(t))
    BY <1>4 DEF NothingQueued, KeepsMutex, Inv, Guarded, Inside
  <2> QED BY <2>1, <2>2, <2>3, <2>4, StepKeeps
<1>5. CASE GetEvents(t)
  <2>1. PICK p \in {"work", "timed"} :
           /\ Goto(t, p)
           /\ IF p = "work" THEN mutex' = mutex ELSE mutex' = NoThread
           /\ (taken'[t] # {} => p = "work")
    BY <1>5 DEF GetEvents, Inv, Typed
  <2>2. Moves(t, p)
    BY <1>0, <2>1, GotoMoves DEF Goto
  <2>3. KeepsChunk(t, p)
    BY <1>1, <1>5 DEF GetEvents
  <2>4. KeepsWaiter(t, p)
    BY <1>5, <2>1 DEF GetEvents, KeepsWaiter, Inv, Typed, WaiterWorks, Processing
  <2>5. ~ Closing => KeepsMutex(t, p)
    BY <1>5, <2>1 DEF GetEvents, KeepsMutex, Inv, Guarded, Inside
  <2> QED BY <2>2, <2>3, <2>4, <2>5, StepKeeps
<1>6. CASE GetEventsTimed(t)
  <2>1. Moves(t, "work")
    BY <1>0, <1>6, GotoMoves DEF GetEventsTimed, Locks, Goto
  <2>2. KeepsChunk(t, "work")
    BY <1>1, <1>6 DEF GetEventsTimed
  <2>3. KeepsWaiter(t, "work")
    BY <1>6 DEF GetEventsTimed, Locks, KeepsWaiter, Inv, Typed, WaiterWorks, Processing
  <2>4. KeepsMutex(t, "work")
    BY <1>6 DEF GetEventsTimed, Locks, KeepsMutex
  <2> QED BY <2>1, <2>2, <2>3, <2>4, StepKeeps
<1>7. CASE AsyncIoArrived(t)
  <2>1. Moves(t, "count")
    BY <1>0, <1>7, GotoMoves DEF AsyncIoArrived, Counted
  <2>2. KeepsChunk(t, "count")
    BY <1>1, <1>7 DEF AsyncIoArrived
  <2>3. KeepsWaiter(t, "count")
    BY <1>7 DEF AsyncIoArrived, KeepsWaiter, Inv, Typed, WaiterWorks, Processing, queues
  <2>4. ~ Closing => KeepsMutex(t, "count")
    BY <1>7 DEF AsyncIoArrived, KeepsMutex, Inv, Guarded, Inside
  <2> QED BY <2>1, <2>2, <2>3, <2>4, StepKeeps
<1>8. CASE CountArrived(t)
  <2>1. Moves(t, "work")
    BY <1>0, <1>8, GotoMoves DEF CountArrived, Goto
  <2>2. KeepsChunk(t, "work")
    BY <1>1, <1>8 DEF CountArrived
  <2>3. KeepsWaiter(t, "work")
    BY <1>8 DEF CountArrived, KeepsWaiter, Inv, Typed, WaiterWorks, Processing, queues
  <2>4. ~ Closing => KeepsMutex(t, "work")
    BY <1>8 DEF CountArrived, KeepsMutex, Inv, Guarded, Inside
  <2> QED BY <2>1, <2>2, <2>3, <2>4, StepKeeps
<1>9. CASE Checked(t)
  <2>1. Moves(t, Return(t))
    BY <1>0, <1>2, <1>9, GotoMoves DEF Checked, Goto
  <2>2. KeepsChunk(t, Return(t))
    BY <1>1, <1>9 DEF Checked
  <2>3. KeepsWaiter(t, Return(t))
    BY <1>2, <1>9 DEF Checked, KeepsWaiter, Inv, Typed, WaiterWorks, Processing, queues
  <2>4. ~ Closing => KeepsMutex(t, Return(t))
    BY <1>9 DEF Checked, KeepsMutex, Inv, Guarded, Inside
  <2> QED BY <2>1, <2>2, <2>3, <2>4, StepKeeps
<1> QED BY <1>3, <1>4, <1>5, <1>6, <1>7, <1>8, <1>9 DEF CheckForAIO

\* The end of the program.
LEMMA EndKeeps ==
    ASSUME Inv, NEW t \in User, Exit(t) \/ WaitForCleanExit(t) \/ Close(t) PROVE Inv'
<1>1. PICK p \in {"check"} \cup AtEnd :
         Goto(t, p) /\ pc[t] \in {"idle"} \cup AtEnd /\ (p = "check" => pc[t] = "clean")
         /\ UNCHANGED <<events, taken, mutex, waiter, chunk>>
  BY DEF Exit, WaitForCleanExit, Close, LinearMfree, CloseFiles, StopWorkers, Joined,
         AtEnd, queues
<1>2. t \in Thread /\ Typed /\ chunk[t] = Null
  BY <1>1 DEF Inv, Busy, Thread
<1>3. Moves(t, p)
  BY <1>1, <1>2, GotoMoves DEF Goto, AtEnd
<1>4. KeepsChunk(t, p)
  BY <1>1, <1>2 DEF KeepsChunk, Typed, AtEnd
<1>5. KeepsWaiter(t, p)
  BY <1>1, <1>2 DEF KeepsWaiter, Inv, Typed, WaiterWorks, Processing, AtEnd
<1>6. ~ Closing => KeepsMutex(t, p)
  <2>1. pc[t] = "clean" => Closing
    BY <1>2 DEF Closing
  <2> QED BY <1>1, <2>1 DEF KeepsMutex, Inside, AtEnd
<1> QED BY <1>2, <1>3, <1>4, <1>5, <1>6, StepKeeps

\* The arrive worker.
LEMMA ArriveKeeps ==
    ASSUME Inv, Arrive PROVE Inv'
<1>0. Typed /\ Arriver \in Thread /\ Arriver \notin User
  BY AioAssumption DEF Inv, Thread
<1>1. CASE Poll
  <2>1. PICK p \in {"lock", "stopped"} : Goto(Arriver, p)
    BY <1>1 DEF Poll
  <2>2. Moves(Arriver, p)
    BY <1>0, <2>1, GotoMoves DEF Goto
  <2>3. KeepsChunk(Arriver, p)
    BY <1>0, <1>1 DEF Poll, KeepsChunk, Typed
  <2>4. KeepsWaiter(Arriver, p)
    BY <1>0, <1>1 DEF Poll, KeepsWaiter, Inv, Typed, WaiterWorks, Processing, queues
  <2>5. KeepsMutex(Arriver, p)
    BY <1>1 DEF Poll, KeepsMutex, Inside
  <2> QED BY <1>0, <2>2, <2>3, <2>4, <2>5, StepKeeps
<1>2. CASE Lock
  <2>1. Moves(Arriver, "check")
    BY <1>0, <1>2, GotoMoves DEF Lock, Locks, Goto
  <2>2. KeepsChunk(Arriver, "check")
    BY <1>0, <1>2 DEF Lock, KeepsChunk, Typed
  <2>3. KeepsWaiter(Arriver, "check")
    BY <1>0, <1>2 DEF Lock, Locks, KeepsWaiter, Inv, Typed, WaiterWorks, Processing, queues
  <2>4. KeepsMutex(Arriver, "check")
    BY <1>2 DEF Lock, Locks, KeepsMutex
  <2> QED BY <1>0, <2>1, <2>2, <2>3, <2>4, StepKeeps
<1>3. CASE Unlock
  <2>1. Moves(Arriver, "idle")
    BY <1>0, <1>3, GotoMoves DEF Unlock, Goto
  <2>2. KeepsChunk(Arriver, "idle")
    BY <1>0, <1>3 DEF Unlock, KeepsChunk, Typed
  <2>3. KeepsWaiter(Arriver, "idle")
    BY <1>0, <1>3 DEF Unlock, KeepsWaiter, Inv, Typed, WaiterWorks, Processing, queues
  <2>4. ~ Closing => KeepsMutex(Arriver, "idle")
    BY <1>0, <1>3 DEF Unlock, KeepsMutex, Inv, Guarded, Inside
  <2> QED BY <1>0, <2>1, <2>2, <2>3, <2>4, StepKeeps
<1> QED BY <1>0, <1>1, <1>2, <1>3, CheckKeeps DEF Arrive

\* Submit workers and the kernel touch nothing of this but the events.
LEMMA WorkerKeeps ==
    ASSUME Inv, \/ \E w \in Worker : Pop(w) \/ Submit(w)
                \/ \E p \in Part : Transferred(p)
                \/ UNCHANGED vars
    PROVE  Inv'
<1>1. /\ PerThread(pc') /\ DOMAIN pc' = Thread \cup Worker /\ \A u \in Thread : pc'[u] = pc[u]
      /\ events' \subseteq Part /\ UNCHANGED <<taken, mutex, waiter, chunk>>
  <2>0. Typed
    BY DEF Inv
  <2>1. CASE \E w \in Worker : Pop(w)
    <3>1. PICK w \in Worker : Pop(w)
      BY <2>1
    <3>2. w \notin Thread
      BY AioAssumption
    <3>3. PerThread(pc) /\ DOMAIN pc = Thread \cup Worker
      BY <2>0 DEF Typed
    <3>4. PerThread(pc') /\ DOMAIN pc' = Thread \cup Worker /\ \A u \in Thread : pc'[u] = pc[u]
      <4>1. CASE pc' = pc
        BY <3>3, <4>1
      <4>2. CASE pc' # pc
        BY <2>0, <3>1, <3>2, <4>2, GoMoves DEF Pop, Moves, Goto
      <4> QED BY <4>1, <4>2
    <3> QED BY <2>0, <3>1, <3>4 DEF Pop, Typed
  <2>2. CASE \E w \in Worker : Submit(w)
    BY <2>0, <2>2 DEF Submit, Typed
  <2>3. CASE \E p \in Part : Transferred(p)
    BY <2>0, <2>3 DEF Transferred, Typed
  <2>4. CASE UNCHANGED vars
    BY <2>0, <2>4 DEF vars, queues, Typed
  <2> QED BY <2>1, <2>2, <2>3, <2>4
<1>2. Typed'
  BY <1>1 DEF Inv, Typed
<1>3. Busy'
  BY <1>1 DEF Inv, Busy, AtEnd, Thread
<1>4. WaiterWorks'
  BY <1>1 DEF Inv, WaiterWorks, Processing
<1>5. Guarded'
  <2>1. Closing' <=> Closing
    BY <1>1 DEF Closing, Thread
  <2> QED BY <1>1, <2>1 DEF Inv, Guarded, Inside
<1> QED BY <1>2, <1>3, <1>4, <1>5 DEF Inv
-----------------------------------------------------------------------------
LEMMA InitKeeps == Init => Inv
BY AioAssumption
   DEF Init, Inv, Typed, PerThread, Busy, WaiterWorks, Guarded, Thread, Inside, Processing, AtEnd

LEMMA NextKeeps == Inv /\ [Next]_vars => Inv'
BY CallKeeps, CheckKeeps, EndKeeps, ArriveKeeps, WorkerKeeps DEF Next, Continue, Ended, Thread

\* Whoever processes events, of the program's threads and the arrive worker, is alone at
\* it: he has aioWaiterLock, and only he has taken events (checkForAIO).  Until somebody
\* ends the program, he holds stateChangeMutex with it.  waitForCleanExit, which does
\* not, is the only exception.
THEOREM ProcessedAlone == Spec => [](WaiterWorks /\ (~ Closing => ProcessesUnderMutex))
<1>1. Inv => WaiterWorks /\ (~ Closing => ProcessesUnderMutex)
  BY DEF Inv, Guarded, ProcessesUnderMutex, Inside
<1> QED BY <1>1, InitKeeps, NextKeeps, PTL DEF Spec
=============================================================================
