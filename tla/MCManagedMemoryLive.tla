------------------------ MODULE MCManagedMemoryLive ------------------------
(***************************************************************************)
(* ManagedMemory with a bounded number of requests per thread and the      *)
(* fairness of threads, mutex and kernel, for liveness.                    *)
(***************************************************************************)
EXTENDS MCManagedMemory

CONSTANT MaxRequests    \* MaxRequests[t]: how many calls other than unsetUse t makes

VARIABLE made           \* made[t]: how many it has made

ThreeAndTwo == [t \in Thread |-> IF t = t1 THEN 3 ELSE 2]
TwoEach     == [t \in Thread |-> 2]

liveVars == <<vars, made>>

LiveInit == Init /\ made = [t \in Thread |-> 0]

MakeRequest(t) ==
    /\ made[t] < MaxRequests[t]
    /\ Request(t)
    /\ made' = [made EXCEPT ![t] = @ + 1]

LiveStep(t) == Step(t) /\ UNCHANGED made
LiveIO == IOStep /\ UNCHANGED made

\* The timed io_getevents of thread t comes back.
Returns(t) == LiveIO /\ aioWaiter = t /\ aioWaiter' = NoThread

\* The transfer of chunk c is found finished by whoever asks for events.
Finishes(c) ==
    /\ IOStep \/ \E t \in Thread : Step(t)
    /\ UNCHANGED made
    /\ aio[c] # {} /\ aio'[c] = {}

Stopped == (\A t \in Thread : pc[t] \in {"idle", "thrown"}) /\ UNCHANGED liveVars

LiveNext ==
    \/ \E t \in Thread : \/ MakeRequest(t) \/ LiveStep(t)
                         \/ (Release(t) \/ Recover(t)) /\ UNCHANGED made
    \/ LiveIO
    \/ Stopped

\* A thread that wants stateChangeMutex again and again gets it at last (strong
\* fairness of the mutex), io_getevents keeps its time limit, the arrive worker keeps
\* asking, and the kernel finishes every transfer it is asked about often enough.
Fairness ==
    /\ \A t \in Thread : SF_liveVars(LiveStep(t)) /\ SF_liveVars(Returns(t))
    /\ SF_liveVars(Returns(Worker))
    /\ SF_liveVars(WorkerCheck /\ UNCHANGED made)
    /\ \A c \in Chunk : SF_liveVars(Finishes(c))

LiveSpec == LiveInit /\ [][LiveNext]_liveVars /\ Fairness
-----------------------------------------------------------------------------
\* Every call returns, or fails with an exception: no wake-up is lost and no thread
\* waits for IO that does not come.
CallsReturn ==
    \A t \in Thread : pc[t] \notin {"idle", "thrown"} ~> pc[t] \in {"idle", "thrown"}

\* Every transfer is completed, also when no thread waits for it.
TransfersComplete == \A c \in Chunk : aio[c] # {} ~> aio[c] = {}

\* A thread that got stateChangeMutex gives it up again, at the latest to wait.
MutexReleased == \A t \in Thread : lock = t ~> lock # t
=============================================================================
