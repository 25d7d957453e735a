----------------------- MODULE AioTransferCount_proofs -----------------------
(***************************************************************************)
(* Proofs about the books AioTransfer keeps, for any number of threads,    *)
(* workers, chunks and parts: every part under way is there once and is    *)
(* counted once, and close finds nothing left.                             *)
(*                                                                         *)
(* The first half follows the parts from place to place, the second half   *)
(* adds up: each step has one of six effects on the books (Effect).        *)
(***************************************************************************)
EXTENDS AioTransfer_proofs, FiniteSetTheorems, SequenceTheorems

-----------------------------------------------------------------------------
(* The parts of transfers.                                                 *)

\* A part is a chunk with a number, and never the NULL that ends a worker.
LEMMA PartIs ==
    /\ \A p : p \in Part <=> \E c \in Chunk : \E n \in 1..Parts[c] : p = <<c, n>>
    /\ \A p \in Part : p[1] \in Chunk /\ p[2] \in Nat /\ p = <<p[1], p[2]>>
    /\ Null \notin Part
<1>1. \A p : p \in Part <=> \E c \in Chunk : \E n \in 1..Parts[c] : p = <<c, n>>
  BY DEF Part
<1>2. \A c \in Chunk : \A n \in 1..Parts[c] : n \in Nat /\ <<c, n>> \in Chunk \X Nat
  BY AioAssumption
<1> QED BY <1>1, <1>2, AioAssumption

\* There are finitely many.
LEMMA PartFinite == IsFiniteSet(Part)
<1> DEFINE T == {{c} \X (1..Parts[c]) : c \in Chunk}
           f == [c \in Chunk |-> {c} \X (1..Parts[c])]
<1>1. f \in Surjection(Chunk, T)
  BY DEF Surjection
<1>2. IsFiniteSet(T)
  BY <1>1, FS_Surjection, AioAssumption
<1>3. ASSUME NEW c \in Chunk PROVE IsFiniteSet({c} \X (1..Parts[c]))
  <2>1. Parts[c] \in Int
    BY AioAssumption
  <2>2. IsFiniteSet(1..Parts[c])
    BY <2>1, FS_Interval
  <2>3. IsFiniteSet({c})
    BY FS_Singleton
  <2> QED BY <2>2, <2>3, FS_Product
<1>4. \A U \in T : IsFiniteSet(U)
  BY <1>3
<1> HIDE DEF T
<1>5. IsFiniteSet(UNION T)
  BY <1>2, <1>4, FS_UNION
<1> QED BY <1>5 DEF T, Part

\* So there are of threads.
LEMMA ThreadFinite == IsFiniteSet(Thread)
BY FS_AddElement, AioAssumption DEF Thread
-----------------------------------------------------------------------------
(* The queue of the submit workers.                                        *)

\* The parts in a queue; no part is in it twice.
Members(s) == {s[i] : i \in DOMAIN s} \ {Null}
NoTwice(s) == \A i, j \in DOMAIN s : s[i] = s[j] /\ s[i] # Null => i = j

LEMMA QueueAppend ==
    ASSUME NEW s \in Seq(Part \cup {Null}), NEW p \in Part, NoTwice(s), p \notin Members(s)
    PROVE  /\ Append(s, p) \in Seq(Part \cup {Null}) /\ NoTwice(Append(s, p))
           /\ Members(Append(s, p)) = Members(s) \cup {p}
<1> DEFINE q == Append(s, p)
<1>1. /\ q \in Seq(Part \cup {Null}) /\ Len(q) = Len(s) + 1
      /\ \A i \in 1..Len(s) : q[i] = s[i]
      /\ q[Len(s) + 1] = p
  BY AppendProperties
<1>2. /\ Len(s) \in Nat /\ DOMAIN s = 1..Len(s) /\ DOMAIN q = 1..(Len(s) + 1)
  BY <1>1, LenProperties
<1>3. p # Null /\ \A i \in DOMAIN s : s[i] # p
  BY PartIs DEF Members
<1> HIDE DEF q
<1>4. \A i \in DOMAIN q : i \in DOMAIN s \/ i = Len(s) + 1
  BY <1>2
<1>5. NoTwice(q)
  BY <1>1, <1>2, <1>3, <1>4 DEF NoTwice
<1>6. Members(q) = Members(s) \cup {p}
  <2>1. DOMAIN s \subseteq DOMAIN q /\ Len(s) + 1 \in DOMAIN q
    BY <1>2
  <2> QED BY <1>1, <1>2, <1>3, <1>4, <2>1 DEF Members
<1> QED BY <1>1, <1>5, <1>6 DEF q

LEMMA QueueTail ==
    ASSUME NEW s \in Seq(Part \cup {Null}), s # <<>>, NoTwice(s)
    PROVE  /\ Head(s) \in Part \cup {Null}
           /\ Tail(s) \in Seq(Part \cup {Null}) /\ NoTwice(Tail(s))
           /\ Members(Tail(s)) = Members(s) \ {Head(s)}
           /\ Head(s) # Null => Head(s) \in Members(s)
<1> DEFINE q == Tail(s)
<1>1. /\ Head(s) \in Part \cup {Null} /\ q \in Seq(Part \cup {Null})
      /\ Len(q) = Len(s) - 1 /\ \A i \in 1..Len(q) : q[i] = s[i + 1]
  BY HeadTailProperties
<1>2. /\ Len(s) \in Nat \ {0} /\ DOMAIN s = 1..Len(s) /\ DOMAIN q = 1..(Len(s) - 1)
  BY <1>1, LenProperties, EmptySeq
<1>3. Head(s) = s[1]
  OBVIOUS
<1> HIDE DEF q
<1>4. \A i \in DOMAIN q : i + 1 \in DOMAIN s /\ i + 1 # 1 /\ q[i] = s[i + 1]
  BY <1>1, <1>2
<1>5. \A i \in DOMAIN s : i = 1 \/ (i - 1 \in DOMAIN q /\ q[i - 1] = s[i])
  <2>1. SUFFICES ASSUME NEW i \in DOMAIN s, i # 1
                 PROVE  i - 1 \in DOMAIN q /\ q[i - 1] = s[i]
    OBVIOUS
  <2>2. i \in Int /\ i - 1 \in DOMAIN q /\ (i - 1) + 1 = i
    BY <1>2, <2>1
  <2> QED BY <1>4, <2>2
<1>6. NoTwice(q)
  <2>1. \A i, j \in DOMAIN q : i + 1 = j + 1 => i = j
    BY <1>2
  <2> QED BY <1>4, <2>1 DEF NoTwice
<1>7. Members(q) = Members(s) \ {s[1]}
  <2>1. \A i \in DOMAIN q : q[i] # Null => q[i] \in Members(s) \ {s[1]}
    <3>1. 1 \in DOMAIN s
      BY <1>2
    <3> QED BY <1>4, <3>1 DEF NoTwice, Members
  <2>2. \A i \in DOMAIN s : s[i] \in Members(s) \ {s[1]} => s[i] \in Members(q)
    BY <1>5 DEF Members
  <2> QED BY <2>1, <2>2 DEF Members
<1>8. s[1] # Null => s[1] \in Members(s)
  BY <1>2 DEF Members
<1> QED BY <1>1, <1>3, <1>6, <1>7, <1>8 DEF q

\* The NULLs that close appends.
LEMMA QueueEnd ==
    ASSUME NEW s \in Seq(Part \cup {Null}), NEW n \in Nat, NoTwice(s)
    PROVE  LET q == s \o [w \in 1..n |-> Null]
           IN  q \in Seq(Part \cup {Null}) /\ NoTwice(q) /\ Members(q) = Members(s)
<1> DEFINE e == [w \in 1..n |-> Null]
           q == s \o e
<1>1. e \in Seq(Part \cup {Null}) /\ Len(e) = n /\ \A i \in 1..n : e[i] = Null
  <2>1. e \in [1..n -> Part \cup {Null}] /\ DOMAIN e = 1..n /\ \A i \in 1..n : e[i] = Null
    OBVIOUS
  <2> HIDE DEF e
  <2>2. e \in Seq(Part \cup {Null})
    BY <2>1, SeqDef
  <2>3. Len(e) = n
    <3>1. Len(e) \in Nat /\ DOMAIN e = 1..Len(e)
      BY <2>2, LenProperties
    <3> QED BY <2>1, <3>1
  <2> QED BY <2>1, <2>2, <2>3
<1> HIDE DEF e
<1>2. /\ q \in Seq(Part \cup {Null}) /\ Len(q) = Len(s) + n
      /\ \A i \in 1..(Len(s) + n) : q[i] = IF i <= Len(s) THEN s[i] ELSE e[i - Len(s)]
  BY <1>1, ConcatProperties
<1>3. Len(s) \in Nat /\ DOMAIN s = 1..Len(s) /\ DOMAIN q = 1..(Len(s) + n)
  BY <1>2, LenProperties
<1> HIDE DEF q
<1>4. \A i \in DOMAIN q : (i \in DOMAIN s /\ q[i] = s[i]) \/ q[i] = Null
  <2>1. SUFFICES ASSUME NEW i \in DOMAIN q, i \notin DOMAIN s PROVE q[i] = Null
    BY <1>2, <1>3
  <2>2. ~ (i <= Len(s)) /\ i - Len(s) \in 1..n /\ q[i] = e[i - Len(s)]
    BY <1>2, <1>3, <2>1
  <2> QED BY <1>1, <2>2
<1>5. \A i \in DOMAIN s : i \in DOMAIN q /\ q[i] = s[i]
  BY <1>2, <1>3
<1>6. NoTwice(q)
  BY <1>4 DEF NoTwice
<1>7. Members(q) = Members(s)
  BY <1>4, <1>5 DEF Members
<1> QED BY <1>2, <1>6, <1>7 DEF q, e
-----------------------------------------------------------------------------
(* From place to place.                                                    *)

Queued == Members(requests)
Given  == {held[w] : w \in Worker} \ {Null}
Taken  == {p \in Part : \E t \in Thread : p \in taken[t]}
Way    == Queued \cup Given \cup kernel \cup events \cup Taken

WayTyped ==
    /\ requests \in Seq(Part \cup {Null}) /\ held \in [Worker -> Part \cup {Null}]
    /\ kernel \subseteq Part /\ events \subseteq Part /\ taken \in [Thread -> SUBSET Part]

\* The places have no part in common, and none has one twice.
Apart ==
    /\ NoTwice(requests)
    /\ \A v, w \in Worker : held[v] = held[w] /\ held[v] # Null => v = w
    /\ Queued \cap (Given \cup kernel \cup events \cup Taken) = {}
    /\ Given \cap (kernel \cup events \cup Taken) = {}
    /\ kernel \cap (events \cup Taken) = {}
    /\ events \cap Taken = {}

\* Only the holder of aioWaiterLock has taken any.
TakenAlone == \A t, u \in Thread : taken[t] # {} /\ taken[u] # {} => t = u

Ways == WayTyped /\ Apart

LEMMA WaiterTakes == ASSUME Inv PROVE TakenAlone
BY DEF Inv, WaiterWorks, Processing, TakenAlone

\* Everything under way is a part, and known to UnderWay.
LEMMA WayIs ==
    ASSUME WayTyped PROVE Way \subseteq Part /\ UnderWay = Way
<1>1. Way \subseteq Part
  <2>1. \A i \in DOMAIN requests : requests[i] \in Part \cup {Null}
    BY LenProperties, ElementOfSeq DEF WayTyped
  <2> QED BY <2>1 DEF WayTyped, Way, Queued, Members, Given, Taken
<1>2. ASSUME NEW p \in Part PROVE Places(p) # {} <=> p \in Way
  <2>1. p # Null
    BY PartIs
  <2>2. p \in Queued <=> \E i \in DOMAIN requests : requests[i] = p
    BY <2>1 DEF Queued, Members
  <2>3. p \in Given <=> \E w \in Worker : held[w] = p
    BY <2>1 DEF Given
  <2>4. p \in Taken <=> \E t \in Thread : p \in taken[t]
    BY DEF Taken
  <2>5. ASSUME NEW z \in Places(p) PROVE p \in Way
    BY <2>2, <2>3, <2>4 DEF Places, Way
  <2>6. /\ \A i \in DOMAIN requests : requests[i] = p => <<"queue", i>> \in Places(p)
        /\ \A w \in Worker : held[w] = p => <<"worker", w>> \in Places(p)
        /\ p \in kernel => <<"kernel", p>> \in Places(p)
        /\ p \in events => <<"events", p>> \in Places(p)
        /\ \A t \in Thread : p \in taken[t] => <<"taken", t>> \in Places(p)
    BY DEF Places
  <2>7. p \in Way => \E z : z \in Places(p)
    BY <2>2, <2>3, <2>4, <2>6 DEF Way
  <2> QED BY <2>5, <2>7
<1> QED BY <1>1, <1>2 DEF UnderWay

\* No part is in two places.
LEMMA PlacedOnce ==
    ASSUME Ways, TakenAlone, NEW p \in Part, NEW x \in Places(p), NEW y \in Places(p)
    PROVE  x = y
<1>1. p # Null
  BY PartIs
<1>2. ASSUME NEW z \in Places(p)
      PROVE  \/ p \in Queued /\ \E i \in DOMAIN requests : requests[i] = p /\ z = <<"queue", i>>
             \/ p \in Given /\ \E w \in Worker : held[w] = p /\ z = <<"worker", w>>
             \/ p \in kernel /\ z = <<"kernel", p>>
             \/ p \in events /\ z = <<"events", p>>
             \/ p \in Taken /\ \E t \in Thread : p \in taken[t] /\ z = <<"taken", t>>
  BY <1>1 DEF Places, Queued, Members, Given, Taken
<1>3. CASE p \in Queued
  BY <1>1, <1>2, <1>3 DEF Ways, Apart, NoTwice
<1>4. CASE p \in Given
  BY <1>1, <1>2, <1>4 DEF Ways, Apart
<1>5. CASE p \in kernel
  BY <1>2, <1>5 DEF Ways, Apart
<1>6. CASE p \in events
  BY <1>2, <1>6 DEF Ways, Apart
<1>7. CASE p \in Taken
  BY <1>2, <1>7 DEF Ways, Apart, TakenAlone
<1> QED BY <1>2, <1>3, <1>4, <1>5, <1>6, <1>7

\* What happens to the places when the threads take nothing.
LEMMA TakenSame == ASSUME taken' = taken PROVE Taken' = Taken
BY DEF Taken

LEMMA WaysSame ==
    ASSUME Ways, UNCHANGED <<queues, taken>> PROVE Ways' /\ Way' = Way
<1>1. Queued' = Queued /\ Given' = Given /\ Taken' = Taken
  BY TakenSame DEF queues, Queued, Members, Given
<1>2. UNCHANGED <<requests, held, kernel, events, taken>>
  BY DEF queues
<1> QED BY <1>1, <1>2 DEF Ways, WayTyped, Apart, NoTwice, Way

\* scheduleCopy queues a part.
LEMMA WayScheduled ==
    ASSUME Ways, NEW p \in Part, p \notin Way, requests' = Append(requests, p),
           UNCHANGED <<held, kernel, events, taken>>
    PROVE  Ways' /\ Way' = Way \cup {p}
<1>1. requests' \in Seq(Part \cup {Null}) /\ NoTwice(requests') /\ Queued' = Queued \cup {p}
  BY QueueAppend DEF Ways, WayTyped, Apart, Way, Queued
<1>2. Given' = Given /\ Taken' = Taken
  BY TakenSame DEF Given
<1>3. WayTyped'
  BY <1>1 DEF Ways, WayTyped
<1>4. Apart'
  BY <1>1, <1>2 DEF Ways, Apart, Way
<1>5. Way' = Way \cup {p}
  BY <1>1, <1>2 DEF Way
<1> QED BY <1>3, <1>4, <1>5 DEF Ways

\* Close queues the NULLs.
LEMMA WayStopped ==
    ASSUME Ways, NEW t, StopWorkers(t)
    PROVE  Ways' /\ Way' = Way
<1>1. Cardinality(Worker) \in Nat
  BY FS_CardinalityType, AioAssumption
<1>2. requests' \in Seq(Part \cup {Null}) /\ NoTwice(requests') /\ Queued' = Queued
  BY <1>1, QueueEnd DEF StopWorkers, Ways, WayTyped, Apart, Queued
<1>3. UNCHANGED <<held, kernel, events, taken>>
  BY DEF StopWorkers
<1>4. Given' = Given /\ Taken' = Taken
  BY <1>3, TakenSame DEF Given
<1> QED BY <1>2, <1>3, <1>4 DEF Ways, WayTyped, Apart, Way

\* A submit worker takes a request, or its NULL.
LEMMA WayPopped ==
    ASSUME Ways, NEW w \in Worker, Pop(w)
    PROVE  Ways' /\ Way' = Way
<1> DEFINE h == Head(requests)
<1>1. /\ h \in Part \cup {Null} /\ requests' \in Seq(Part \cup {Null})
      /\ NoTwice(requests') /\ Queued' = Queued \ {h}
      /\ h # Null => h \in Queued
  BY QueueTail DEF Pop, Ways, WayTyped, Apart, Queued
<1>2. UNCHANGED <<kernel, events, taken>> /\ Taken' = Taken
  BY TakenSame DEF Pop
<1>3. held[w] = Null /\ held \in [Worker -> Part \cup {Null}]
  BY DEF Pop, Ways, WayTyped
<1>4. CASE h = Null
  <2>1. held' = held /\ Given' = Given
    BY <1>4 DEF Pop, Given
  <2>2. Queued' = Queued
    BY <1>1, <1>4 DEF Queued, Members
  <2> QED BY <1>1, <1>2, <2>1, <2>2 DEF Ways, WayTyped, Apart, Way
<1>5. CASE h # Null
  <2>1. held' = [held EXCEPT ![w] = h]
    BY <1>5 DEF Pop
  <2> HIDE DEF h
  <2>2. held' \in [Worker -> Part \cup {Null}] /\ held'[w] = h
        /\ \A v \in Worker \ {w} : held'[v] = held[v]
    BY <1>1, <1>3, <2>1
  <2>3. Given' = Given \cup {h}
    BY <1>3, <1>5, <2>2 DEF Given
  <2>4. h \notin Given /\ h \in Queued
    BY <1>1, <1>5 DEF Ways, Apart
  <2>5. \A u, v \in Worker : held'[u] = held'[v] /\ held'[u] # Null => u = v
    <3>1. \A v \in Worker \ {w} : held'[v] # h
      BY <1>5, <2>2, <2>4 DEF Given
    <3> QED BY <2>2, <3>1 DEF Ways, Apart
  <2>6. WayTyped'
    BY <1>1, <1>2, <2>2 DEF Ways, WayTyped
  <2>7. Apart'
    BY <1>1, <1>2, <2>3, <2>4, <2>5 DEF Ways, Apart
  <2>8. Way' = Way
    BY <1>1, <1>2, <2>3, <2>4 DEF Way
  <2> QED BY <2>6, <2>7, <2>8 DEF Ways
<1> QED BY <1>4, <1>5

\* It hands its request to the kernel.
LEMMA WaySubmitted ==
    ASSUME Ways, NEW w \in Worker, Submit(w)
    PROVE  Ways' /\ Way' = Way
<1> DEFINE h == held[w]
<1>1. /\ h # Null /\ h \in Part /\ h \in Given
      /\ kernel' = kernel \cup {h} /\ held' = [held EXCEPT ![w] = Null]
      /\ UNCHANGED <<requests, events, taken>> /\ held \in [Worker -> Part \cup {Null}]
  BY DEF Submit, Ways, WayTyped, Given
<1>2. Taken' = Taken /\ Queued' = Queued
  BY <1>1, TakenSame DEF Queued, Members
<1>3. held' \in [Worker -> Part \cup {Null}] /\ held'[w] = Null
      /\ \A v \in Worker \ {w} : held'[v] = held[v]
  BY <1>1
<1>4. \A v \in Worker \ {w} : held[v] # h
  BY <1>1 DEF Ways, Apart
<1> HIDE DEF h
<1>5. Given' = Given \ {h}
  <2>1. \A x : x \in Given => x = h \/ \E v \in Worker \ {w} : x = held[v]
    BY DEF Given, h
  <2> QED BY <1>3, <1>4, <2>1 DEF Given
<1>6. \A u, v \in Worker : held'[u] = held'[v] /\ held'[u] # Null => u = v
  BY <1>3 DEF Ways, Apart
<1>7. WayTyped'
  BY <1>1, <1>3 DEF Ways, WayTyped
<1>8. Apart'
  BY <1>1, <1>2, <1>5, <1>6 DEF Ways, Apart, NoTwice
<1>9. Way' = Way
  BY <1>1, <1>2, <1>5 DEF Way
<1> QED BY <1>7, <1>8, <1>9 DEF Ways

\* The kernel finishes a part.
LEMMA WayTransferred ==
    ASSUME Ways, NEW p \in Part, Transferred(p)
    PROVE  Ways' /\ Way' = Way
<1>1. /\ p \in kernel /\ kernel' = kernel \ {p} /\ events' = events \cup {p}
      /\ UNCHANGED <<requests, held, taken>>
  BY DEF Transferred
<1>2. Taken' = Taken /\ Queued' = Queued /\ Given' = Given
  BY <1>1, TakenSame DEF Queued, Members, Given
<1> QED BY <1>1, <1>2 DEF Ways, WayTyped, Apart, NoTwice, Way

\* Thread t, which has none, takes some events.
LEMMA WayTaken ==
    ASSUME Inv, Ways, NEW t \in Thread, NEW some \in SUBSET events,
           \A u \in Thread : taken[u] = {},
           taken' = [taken EXCEPT ![t] = some], events' = events \ some,
           UNCHANGED <<requests, held, kernel>>
    PROVE  Ways' /\ Way' = Way
<1>1. Taken = {}
  BY DEF Taken
<1>2. taken' \in [Thread -> SUBSET Part] /\ taken'[t] = some
      /\ \A u \in Thread \ {t} : taken'[u] = {}
  BY DEF Ways, WayTyped
<1>3. Taken' = some
  BY <1>2 DEF Taken, Ways, WayTyped
<1>4. Queued' = Queued /\ Given' = Given
  BY DEF Queued, Members, Given
<1> QED BY <1>1, <1>2, <1>3, <1>4 DEF Ways, WayTyped, Apart, NoTwice, Way

\* asyncIoArrived takes a part from the events of t.
LEMMA WayArrived ==
    ASSUME Ways, TakenAlone, NEW t \in Thread, NEW p \in taken[t],
           taken' = [taken EXCEPT ![t] = @ \ {p}], UNCHANGED queues
    PROVE  Ways' /\ p \in Way /\ Way' = Way \ {p}
<1>1. p \in Part /\ p \in Taken
  BY DEF Taken, Ways, WayTyped
<1>2. taken' \in [Thread -> SUBSET Part] /\ taken'[t] = taken[t] \ {p}
      /\ \A u \in Thread \ {t} : taken'[u] = taken[u]
  BY DEF Ways, WayTyped
<1>3. \A u \in Thread \ {t} : taken[u] = {}
  BY DEF TakenAlone
<1>4. Taken' = Taken \ {p}
  BY <1>2, <1>3 DEF Taken
<1>5. Queued' = Queued /\ Given' = Given /\ UNCHANGED <<requests, held, kernel, events>>
  BY DEF queues, Queued, Members, Given
<1> QED BY <1>1, <1>2, <1>4, <1>5 DEF Ways, WayTyped, Apart, NoTwice, Way
-----------------------------------------------------------------------------
(* The books, and the end of the program.                                  *)

Copiers  == {t \in User : pc[t] = "copy"}
Counting == {t \in Thread : pc[t] = "count"}
WayOf(c) == {p \in Way : p[1] = c}

\* tracker and totalSwapActionsQueued, and the status that goes with them.
Ledger ==
    /\ status \in [Chunk -> Moving \cup {"ALLOCATED", "SWAPPED"}]
    /\ tracker \in [Chunk -> Int] /\ total \in Int
    /\ \A c \in Chunk : tracker[c] = Cardinality(WayOf(c)) + Cardinality(Copying(c))
    /\ \A c \in Chunk : status[c] \in Moving <=> tracker[c] > 0
    /\ total = Cardinality(Way) + Cardinality(Copiers) + Cardinality(Counting)

\* One copyMem at a time moves a chunk, and has yet to queue the parts it comes to.
CopyOrder ==
    /\ \A t, u \in Copiers : chunk[t][1] = chunk[u][1] => t = u
    /\ \A t \in Copiers : \A p \in Way : p[1] = chunk[t][1] => p[2] < chunk[t][2]

\* Whoever waits in io_getevents waits for something that is under way.
TimedForPart == \A t \in Thread : pc[t] = "timed" => Way # {}

\* Whoever ends the program is alone.
Alone == \A u, v \in User : u # v /\ chunk[u] = Null /\ pc[u] # "idle" => pc[v] = "idle"

\* Once waitForCleanExit is through, nothing is queued.
Gone    == {"mfree", "close", "stop", "join", "closed"}
Freed   == {"stop", "join", "closed"}
Through == \A u \in User : pc[u] \in Gone => total = 0
FreedBy == freed => \E u \in User : pc[u] \in Freed

PcValues == {"idle", "copy", "await", "sleep", "wake", "check", "timed", "work", "count", "lock",
             "unlock", "stopped", "clean", "mfree", "close", "stop", "join", "closed"}

RestTyped ==
    /\ {mutex, waiter} \subseteq Thread \cup {NoThread} /\ {working, freed} \subseteq BOOLEAN
    /\ \A t \in Thread \cup Worker : pc[t] \in PcValues
    /\ pc[Arriver] # "copy"

Books == Inv /\ Ways /\ Ledger /\ CopyOrder /\ TimedForPart /\ Alone /\ Through /\ FreedBy
         /\ RestTyped
-----------------------------------------------------------------------------
(* The effects a step can have on the books.                               *)

Same ==
    /\ UNCHANGED transfers /\ Way' = Way /\ Copiers' = Copiers /\ Counting' = Counting
    /\ \A u \in Copiers : chunk'[u] = chunk[u]

\* t begins to move c; schedules part <<c, n>>; has scheduled all parts of c.
Begun(t, c) ==
    /\ t \in User \ Copiers /\ ~ Closing /\ status[c] \notin Moving
    /\ status' = [status EXCEPT ![c] = IF @ = "ALLOCATED" THEN "SWAPOUT" ELSE "SWAPIN"]
    /\ tracker' = [tracker EXCEPT ![c] = 1] /\ total' = total + 1
    /\ Way' = Way /\ Copiers' = Copiers \cup {t} /\ Counting' = Counting
    /\ chunk'[t] = <<c, 1>> /\ \A u \in Copiers : chunk'[u] = chunk[u]

Scheduled(t, c, n) ==
    /\ t \in Copiers /\ chunk[t] = <<c, n>> /\ n \in Nat /\ <<c, n>> \in Part
    /\ tracker' = [tracker EXCEPT ![c] = @ + 1] /\ total' = total + 1 /\ status' = status
    /\ Way' = Way \cup {<<c, n>>} /\ Copiers' = Copiers /\ Counting' = Counting
    /\ chunk'[t] = <<c, n + 1>> /\ \A u \in Copiers \ {t} : chunk'[u] = chunk[u]

Less(c) ==
    /\ tracker' = [tracker EXCEPT ![c] = @ - 1]
    /\ status' = IF tracker[c] = 1 THEN Completed(c) ELSE status

CopyDone(t, c) ==
    /\ t \in Copiers /\ Cur(t) = c /\ Less(c) /\ total' = total - 1
    /\ Way' = Way /\ Copiers' = Copiers \ {t} /\ Counting' = Counting
    /\ \A u \in Copiers : chunk'[u] = chunk[u]

\* t takes part p off the books of its chunk, and then off the total.
PartDone(t, p) ==
    /\ t \in Thread \ Counting /\ p \in Way /\ Less(p[1]) /\ total' = total
    /\ Way' = Way \ {p} /\ Copiers' = Copiers /\ Counting' = Counting \cup {t}
    /\ \A u \in Copiers : chunk'[u] = chunk[u]

CountDone(t) ==
    /\ t \in Counting /\ UNCHANGED <<status, tracker>> /\ total' = total - 1
    /\ Way' = Way /\ Copiers' = Copiers /\ Counting' = Counting \ {t}
    /\ \A u \in Copiers : chunk'[u] = chunk[u]

Effect(t) ==
    \/ Same \/ CopyDone(t, Cur(t)) \/ CountDone(t)
    \/ \E c \in Chunk : Begun(t, c) \/ \E n \in Nat : Scheduled(t, c, n)
    \/ \E p \in Part : PartDone(t, p)

\* All that is counted is finite.
LEMMA BooksFinite ==
    ASSUME WayTyped
    PROVE  /\ IsFiniteSet(Way) /\ IsFiniteSet(Copiers) /\ IsFiniteSet(Counting)
           /\ Cardinality(Way) \in Nat /\ Cardinality(Copiers) \in Nat
           /\ Cardinality(Counting) \in Nat
           /\ \A c \in Chunk : /\ IsFiniteSet(WayOf(c)) /\ Cardinality(WayOf(c)) \in Nat
                               /\ IsFiniteSet(Copying(c)) /\ Cardinality(Copying(c)) \in Nat
<1>1. IsFiniteSet(Way)
  BY WayIs, PartFinite, FS_Subset
<1>2. IsFiniteSet(Copiers)
  BY FS_Subset, AioAssumption DEF Copiers
<1>3. IsFiniteSet(Counting)
  BY FS_Subset, ThreadFinite DEF Counting
<1>4. ASSUME NEW c \in Chunk PROVE IsFiniteSet(WayOf(c)) /\ IsFiniteSet(Copying(c))
  <2>1. WayOf(c) \subseteq Way /\ Copying(c) \subseteq User
    BY DEF WayOf, Copying
  <2> QED BY <1>1, <2>1, FS_Subset, AioAssumption
<1> QED BY <1>1, <1>2, <1>3, <1>4, FS_CardinalityType

\* Who copies what.
LEMMA CopyingIs ==
    /\ \A c, t : t \in Copying(c) <=> t \in Copiers /\ chunk[t][1] = c
    /\ \A c, t : t \in Copying(c)' <=> t \in Copiers' /\ chunk'[t][1] = c
BY DEF Copying, Copiers, Cur

LEMMA SameBooks ==
    ASSUME Books, Same PROVE Ledger' /\ CopyOrder'
<1>1. \A c : Copying(c)' = Copying(c) /\ WayOf(c)' = WayOf(c)
  BY CopyingIs DEF Same, WayOf
<1>2. Ledger'
  BY <1>1 DEF Books, Ledger, Same, transfers
<1>3. CopyOrder'
  BY <1>1 DEF Books, CopyOrder, Same
<1> QED BY <1>2, <1>3

LEMMA BegunBooks ==
    ASSUME Books, NEW t, NEW c \in Chunk, Begun(t, c) PROVE Ledger' /\ CopyOrder'
<1>0. Ledger /\ WayTyped /\ t \notin Copiers
  BY DEF Books, Ways, Begun
<1>1. tracker[c] = 0 /\ WayOf(c) = {} /\ Copying(c) = {}
  <2>1. ~ (tracker[c] > 0) /\ tracker[c] = Cardinality(WayOf(c)) + Cardinality(Copying(c))
    BY <1>0 DEF Ledger, Begun
  <2>2. Cardinality(WayOf(c)) = 0 /\ Cardinality(Copying(c)) = 0
    BY <1>0, <2>1, BooksFinite
  <2> QED BY <1>0, <2>1, <2>2, BooksFinite, FS_EmptySet
<1>2. \A d : WayOf(d)' = WayOf(d)
  BY DEF Begun, WayOf
<1>3. Copying(c)' = {t} /\ \A d \in Chunk \ {c} : Copying(d)' = Copying(d)
  <2>1. \A u : u \in Copying(c)' <=> u = t
    BY <1>1, CopyingIs DEF Begun
  <2>2. \A d, u : d # c => (u \in Copying(d)' <=> u \in Copying(d))
    BY <1>0, CopyingIs DEF Begun
  <2> QED BY <2>1, <2>2
<1>4. Cardinality(Copying(c)') = 1 /\ Cardinality(Copiers') = Cardinality(Copiers) + 1
  <2>1. IsFiniteSet(Copiers)
    BY <1>0, BooksFinite
  <2>2. Cardinality(Copiers \cup {t}) = Cardinality(Copiers) + 1
    BY <1>0, <2>1, FS_AddElement
  <2> QED BY <1>3, <2>2, FS_Singleton DEF Begun
<1>5. /\ tracker' \in [Chunk -> Int] /\ tracker'[c] = 1
      /\ \A d \in Chunk \ {c} : tracker'[d] = tracker[d]
  BY <1>0 DEF Ledger, Begun
<1>6. /\ status' \in [Chunk -> Moving \cup {"ALLOCATED", "SWAPPED"}] /\ status'[c] \in Moving
      /\ \A d \in Chunk \ {c} : status'[d] = status[d]
  BY <1>0 DEF Ledger, Begun, Moving
<1>7. \A d \in Chunk : tracker'[d] = Cardinality(WayOf(d)') + Cardinality(Copying(d)')
  <2>1. Cardinality(WayOf(c)') = 0
    BY <1>1, <1>2, FS_EmptySet
  <2>2. tracker'[c] = Cardinality(WayOf(c)') + Cardinality(Copying(c)')
    BY <1>4, <1>5, <2>1
  <2> QED BY <1>0, <1>2, <1>3, <1>5, <2>2 DEF Ledger
<1>8. \A d \in Chunk : status'[d] \in Moving <=> tracker'[d] > 0
  BY <1>0, <1>5, <1>6 DEF Ledger
<1>9. total' \in Int /\ total' = Cardinality(Way') + Cardinality(Copiers') + Cardinality(Counting')
  BY <1>0, <1>4, BooksFinite DEF Ledger, Begun
<1>10. CopyOrder'
  <2>1. \A u \in Copiers : chunk[u][1] # c /\ chunk'[u] = chunk[u]
    BY <1>1, CopyingIs DEF Begun
  <2>2. Copiers' = Copiers \cup {t} /\ chunk'[t][1] = c /\ Way' = Way
    BY DEF Begun
  <2>3. \A p \in Way : p[1] # c
    BY <1>1 DEF WayOf
  <2> QED BY <2>1, <2>2, <2>3 DEF CopyOrder, Books
<1>11. Ledger'
  BY <1>5, <1>6, <1>7, <1>8, <1>9 DEF Ledger, Moving
<1> QED BY <1>10, <1>11

LEMMA ScheduledBooks ==
    ASSUME Books, NEW t, NEW c \in Chunk, NEW n \in Nat, Scheduled(t, c, n)
    PROVE  Ledger' /\ CopyOrder'
<1> DEFINE p == <<c, n>>
<1>0. Ledger /\ WayTyped /\ CopyOrder /\ t \in Copiers /\ p \in Part /\ chunk[t][1] = c /\ p[1] = c
      /\ p[2] = n
  BY DEF Books, Ways, Scheduled
<1>1. p \notin WayOf(c) /\ p \notin Way
  <2>1. \A q \in WayOf(c) : q[2] < n
    BY <1>0 DEF CopyOrder, Scheduled, WayOf
  <2> QED BY <1>0, <2>1 DEF WayOf
<1> HIDE DEF p
<1>2. /\ Way' = Way \cup {p} /\ WayOf(c)' = WayOf(c) \cup {p}
      /\ \A d \in Chunk \ {c} : WayOf(d)' = WayOf(d)
  BY <1>0 DEF Scheduled, WayOf, p
<1>3. \A d : Copying(d)' = Copying(d)
  <2>1. \A u \in Copiers : chunk'[u][1] = chunk[u][1]
    BY DEF Scheduled
  <2>2. \A d, u : u \in Copying(d)' <=> u \in Copying(d)
    BY <2>1, CopyingIs DEF Scheduled
  <2> QED BY <2>2
<1>4. /\ Cardinality(Way') = Cardinality(Way) + 1
      /\ Cardinality(WayOf(c)') = Cardinality(WayOf(c)) + 1
  <2>1. IsFiniteSet(Way) /\ IsFiniteSet(WayOf(c))
    BY <1>0, BooksFinite
  <2>2. Cardinality(Way \cup {p}) = Cardinality(Way) + 1
    BY <1>1, <2>1, FS_AddElement
  <2>3. Cardinality(WayOf(c) \cup {p}) = Cardinality(WayOf(c)) + 1
    BY <1>1, <2>1, FS_AddElement
  <2> QED BY <1>2, <2>2, <2>3
<1>5. /\ tracker' \in [Chunk -> Int] /\ tracker'[c] = tracker[c] + 1
      /\ \A d \in Chunk \ {c} : tracker'[d] = tracker[d]
  BY <1>0 DEF Ledger, Scheduled
<1>6. /\ tracker[c] \in Nat /\ tracker[c] > 0
  <2>1. Copying(c) # {}
    BY <1>0, CopyingIs
  <2>2. Cardinality(Copying(c)) # 0
    BY <1>0, <2>1, BooksFinite, FS_EmptySet
  <2>3. Cardinality(WayOf(c)) \in Nat /\ Cardinality(Copying(c)) \in Nat
    BY <1>0, BooksFinite
  <2>4. tracker[c] = Cardinality(WayOf(c)) + Cardinality(Copying(c))
    BY <1>0 DEF Ledger
  <2> QED BY <2>2, <2>3, <2>4
<1>7. \A d \in Chunk : tracker'[d] = Cardinality(WayOf(d)') + Cardinality(Copying(d)')
  <2>1. tracker'[c] = Cardinality(WayOf(c)') + Cardinality(Copying(c)')
    BY <1>0, <1>3, <1>4, <1>5, BooksFinite DEF Ledger
  <2> QED BY <1>0, <1>2, <1>3, <1>5, <2>1 DEF Ledger
<1>8. \A d \in Chunk : status'[d] \in Moving <=> tracker'[d] > 0
  BY <1>0, <1>5, <1>6 DEF Ledger, Scheduled
<1>9. total' \in Int /\ total' = Cardinality(Way') + Cardinality(Copiers') + Cardinality(Counting')
  BY <1>0, <1>4, BooksFinite DEF Ledger, Scheduled
<1>10. CopyOrder'
  <2>1. \A u \in Copiers \ {t} : chunk[u][1] # c /\ chunk'[u] = chunk[u]
    BY <1>0 DEF Scheduled, CopyOrder
  <2>2. Copiers' = Copiers /\ chunk'[t][1] = c /\ chunk'[t][2] = n + 1 /\ chunk[t][2] = n
    BY DEF Scheduled
  <2>3. \A q \in Way : q[2] \in Nat
    BY <1>0, WayIs, PartIs
  <2>4. \A q \in Way : q[1] = c => q[2] < n + 1
    BY <1>0, <2>2, <2>3 DEF CopyOrder
  <2>5. p[2] < n + 1
    BY <1>0
  <2>6. ASSUME NEW u \in Copiers, NEW q \in Way', q[1] = chunk'[u][1] PROVE q[2] < chunk'[u][2]
    BY <1>0, <1>2, <2>1, <2>2, <2>4, <2>5, <2>6 DEF CopyOrder
  <2>7. ASSUME NEW u \in Copiers, NEW v \in Copiers, chunk'[u][1] = chunk'[v][1] PROVE u = v
    BY <1>0, <2>1, <2>2, <2>7 DEF CopyOrder
  <2> QED BY <2>2, <2>6, <2>7 DEF CopyOrder
<1>11. Ledger'
  BY <1>0, <1>5, <1>7, <1>8, <1>9 DEF Ledger, Scheduled
<1> QED BY <1>10, <1>11

\* One less on a tracker completes the transfer when it is the last.
LEMMA LessCounts ==
    ASSUME Ledger, NEW c \in Chunk, tracker[c] > 0, Less(c)
    PROVE  /\ tracker' \in [Chunk -> Int] /\ tracker'[c] = tracker[c] - 1
           /\ \A d \in Chunk \ {c} : tracker'[d] = tracker[d]
           /\ status' \in [Chunk -> Moving \cup {"ALLOCATED", "SWAPPED"}]
           /\ \A d \in Chunk : status'[d] \in Moving <=> tracker'[d] > 0
<1>1. /\ tracker' \in [Chunk -> Int] /\ tracker'[c] = tracker[c] - 1
      /\ \A d \in Chunk \ {c} : tracker'[d] = tracker[d]
  BY DEF Ledger, Less
<1>2. CASE tracker[c] = 1
  <2>1. /\ status' \in [Chunk -> Moving \cup {"ALLOCATED", "SWAPPED"}]
        /\ status'[c] \notin Moving /\ \A d \in Chunk \ {c} : status'[d] = status[d]
    BY <1>2 DEF Ledger, Less, Completed, Moving
  <2>2. ~ (tracker'[c] > 0)
    BY <1>1, <1>2
  <2> QED BY <1>1, <2>1, <2>2 DEF Ledger
<1>3. CASE tracker[c] # 1
  <2>1. status' = status
    BY <1>3 DEF Less
  <2>2. tracker[c] \in Int /\ tracker'[c] > 0
    BY <1>1, <1>3 DEF Ledger
  <2> QED BY <1>1, <2>1, <2>2 DEF Ledger
<1> QED BY <1>1, <1>2, <1>3

LEMMA CopyDoneBooks ==
    ASSUME Books, NEW t, NEW c \in Chunk, CopyDone(t, c) PROVE Ledger' /\ CopyOrder'
<1>0. Ledger /\ WayTyped /\ CopyOrder /\ t \in Copiers /\ t \in Copying(c)
  BY CopyingIs DEF Books, Ways, CopyDone, Cur
<1>1. \A d : WayOf(d)' = WayOf(d)
  BY DEF CopyDone, WayOf
<1>2. Copying(c)' = Copying(c) \ {t} /\ \A d \in Chunk \ {c} : Copying(d)' = Copying(d)
  <2>1. chunk[t][1] = c
    BY <1>0, CopyingIs
  <2>2. \A u : u \in Copying(c)' <=> u \in Copying(c) \ {t}
    BY CopyingIs DEF CopyDone
  <2>3. ASSUME NEW d \in Chunk \ {c} PROVE Copying(d)' = Copying(d)
    <3>1. \A u : u \in Copying(d)' <=> u \in Copying(d)
      BY <2>1, CopyingIs DEF CopyDone
    <3> QED BY <3>1
  <2>4. Copying(c)' = Copying(c) \ {t}
    BY <2>2
  <2> QED BY <2>3, <2>4
<1>3. /\ Cardinality(Copying(c)') = Cardinality(Copying(c)) - 1
      /\ Cardinality(Copiers') = Cardinality(Copiers) - 1
  <2>1. IsFiniteSet(Copying(c)) /\ IsFiniteSet(Copiers)
    BY <1>0, BooksFinite
  <2> QED BY <1>0, <1>2, <2>1, FS_RemoveElement DEF CopyDone
<1>4. Cardinality(WayOf(c)) \in Nat /\ Cardinality(Copying(c)) \in Nat \ {0}
  BY <1>0, BooksFinite, FS_EmptySet
<1>5. tracker[c] = Cardinality(WayOf(c)) + Cardinality(Copying(c)) /\ tracker[c] > 0
  BY <1>0, <1>4 DEF Ledger
<1>6. /\ tracker' \in [Chunk -> Int] /\ tracker'[c] = tracker[c] - 1
      /\ \A d \in Chunk \ {c} : tracker'[d] = tracker[d]
      /\ status' \in [Chunk -> Moving \cup {"ALLOCATED", "SWAPPED"}]
      /\ \A d \in Chunk : status'[d] \in Moving <=> tracker'[d] > 0
  BY <1>0, <1>5, LessCounts DEF CopyDone
<1>7. \A d \in Chunk : tracker'[d] = Cardinality(WayOf(d)') + Cardinality(Copying(d)')
  <2>1. tracker'[c] = Cardinality(WayOf(c)') + Cardinality(Copying(c)')
    BY <1>1, <1>3, <1>4, <1>5, <1>6
  <2> QED BY <1>0, <1>1, <1>2, <1>6, <2>1 DEF Ledger
<1>8. total' \in Int /\ total' = Cardinality(Way') + Cardinality(Copiers') + Cardinality(Counting')
  BY <1>0, <1>3, BooksFinite DEF Ledger, CopyDone
<1>9. CopyOrder'
  BY <1>0 DEF CopyOrder, CopyDone
<1>10. Ledger'
  BY <1>6, <1>7, <1>8 DEF Ledger, Moving
<1> QED BY <1>9, <1>10

LEMMA PartDoneBooks ==
    ASSUME Books, NEW t, NEW p \in Part, PartDone(t, p) PROVE Ledger' /\ CopyOrder'
<1> DEFINE c == p[1]
<1>0. Ledger /\ WayTyped /\ CopyOrder /\ c \in Chunk /\ p \in Way /\ p \in WayOf(c)
      /\ t \notin Counting /\ Less(c)
  BY PartIs DEF Books, Ways, PartDone, WayOf
<1>1. WayOf(c)' = WayOf(c) \ {p} /\ \A d \in Chunk \ {c} : WayOf(d)' = WayOf(d)
  BY DEF PartDone, WayOf
<1> HIDE DEF c
<1>2. \A d : Copying(d)' = Copying(d)
  <2>1. \A d, u : u \in Copying(d)' <=> u \in Copying(d)
    BY CopyingIs DEF PartDone
  <2> QED BY <2>1
<1>3. /\ Cardinality(WayOf(c)') = Cardinality(WayOf(c)) - 1
      /\ Cardinality(Way') = Cardinality(Way) - 1
      /\ Cardinality(Counting') = Cardinality(Counting) + 1
  <2>1. IsFiniteSet(Way) /\ IsFiniteSet(WayOf(c)) /\ IsFiniteSet(Counting)
    BY <1>0, BooksFinite
  <2>2. Cardinality(WayOf(c)') = Cardinality(WayOf(c)) - 1
    BY <1>0, <1>1, <2>1, FS_RemoveElement
  <2>3. Cardinality(Way \ {p}) = Cardinality(Way) - 1
    BY <1>0, <2>1, FS_RemoveElement
  <2>4. Cardinality(Counting \cup {t}) = Cardinality(Counting) + 1
    BY <1>0, <2>1, FS_AddElement
  <2> QED BY <2>2, <2>3, <2>4 DEF PartDone
<1>4. Cardinality(WayOf(c)) \in Nat \ {0} /\ Cardinality(Copying(c)) \in Nat
  BY <1>0, BooksFinite, FS_EmptySet
<1>5. tracker[c] = Cardinality(WayOf(c)) + Cardinality(Copying(c)) /\ tracker[c] > 0
  BY <1>0, <1>4 DEF Ledger
<1>6. /\ tracker' \in [Chunk -> Int] /\ tracker'[c] = tracker[c] - 1
      /\ \A d \in Chunk \ {c} : tracker'[d] = tracker[d]
      /\ status' \in [Chunk -> Moving \cup {"ALLOCATED", "SWAPPED"}]
      /\ \A d \in Chunk : status'[d] \in Moving <=> tracker'[d] > 0
  BY <1>0, <1>5, LessCounts
<1>7. \A d \in Chunk : tracker'[d] = Cardinality(WayOf(d)') + Cardinality(Copying(d)')
  <2>1. tracker'[c] = Cardinality(WayOf(c)') + Cardinality(Copying(c)')
    BY <1>2, <1>3, <1>4, <1>5, <1>6
  <2> QED BY <1>0, <1>1, <1>2, <1>6, <2>1 DEF Ledger
<1>8. total' \in Int /\ total' = Cardinality(Way') + Cardinality(Copiers') + Cardinality(Counting')
  BY <1>0, <1>3, BooksFinite DEF Ledger, PartDone
<1>9. CopyOrder'
  BY <1>0 DEF CopyOrder, PartDone
<1>10. Ledger'
  BY <1>6, <1>7, <1>8 DEF Ledger, Moving
<1> QED BY <1>9, <1>10

LEMMA CountDoneBooks ==
    ASSUME Books, NEW t, CountDone(t) PROVE Ledger' /\ CopyOrder'
<1>0. Ledger /\ WayTyped /\ CopyOrder
  BY DEF Books, Ways
<1>1. \A d : Copying(d)' = Copying(d) /\ WayOf(d)' = WayOf(d)
  <2>1. \A d, u : u \in Copying(d)' <=> u \in Copying(d)
    BY CopyingIs DEF CountDone
  <2>2. \A d : WayOf(d)' = WayOf(d)
    BY DEF CountDone, WayOf
  <2>3. \A d : Copying(d)' = Copying(d)
    BY <2>1
  <2> QED BY <2>2, <2>3
<1>2. Cardinality(Counting') = Cardinality(Counting) - 1
  <2>1. IsFiniteSet(Counting)
    BY <1>0, BooksFinite
  <2> QED BY <2>1, FS_RemoveElement DEF CountDone
<1>3. total' \in Int /\ total' = Cardinality(Way') + Cardinality(Copiers') + Cardinality(Counting')
  BY <1>0, <1>2, BooksFinite DEF Ledger, CountDone
<1>4. CopyOrder'
  BY <1>0 DEF CopyOrder, CountDone
<1>5. Ledger'
  BY <1>0, <1>1, <1>3 DEF Ledger, CountDone
<1> QED BY <1>4, <1>5

\* Every effect keeps the books.
LEMMA EffectBooks ==
    ASSUME Books, NEW t \in Thread, Effect(t) PROVE Ledger' /\ CopyOrder'
<1>1. CASE CopyDone(t, Cur(t))
  <2>1. t \in User /\ pc[t] = "copy"
    BY <1>1 DEF CopyDone, Copiers
  <2>2. Cur(t) \in Chunk
    BY <2>1 DEF Books, Inv, Busy, Typed, Cur
  <2> QED BY <1>1, <2>2, CopyDoneBooks
<1> QED BY <1>1, SameBooks, BegunBooks, ScheduledBooks, PartDoneBooks, CountDoneBooks DEF Effect
-----------------------------------------------------------------------------
(* Where threads go, and what that means for the end of the program.       *)

Goes(t, p) ==
    /\ Moves(t, p) /\ p \in PcValues /\ (p = "copy" => t \in User)
    /\ mutex' \in {mutex, t, NoThread} /\ waiter' \in {waiter, t, NoThread}
    /\ working' \in {working, FALSE}
    /\ freed' = freed \/ (freed' = TRUE /\ t \in User /\ p \in Freed)
    /\ \A u \in User \ {t} : chunk'[u] = chunk[u]
    /\ t \in User =>
         /\ p # "idle" /\ chunk'[t] = Null => chunk[t] = Null
         /\ pc[t] = "idle" /\ p # "idle" =>
               ~ Closing /\ (chunk'[t] = Null => \A u \in User : pc[u] = "idle")
         /\ p \in Gone => total' = 0
         /\ pc[t] \in Freed => p \in Freed
    /\ p = "timed" => Way' # {}
    /\ Way \subseteq Way' \/ waiter = t

\* With nothing queued there is nothing to count, and nobody starts while the program ends.
LEMMA NothingCounted ==
    ASSUME Books, total = 0 PROVE Way = {} /\ Copiers = {} /\ Counting = {}
<1>1. WayTyped /\ total = Cardinality(Way) + Cardinality(Copiers) + Cardinality(Counting)
  BY DEF Books, Ways, Ledger
<1>2. Cardinality(Way) = 0 /\ Cardinality(Copiers) = 0 /\ Cardinality(Counting) = 0
  BY <1>1, BooksFinite
<1> QED BY <1>1, <1>2, BooksFinite, FS_EmptySet

LEMMA ZeroStays ==
    ASSUME Books, NEW t, Effect(t), total = 0, Closing PROVE total' = 0
BY NothingCounted DEF Effect, Same, transfers, CopyDone, CountDone, Begun, Scheduled, PartDone

\* The rest of the invariant follows for any step of a thread.
LEMMA GoesKeeps ==
    ASSUME Books, NEW t \in Thread, NEW p, Goes(t, p), Effect(t)
    PROVE  TimedForPart' /\ Alone' /\ Through' /\ FreedBy' /\ RestTyped'
<1>0. /\ User \subseteq Thread /\ NoThread \notin Thread
      /\ pc'[t] = p
      /\ \A u \in (Thread \cup Worker) \ {t} :
            pc'[u] = pc[u] \/ (pc[u] = "sleep" /\ pc'[u] = "wake")
  BY AioAssumption DEF Thread, Goes, Moves
<1>1. TimedForPart'
  <2>1. ASSUME NEW u \in Thread, pc'[u] = "timed" PROVE Way' # {}
    <3>1. CASE u = t
      BY <1>0, <2>1, <3>1 DEF Goes
    <3>2. CASE u # t
      <4>1. pc[u] = "timed" /\ waiter = u /\ Way # {}
        BY <1>0, <2>1, <3>2 DEF Books, Inv, WaiterWorks, Processing, TimedForPart
      <4> QED BY <3>2, <4>1 DEF Goes
    <3> QED BY <3>1, <3>2
  <2> QED BY <2>1 DEF TimedForPart
<1>2. Alone'
  <2>1. SUFFICES ASSUME NEW u \in User, NEW v \in User, u # v, chunk'[u] = Null, pc'[u] # "idle"
                 PROVE  pc'[v] = "idle"
    BY DEF Alone
  <2>2. CASE u = t
    <3>1. pc[v] = "idle" /\ v # t
      BY <1>0, <2>1, <2>2 DEF Goes, Books, Alone
    <3> QED BY <1>0, <3>1
  <2>3. CASE u # t
    <3>1. chunk[u] = Null /\ pc[u] # "idle"
      BY <1>0, <2>1, <2>3 DEF Goes
    <3>2. pc[v] = "idle" /\ Closing
      BY <2>1, <3>1 DEF Books, Alone, Closing
    <3> QED BY <1>0, <3>2 DEF Goes
  <2> QED BY <2>2, <2>3
<1>3. Through'
  <2>1. SUFFICES ASSUME NEW u \in User, pc'[u] \in Gone PROVE total' = 0
    BY DEF Through, Gone
  <2>2. CASE u = t
    BY <1>0, <2>1, <2>2 DEF Goes
  <2>3. CASE u # t
    <3>1. pc[u] \in Gone
      BY <1>0, <2>1, <2>3 DEF Gone
    <3>2. total = 0 /\ chunk[u] = Null /\ pc[u] # "idle"
      BY <3>1 DEF Books, Through, Inv, Busy, AtEnd, Gone
    <3> QED BY <3>2, ZeroStays DEF Closing
  <2> QED BY <2>2, <2>3
<1>4. FreedBy'
  <2>1. CASE freed' = freed
    <3>1. SUFFICES ASSUME freed PROVE \E u \in User : pc'[u] \in Freed
      BY <2>1 DEF FreedBy, Freed
    <3>2. PICK u \in User : pc[u] \in Freed
      BY <3>1 DEF Books, FreedBy
    <3>3. CASE u = t
      BY <1>0, <3>2, <3>3 DEF Goes
    <3>4. CASE u # t
      BY <1>0, <3>2, <3>4 DEF Freed
    <3> QED BY <3>3, <3>4
  <2>2. CASE freed' # freed
    BY <1>0, <2>2 DEF Goes, FreedBy, Freed
  <2> QED BY <2>1, <2>2
<1>5. RestTyped'
  <2>1. \A u \in Thread \cup Worker : pc'[u] \in PcValues
    BY <1>0 DEF Books, RestTyped, PcValues, Goes
  <2>2. Arriver \in Thread \ User
    BY AioAssumption DEF Thread
  <2>3. pc'[Arriver] # "copy"
    BY <1>0, <2>2 DEF Books, RestTyped, Goes
  <2> QED BY <2>1, <2>3 DEF Books, RestTyped, Goes, PcValues
<1> QED BY <1>1, <1>2, <1>3, <1>4, <1>5

\* Who copies and who counts after a thread has gone on.
LEMMA MovesCounts ==
    ASSUME NEW t \in Thread, NEW p, Moves(t, p)
    PROVE  /\ p = "copy" /\ t \in User => Copiers' = Copiers \cup {t}
           /\ p # "copy" => Copiers' = Copiers \ {t}
           /\ p = "count" => Counting' = Counting \cup {t}
           /\ p # "count" => Counting' = Counting \ {t}
<1>0. User \subseteq Thread
  BY DEF Thread
<1>1. \A u \in Thread :
         u \in Copiers' <=> u \in User /\ (IF u = t THEN p = "copy" ELSE u \in Copiers)
  BY <1>0 DEF Copiers, Moves
<1>2. \A u \in Thread : u \in Counting' <=> (IF u = t THEN p = "count" ELSE u \in Counting)
  BY <1>0 DEF Counting, Moves
<1>3. Copiers \subseteq User /\ Copiers' \subseteq User /\ Counting \subseteq Thread
      /\ Counting' \subseteq Thread
  BY DEF Copiers, Counting
<1>4. ASSUME p = "copy", t \in User PROVE Copiers' = Copiers \cup {t}
  BY <1>0, <1>1, <1>3, <1>4
<1>5. ASSUME p # "copy" PROVE Copiers' = Copiers \ {t}
  BY <1>0, <1>1, <1>3, <1>5
<1>6. ASSUME p = "count" PROVE Counting' = Counting \cup {t}
  BY <1>2, <1>3, <1>6
<1>7. ASSUME p # "count" PROVE Counting' = Counting \ {t}
  BY <1>2, <1>3, <1>7
<1> QED BY <1>4, <1>5, <1>6, <1>7

\* A step that queues and counts nothing.
LEMMA QuietSame ==
    ASSUME NEW t \in Thread, NEW p, Moves(t, p), {p, pc[t]} \cap {"copy", "count"} = {},
           UNCHANGED transfers, Way' = Way, \A u \in User \ {t} : chunk'[u] = chunk[u]
    PROVE  Same
<1>1. t \notin Copiers /\ t \notin Counting /\ Copiers \subseteq User
  BY DEF Copiers, Counting
<1>2. p # "copy" /\ p # "count"
  OBVIOUS
<1>3. Copiers' = Copiers \ {t} /\ Counting' = Counting \ {t}
  BY <1>2, MovesCounts
<1>4. Copiers' = Copiers /\ Counting' = Counting
  BY <1>1, <1>3
<1> QED BY <1>1, <1>4 DEF Same

\* What has to be shown of each step of a thread.
KeepsBooks(t) == Ways' /\ Effect(t) /\ \E p : Goes(t, p)

LEMMA StepBooks ==
    ASSUME Books, NEW t \in Thread, Inv', KeepsBooks(t) PROVE Books'
BY EffectBooks, GoesKeeps DEF Books, KeepsBooks
-----------------------------------------------------------------------------
(* The steps of threads, one by one.                                       *)

\* Calls of the program.
LEMMA BeginBooks ==
    ASSUME Books, NEW t \in User, Begin(t) \/ Join(t) PROVE KeepsBooks(t)
<1>0. t \in Thread /\ Typed /\ Ways /\ pc[t] = "idle" /\ ~ Closing
  BY DEF Thread, Books, Inv, Begin, Join, Locks
<1>1. Ways' /\ Way' = Way
  BY <1>0, WaysSame DEF Begin, Join
<1>2. CASE Begin(t)
  <2>1. PICK c \in Chunk :
           /\ Locks(t, "idle", "copy") /\ status[c] \notin Moving
           /\ status' = [status EXCEPT ![c] = IF @ = "ALLOCATED" THEN "SWAPOUT" ELSE "SWAPIN"]
           /\ tracker' = [tracker EXCEPT ![c] = 1] /\ total' = total + 1
           /\ chunk' = [chunk EXCEPT ![t] = <<c, 1>>] /\ UNCHANGED <<waiter, working, freed>>
    BY <1>2 DEF Begin
  <2>2. Moves(t, "copy")
    BY <1>0, <2>1, GotoMoves DEF Locks, Goto
  <2>3. /\ chunk'[t] = <<c, 1>> /\ chunk'[t] # Null
        /\ \A u \in User \ {t} : chunk'[u] = chunk[u]
    BY <1>0, <2>1, AioAssumption DEF Typed
  <2>4. Copiers' = Copiers \cup {t} /\ Counting' = Counting /\ t \notin Copiers
        /\ Copiers \subseteq User
    BY <1>0, <2>2, MovesCounts DEF Copiers, Counting
  <2>5. Begun(t, c)
    BY <1>0, <1>1, <2>1, <2>3, <2>4 DEF Begun
  <2>6. Goes(t, "copy")
    BY <1>0, <1>1, <2>1, <2>2, <2>3 DEF Goes, Locks, PcValues, Gone, Freed
  <2> QED BY <1>1, <2>5, <2>6 DEF KeepsBooks, Effect
<1>3. CASE Join(t)
  <2>1. PICK c \in Chunk :
           /\ Locks(t, "idle", "await") /\ chunk' = [chunk EXCEPT ![t] = <<c, Parts[c] + 1>>]
           /\ UNCHANGED <<transfers, waiter, working, freed>>
    BY <1>3 DEF Join
  <2>2. Moves(t, "await")
    BY <1>0, <2>1, GotoMoves DEF Locks, Goto
  <2>3. chunk'[t] # Null /\ \A u \in User \ {t} : chunk'[u] = chunk[u]
    <3>1. Parts[c] + 1 \in Nat /\ <<c, Parts[c] + 1>> \in Chunk \X Nat
      BY AioAssumption
    <3> QED BY <2>1, <3>1, AioAssumption, <1>0 DEF Typed
  <2>4. Same
    BY <1>0, <1>1, <2>1, <2>2, <2>3, QuietSame
  <2>5. Goes(t, "await")
    BY <1>0, <1>1, <2>1, <2>2, <2>3 DEF Goes, Locks, PcValues, Gone, Freed
  <2> QED BY <1>1, <2>4, <2>5 DEF KeepsBooks, Effect
<1> QED BY <1>2, <1>3

LEMMA CopyBooks ==
    ASSUME Books, NEW t \in User, ScheduleCopy(t) \/ Copied(t) PROVE KeepsBooks(t)
<1>0. t \in Thread /\ Typed /\ Ways /\ pc[t] = "copy" /\ chunk[t] # Null /\ t \in Copiers
      /\ Copiers \subseteq User
  BY DEF Thread, Books, Inv, Busy, ScheduleCopy, Copied, Copiers
<1>1. PICK c \in Chunk, n \in Nat : chunk[t] = <<c, n>>
  BY <1>0 DEF Typed
<1>2. CASE ScheduleCopy(t)
  <2>1. /\ <<c, n>> \in Part /\ tracker' = [tracker EXCEPT ![c] = @ + 1] /\ total' = total + 1
        /\ requests' = Append(requests, <<c, n>>) /\ chunk' = [chunk EXCEPT ![t] = <<c, n + 1>>]
        /\ UNCHANGED <<status, held, kernel, events, taken, mutex, waiter, working, freed, pc>>
    BY <1>1, <1>2 DEF ScheduleCopy, Cur
  <2>2. <<c, n>> \notin Way
    BY <1>0, <1>1 DEF Books, CopyOrder
  <2>3. Ways' /\ Way' = Way \cup {<<c, n>>}
    BY <1>0, <2>1, <2>2, WayScheduled
  <2>4. Moves(t, "copy") /\ Copiers' = Copiers /\ Counting' = Counting
    BY <1>0, <2>1 DEF Moves, Typed, Copiers, Counting
  <2>5. chunk'[t] = <<c, n + 1>> /\ chunk'[t] # Null /\ \A u \in User \ {t} : chunk'[u] = chunk[u]
    <3>1. <<c, n + 1>> \in Chunk \X Nat
      OBVIOUS
    <3> QED BY <1>0, <2>1, <3>1, AioAssumption DEF Typed
  <2>6. Scheduled(t, c, n)
    BY <1>0, <1>1, <2>1, <2>3, <2>4, <2>5 DEF Scheduled
  <2>7. Goes(t, "copy")
    BY <1>0, <2>1, <2>3, <2>4, <2>5 DEF Goes, PcValues, Gone, Freed
  <2> QED BY <2>3, <2>6, <2>7 DEF KeepsBooks, Effect
<1>3. CASE Copied(t)
  <2>1. Ways' /\ Way' = Way
    BY <1>0, <1>3, WaysSame DEF Copied
  <2>2. Moves(t, "await")
    BY <1>0, <1>3, GotoMoves DEF Copied, Counted
  <2>3. Copiers' = Copiers \ {t} /\ Counting' = Counting
    BY <1>0, <2>2, MovesCounts DEF Counting
  <2>4. Less(c) /\ total' = total - 1 /\ UNCHANGED <<mutex, waiter, working, freed, chunk>>
    BY <1>1, <1>3 DEF Copied, Counted, Less, Cur
  <2>5. CopyDone(t, Cur(t))
    BY <1>0, <1>1, <2>1, <2>3, <2>4 DEF CopyDone, Cur
  <2>6. Goes(t, "await")
    BY <1>0, <2>1, <2>2, <2>4 DEF Goes, PcValues, Gone, Freed
  <2> QED BY <2>1, <2>5, <2>6 DEF KeepsBooks, Effect
<1> QED BY <1>2, <1>3

LEMMA AwaitBooks ==
    ASSUME Books, NEW t \in User, Await(t) \/ WakeUp(t) PROVE KeepsBooks(t)
<1>0. t \in Thread /\ Typed /\ Ways /\ pc[t] \in {"await", "wake"} /\ chunk[t] # Null
      /\ UNCHANGED <<transfers, waiter, working, freed>>
  BY DEF Thread, Books, Inv, Busy, Await, WakeUp, Locks
<1>1. Ways' /\ Way' = Way
  BY <1>0, WaysSame DEF Await, WakeUp
<1>2. PICK p \in {"check", "idle", "await"} :
         /\ Goto(t, p) /\ mutex' \in {mutex, t, NoThread}
         /\ \/ chunk' = chunk
            \/ p = "idle" /\ chunk' = [chunk EXCEPT ![t] = Null]
  BY DEF Await, WakeUp, Locks
<1>3. Moves(t, p)
  BY <1>0, <1>2, GotoMoves DEF Goto
<1>4. \A u \in User \ {t} : chunk'[u] = chunk[u]
  BY <1>0, <1>2 DEF Typed
<1>5. Same
  BY <1>0, <1>1, <1>2, <1>3, <1>4, QuietSame
<1>6. Goes(t, p)
  BY <1>0, <1>1, <1>2, <1>3, <1>4 DEF Goes, PcValues, Gone, Freed
<1> QED BY <1>1, <1>5, <1>6 DEF KeepsBooks, Effect

\* checkForAIO.  With something queued, nobody at work on it and the mutex taken, a part
\* is under way.
LEMMA SomethingUnderWay ==
    ASSUME Books, NEW t \in Thread, pc[t] = "check", waiter = NoThread, total # 0
    PROVE  Way # {}
<1>1. Counting = {}
  BY AioAssumption DEF Counting, Books, Inv, WaiterWorks, Processing
<1>2. ASSUME NEW u \in User, pc[u] = "copy" PROVE FALSE
  <2>1. u \in Thread /\ chunk[u] # Null
    BY <1>2 DEF Thread, Books, Inv, Busy
  <2>2. CASE Closing
    <3>1. PICK v \in User : pc[v] # "idle" /\ chunk[v] = Null
      BY <2>2 DEF Closing
    <3> QED BY <1>2, <2>1, <3>1 DEF Books, Alone
  <2>3. CASE ~ Closing
    BY <1>2, <2>1, <2>3 DEF Books, Inv, Guarded, Inside
  <2> QED BY <2>2, <2>3
<1>3. Copiers = {}
  BY <1>2 DEF Copiers
<1>4. total = Cardinality(Way) + Cardinality(Copiers) + Cardinality(Counting)
  BY DEF Books, Ledger
<1> QED BY <1>1, <1>3, <1>4, FS_EmptySet

LEMMA CheckBooks ==
    ASSUME Books, NEW t \in Thread,
           Occupied(t) \/ NothingQueued(t) \/ CountArrived(t) \/ Checked(t)
    PROVE  KeepsBooks(t)
<1>0. Typed /\ Ways /\ UNCHANGED <<status, tracker, queues, taken, working, freed, chunk>>
      /\ pc[t] \in {"check", "count", "work"}
  BY DEF Books, Inv, Occupied, NothingQueued, CountArrived, Checked, transfers
<1>1. Ways' /\ Way' = Way
  BY <1>0, WaysSame
<1>2. Return(t) \in {"unlock", "clean", "await"}
  BY DEF Return
<1>3. CASE CountArrived(t)
  <2>1. pc[t] = "count" /\ total' = total - 1 /\ UNCHANGED <<mutex, waiter>>
        /\ Moves(t, "work")
    BY <1>0, <1>3, GotoMoves DEF CountArrived, Goto
  <2>2. t \in Counting /\ t \notin Copiers
    BY <2>1 DEF Counting, Copiers
  <2>3. Copiers' = Copiers /\ Counting' = Counting \ {t} /\ Copiers \subseteq User
    BY <2>1, <2>2, MovesCounts DEF Copiers
  <2>4. CountDone(t)
    BY <1>0, <1>1, <2>1, <2>2, <2>3 DEF CountDone
  <2>5. Goes(t, "work")
    BY <1>0, <1>1, <2>1 DEF Goes, PcValues, Gone, Freed
  <2> QED BY <1>1, <2>4, <2>5 DEF KeepsBooks, Effect
<1>4. CASE Occupied(t) \/ NothingQueued(t) \/ Checked(t)
  <2>1. PICK p \in {"unlock", "clean", "await", "sleep"} :
           /\ Goto(t, p) /\ mutex' \in {mutex, NoThread} /\ waiter' \in {waiter, NoThread}
           /\ UNCHANGED transfers /\ pc[t] \in {"check", "work"}
    BY <1>2, <1>4 DEF Occupied, NothingQueued, Checked
  <2>2. Moves(t, p)
    BY <1>0, <2>1, GoMoves
  <2>3. Same
    BY <1>0, <1>1, <2>1, <2>2, QuietSame
  <2>4. Goes(t, p)
    BY <1>0, <1>1, <2>1, <2>2 DEF Goes, PcValues, Gone, Freed
  <2> QED BY <1>1, <2>3, <2>4 DEF KeepsBooks, Effect
<1> QED BY <1>3, <1>4

LEMMA EventsBooks ==
    ASSUME Books, NEW t \in Thread, GetEvents(t) \/ GetEventsTimed(t)
    PROVE  KeepsBooks(t)
<1>0. Typed /\ Ways /\ UNCHANGED <<transfers, requests, held, kernel, working, freed, chunk>>
      /\ pc[t] \in {"check", "timed"}
  BY DEF Books, Inv, GetEvents, GetEventsTimed, Locks
<1>1. \A u \in Thread : taken[u] = {}
  BY AioAssumption DEF GetEvents, GetEventsTimed, Locks, Books, Inv, WaiterWorks, Processing
<1>2. \E some \in SUBSET events : taken' = [taken EXCEPT ![t] = some] /\ events' = events \ some
  <2>1. events \ events = {}
    OBVIOUS
  <2> QED BY <2>1 DEF GetEvents, GetEventsTimed
<1>3. Ways' /\ Way' = Way
  BY <1>0, <1>1, <1>2, WayTaken DEF Books
<1>4. PICK p \in {"work", "timed"} :
         /\ Goto(t, p) /\ mutex' \in {mutex, t, NoThread} /\ waiter' \in {waiter, t}
         /\ p = "timed" => GetEvents(t)
  BY DEF GetEvents, GetEventsTimed, Locks
<1>5. Moves(t, p)
  BY <1>0, <1>4, GotoMoves DEF Goto
<1>6. p = "timed" => Way' # {}
  BY <1>3, <1>4, SomethingUnderWay DEF GetEvents
<1>7. Same
  BY <1>0, <1>3, <1>4, <1>5, QuietSame
<1>8. Goes(t, p)
  BY <1>0, <1>3, <1>4, <1>5, <1>6 DEF Goes, PcValues, Gone, Freed
<1> QED BY <1>3, <1>7, <1>8 DEF KeepsBooks, Effect

LEMMA ArrivedBooks ==
    ASSUME Books, NEW t \in Thread, AsyncIoArrived(t) PROVE KeepsBooks(t)
<1>0. Typed /\ Ways /\ TakenAlone /\ pc[t] = "work" /\ waiter = t
  BY WaiterTakes DEF Books, Inv, AsyncIoArrived, WaiterWorks, Processing
<1>1. PICK p \in taken[t] :
         /\ taken' = [taken EXCEPT ![t] = @ \ {p}] /\ Counted(t, p[1], "count")
         /\ UNCHANGED <<total, queues, mutex, waiter, working, freed, chunk>>
  BY DEF AsyncIoArrived
<1>2. p \in Part /\ Ways' /\ p \in Way /\ Way' = Way \ {p}
  BY <1>0, <1>1, WayArrived DEF Typed
<1>3. Moves(t, "count")
  BY <1>0, <1>1, GotoMoves DEF Counted
<1>4. t \notin Counting /\ t \notin Copiers /\ Copiers \subseteq User
  BY <1>0 DEF Counting, Copiers
<1>5. Counting' = Counting \cup {t} /\ Copiers' = Copiers
  BY <1>3, <1>4, MovesCounts
<1>6. PartDone(t, p)
  BY <1>1, <1>2, <1>4, <1>5 DEF PartDone, Less, Counted
<1>7. Goes(t, "count")
  BY <1>0, <1>1, <1>3 DEF Goes, PcValues, Gone, Freed
<1> QED BY <1>2, <1>6, <1>7 DEF KeepsBooks, Effect

\* The end of the program.
LEMMA EndBooks ==
    ASSUME Books, NEW t \in User, Exit(t) \/ WaitForCleanExit(t) \/ Close(t)
    PROVE  KeepsBooks(t)
<1>0. t \in Thread /\ Typed /\ Ways
  BY DEF Thread, Books, Inv
<1>1. PICK p \in {"clean", "check", "mfree", "close", "stop", "join", "closed"} :
         /\ Goto(t, p) /\ UNCHANGED <<transfers, mutex, waiter, chunk>>
         /\ pc[t] \in {"idle", "clean", "mfree", "close", "stop", "join"}
         /\ pc[t] = "idle" => \A u \in User : pc[u] = "idle"
         /\ pc[t] = "clean" /\ p \in Gone => total = 0
         /\ pc[t] = "idle" => p = "clean"
         /\ pc[t] \in Freed => p \in Freed
         /\ working' \in {working, FALSE}
         /\ freed' = freed \/ (freed' = TRUE /\ p \in Freed)
  BY DEF Exit, WaitForCleanExit, Close, LinearMfree, CloseFiles, StopWorkers, Joined, Gone, Freed
<1>2. Ways' /\ Way' = Way
  <2>1. CASE StopWorkers(t)
    BY <1>0, <2>1, WayStopped
  <2>2. CASE ~ StopWorkers(t)
    <3>1. UNCHANGED <<queues, taken>>
      BY <2>2 DEF Exit, WaitForCleanExit, Close, LinearMfree, CloseFiles, Joined
    <3> QED BY <1>0, <3>1, WaysSame
  <2> QED BY <2>1, <2>2
<1>3. Moves(t, p)
  BY <1>0, <1>1, GotoMoves DEF Goto
<1>4. Same
  BY <1>0, <1>1, <1>2, <1>3, QuietSame
<1>5. chunk[t] = Null
  BY <1>1 DEF Books, Inv, Busy, AtEnd
<1>6. p \in Gone => total' = 0
  BY <1>1 DEF Books, Through, Gone, transfers
<1>7. pc[t] = "idle" => ~ Closing
  BY <1>1 DEF Closing
<1>8. Goes(t, p)
  BY <1>0, <1>1, <1>2, <1>3, <1>5, <1>6, <1>7 DEF Goes, PcValues, Gone, Freed
<1> QED BY <1>2, <1>4, <1>8 DEF KeepsBooks, Effect

\* The arrive worker.
LEMMA ArriveBooks ==
    ASSUME Books, Poll \/ Lock \/ Unlock PROVE KeepsBooks(Arriver)
<1>0. Arriver \in Thread /\ Arriver \notin User /\ Typed /\ Ways
      /\ pc[Arriver] \in {"idle", "lock", "unlock"}
  BY AioAssumption DEF Thread, Books, Inv, Poll, Lock, Locks, Unlock
<1>1. PICK p \in {"lock", "stopped", "check", "idle"} :
         /\ Goto(Arriver, p) /\ mutex' \in {mutex, Arriver, NoThread}
         /\ UNCHANGED <<transfers, queues, taken, waiter, working, freed, chunk>>
  BY DEF Poll, Lock, Locks, Unlock
<1>2. Ways' /\ Way' = Way
  BY <1>0, <1>1, WaysSame
<1>3. Moves(Arriver, p)
  BY <1>0, <1>1, GotoMoves DEF Goto
<1>4. Same
  BY <1>0, <1>1, <1>2, <1>3, QuietSame
<1>5. Goes(Arriver, p)
  BY <1>0, <1>1, <1>2, <1>3 DEF Goes, PcValues
<1> QED BY <1>0, <1>2, <1>4, <1>5 DEF KeepsBooks, Effect

\* Submit workers and the kernel only move parts on.
LEMMA WorkerBooks ==
    ASSUME Books, Inv',
           \/ \E w \in Worker : Pop(w) \/ Submit(w)
           \/ \E p \in Part : Transferred(p)
           \/ UNCHANGED vars
    PROVE  Books'
<1>0. Ways /\ Typed
  BY DEF Books, Inv
<1>1. Ways' /\ Way' = Way
  BY <1>0, WayPopped, WaySubmitted, WayTransferred, WaysSame DEF vars
<1>2. /\ \A u \in Thread : pc'[u] = pc[u]
      /\ \A w \in Worker : pc'[w] \in {pc[w], "stopped"}
      /\ UNCHANGED <<transfers, mutex, waiter, working, freed, chunk>>
  <2>1. CASE \E w \in Worker : Pop(w)
    BY <1>0, <2>1, AioAssumption DEF Pop, Goto, Typed
  <2>2. CASE \E w \in Worker : Submit(w)
    BY <1>0, <2>2, AioAssumption DEF Submit, Typed
  <2>3. CASE \E p \in Part : Transferred(p)
    BY <1>0, <2>3, AioAssumption DEF Transferred, Typed
  <2>4. CASE UNCHANGED vars
    BY <1>0, <2>4, AioAssumption DEF vars, Typed
  <2> QED BY <2>1, <2>2, <2>3, <2>4
<1>3. User \subseteq Thread
  BY DEF Thread
<1>4. Same
  BY <1>1, <1>2, <1>3 DEF Same, Copiers, Counting
<1>5. Ledger' /\ CopyOrder'
  BY <1>4, SameBooks
<1>6. TimedForPart' /\ Alone' /\ Through' /\ FreedBy'
  BY <1>1, <1>2, <1>3
     DEF Books, TimedForPart, Alone, Through, FreedBy, Gone, Freed, transfers
<1>7. RestTyped'
  <2>1. \A u \in Thread \cup Worker : pc'[u] \in PcValues
    BY <1>2 DEF Books, RestTyped, PcValues
  <2>2. Arriver \in Thread
    BY DEF Thread
  <2> QED BY <1>2, <2>1, <2>2 DEF Books, RestTyped, PcValues
<1> QED BY <1>1, <1>5, <1>6, <1>7 DEF Books

LEMMA InitBooks == Init => Books
<1> SUFFICES ASSUME Init PROVE Books
  OBVIOUS
<1>1. Inv
  BY InitKeeps
<1>2. WayTyped
  BY EmptySeq DEF Init, WayTyped
<1>3. Queued = {} /\ Given = {} /\ kernel = {} /\ events = {} /\ Taken = {}
  BY DEF Init, Queued, Members, Given, Taken
<1>4. Apart
  BY <1>3 DEF Init, Apart, NoTwice
<1>5. Way = {} /\ \A c \in Chunk : WayOf(c) = {}
  BY <1>3 DEF Way, WayOf
<1>6. Copiers = {} /\ Counting = {} /\ \A c \in Chunk : Copying(c) = {}
  BY DEF Init, Copiers, Counting, Copying, Thread
<1>7. Ledger
  <2>1. Cardinality({}) = 0
    BY FS_EmptySet
  <2>2. ASSUME NEW c \in Chunk
        PROVE  /\ tracker[c] = Cardinality(WayOf(c)) + Cardinality(Copying(c))
               /\ status[c] \in Moving <=> tracker[c] > 0
    <3>1. Cardinality(WayOf(c)) = 0 /\ Cardinality(Copying(c)) = 0
      BY <1>5, <1>6, <2>1
    <3>2. tracker[c] = 0 /\ status[c] = "ALLOCATED"
      BY DEF Init
    <3>3. status[c] \notin Moving /\ ~ (tracker[c] > 0)
      BY <3>2 DEF Moving
    <3> QED BY <3>1, <3>2, <3>3
  <2>3. total = Cardinality(Way) + Cardinality(Copiers) + Cardinality(Counting)
    <3>1. Cardinality(Way) = 0 /\ Cardinality(Copiers) = 0 /\ Cardinality(Counting) = 0
      BY <1>5, <1>6, <2>1
    <3> QED BY <3>1 DEF Init
  <2> QED BY <2>2, <2>3 DEF Init, Ledger, Moving
<1>8. CopyOrder /\ TimedForPart /\ Alone /\ Through /\ FreedBy
  BY <1>6 DEF Init, CopyOrder, TimedForPart, Alone, Through, FreedBy, Gone, Freed, Thread
<1>9. RestTyped
  <2>1. Arriver \in Thread
    BY DEF Thread
  <2> QED BY <2>1 DEF Init, RestTyped, PcValues
<1> QED BY <1>1, <1>2, <1>4, <1>7, <1>8, <1>9 DEF Books, Ways

LEMMA NextBooks == Books /\ [Next]_vars => Books'
<1> SUFFICES ASSUME Books, [Next]_vars PROVE Books'
  OBVIOUS
<1>1. Inv'
  BY NextKeeps DEF Books
<1>2. User \subseteq Thread /\ Arriver \in Thread
  BY DEF Thread
<1>3. ASSUME NEW t \in Thread, CheckForAIO(t) PROVE Books'
  BY <1>1, <1>3, CheckBooks, EventsBooks, ArrivedBooks, StepBooks DEF CheckForAIO
<1>4. ASSUME NEW t \in User, Begin(t) \/ Join(t) \/ WakeUp(t) \/ Exit(t) \/ Continue(t)
      PROVE  Books'
  BY <1>1, <1>2, <1>3, <1>4, BeginBooks, CopyBooks, AwaitBooks, EndBooks, StepBooks DEF Continue
<1>5. CASE Arrive
  BY <1>1, <1>2, <1>3, <1>5, ArriveBooks, StepBooks DEF Arrive
<1> QED BY <1>1, <1>4, <1>5, WorkerBooks DEF Next, Ended

\* What the invariant says of the properties.
LEMMA BooksSay == Books => TypeOK /\ TransferCounted /\ ClosedQuiet
<1> SUFFICES ASSUME Books PROVE TypeOK /\ TransferCounted /\ ClosedQuiet
  OBVIOUS
<1>1. Inv /\ Typed /\ Ways /\ WayTyped /\ TakenAlone /\ Ledger /\ UnderWay = Way
  BY WaiterTakes, WayIs DEF Books, Inv, Ways
<1>2. \A c \in Chunk : tracker[c] \in Nat
  BY <1>1, BooksFinite DEF Ledger
<1>3. total \in Nat
  BY <1>1, BooksFinite DEF Ledger
<1>4. pc \in [Thread \cup Worker -> PcValues]
  BY <1>1 DEF Books, RestTyped, PcValues, Typed, PerThread
<1>5. TypeOK
  BY <1>1, <1>2, <1>3, <1>4
     DEF TypeOK, Books, RestTyped, PcValues, Typed, Ways, WayTyped, Ledger
<1>6. TransferCounted
  <2>1. \A p \in Part : \A x, y \in Places(p) : x = y
    BY <1>1, PlacedOnce
  <2> QED BY <1>1, <2>1 DEF TransferCounted, Ledger, WayOf, Copiers, Counting
<1>7. ClosedQuiet
  <2>1. SUFFICES ASSUME freed PROVE
           /\ Way = {} /\ \A c \in Chunk : status[c] \notin Moving
           /\ \A t \in Thread : pc[t] \notin {"copy", "timed", "count"}
           /\ \A i \in DOMAIN requests : requests[i] = Null
    BY <1>1 DEF ClosedQuiet
  <2>2. PICK u \in User : pc[u] \in Freed
    BY <2>1 DEF Books, FreedBy
  <2>3. Way = {} /\ Copiers = {} /\ Counting = {}
    BY <2>2, NothingCounted DEF Books, Through, Gone, Freed
  <2>4. ASSUME NEW c \in Chunk PROVE status[c] \notin Moving
    <3>1. WayOf(c) = {} /\ Copying(c) = {}
      BY <2>3 DEF WayOf, Copying, Copiers
    <3>2. tracker[c] = 0
      <4>1. Cardinality({}) = 0
        BY FS_EmptySet
      <4> QED BY <1>1, <3>1, <4>1 DEF Ledger
    <3> QED BY <1>1, <3>2 DEF Ledger
  <2>5. ASSUME NEW t \in Thread PROVE pc[t] \notin {"copy", "timed", "count"}
    <3>1. t = Arriver => pc[t] # "copy"
      <4>1. Arriver \in Thread \ User
        BY AioAssumption DEF Thread
      <4> QED BY <4>1 DEF Books, RestTyped
    <3> QED BY <2>3, <3>1 DEF Thread, Copiers, Counting, Books, TimedForPart
  <2>6. \A i \in DOMAIN requests : requests[i] = Null
    BY <2>3 DEF Way, Queued, Members
  <2> QED BY <2>3, <2>4, <2>5, <2>6
<1> QED BY <1>5, <1>6, <1>7
-----------------------------------------------------------------------------
\* The books of the file swap are right, whatever the threads, the kernel and the end of
\* the program do in whichever order (copyMem, asyncIoArrived, waitForCleanExit, close):
\* no part of a transfer is lost or there twice; the tracker of a chunk counts what is
\* left of its transfer, and the chunk is moving exactly as long; totalSwapActionsQueued
\* counts it all, so that close, which waits until it is zero, frees nothing in use.
THEOREM PartsCounted == Spec => [](TypeOK /\ TransferCounted /\ ClosedQuiet)
<1> QED BY InitBooks, NextBooks, BooksSay, PTL DEF Spec
=============================================================================
