----------------------------- MODULE CyclicRing -----------------------------
(***************************************************************************)
(* The scheduler of rambrain (cyclicManagedMemory): a doubly linked ring   *)
(* of all chunks, cut by three pointers.                                   *)
(*                                                                         *)
(*   active .......... counterActive   chunks in RAM, the latest used first*)
(*   counterActive ... preemptiveStart chunks that are swapped out         *)
(*   preemptiveStart . active          chunks read in on a guess           *)
(*                                                                         *)
(* Every scheduler operation is an operator from the scheduler's state to  *)
(* the next one, pointer by pointer.  They run under stateChangeMutex,     *)
(* which a thread in swapIn gives up only while ensureEnoughSpace waits    *)
(* for transfers: `lock' is the thread that goes on without giving it up.  *)
(* The pieces of the file swap the scheduler depends on are reduced to the *)
(* status of a chunk and whether it still owns a location (`cached').      *)
(***************************************************************************)
EXTENDS Integers, FiniteSets, Sequences, SequencesExt, FiniteSetsExt

CONSTANTS
    Thread, NoThread,
    User, Owner,        \* threads that use chunks; that allocate and free them
    Chunk, None,        \* chunks, each with its ring element; the null pointer
    Size,               \* chunk sizes in units of memoryAlignment
    MemoryMax,          \* memory_max, constant here
    SwapSize,           \* size of the swap
    SwapOutTarget,      \* swapOutFrac * memory_max
    MaxPreemptive,      \* ( swapInFrac - swapOutFrac ) * memory_max
    KeepFree,           \* ( 1. - swapInFrac ) * memory_max
    PreemptiveSwapIn,   \* preemtiveSwapIn
    PreemptiveSwapOut,  \* preemtiveSwapOut
    MaxFrees            \* bound of the model: how many chunks are ever freed

\* The bytes of a set of chunks: as many as there are pairs of one of them and a byte of it.
Bytes(S) == Cardinality(UNION {{c} \X (1..Size[c]) : c \in S})

ASSUME RingAssumption ==
    /\ IsFiniteSet(Thread) /\ User \cup Owner = Thread /\ NoThread \notin Thread
    /\ IsFiniteSet(Chunk) /\ None \notin Chunk
    /\ Size \in [Chunk -> Nat \ {0}]
    /\ {MemoryMax, SwapOutTarget, MaxPreemptive, KeepFree} \subseteq Nat
    /\ SwapSize \in Nat \ {0} /\ Bytes(Chunk) <= SwapSize   \* writes find room
    /\ {PreemptiveSwapIn, PreemptiveSwapOut} \subseteq BOOLEAN
    /\ MaxFrees \in Nat

VARIABLES
    sched,      \* the ring and the counters of cyclicManagedMemory
    status,     \* managedMemoryChunk::status
    useCnt,     \* managedMemoryChunk::useCnt
    cached,     \* chunks in RAM that still own a location in the page file
    freed,      \* how many chunks were freed
    leaked,     \* bytes counted in memory_used for chunks that are gone
    lock,       \* the thread that owns stateChangeMutex between two pieces
    pc, frame   \* per thread: where it is, and the locals of its call

vars == <<sched, status, useCnt, cached, freed, leaked, lock, pc, frame>>

Present == {"ALLOCATED", "INUSE", "SWAPIN"}
Outside == {"SWAPPED", "SWAPOUT"}
With(S) == {c \in Chunk : status[c] \in S}

\* memChunks, and the part of it that is registered with the scheduler: mfree takes a
\* chunk out before it waits for its transfer.
MemChunks  == {c \in Chunk : status[c] # "ABSENT"}
InDeletion == {frame[t].chunk : t \in {u \in Thread : pc[u] = "mfree"}}
Ring       == MemChunks \ InDeletion

memory_used      == Bytes(With(Present \cup {"SWAPOUT"})) + leaked
memory_tobefreed == Bytes(With({"SWAPOUT"}))
SwapFree         == SwapSize - Bytes(With(Outside \cup {"SWAPIN"}))

Larger(a, b)  == IF a > b THEN a ELSE b
Smaller(a, b) == IF a < b THEN a ELSE b
-----------------------------------------------------------------------------
(* The ring as a structure.                                                *)

EmptySched ==
    [next |-> [c \in Chunk |-> None], prev |-> [c \in Chunk |-> None],
     active |-> None, counterActive |-> None, preemptiveStart |-> None,
     loaded |-> {},          \* chunks flagged preemptiveLoaded
     preemptiveBytes |-> 0,
     consecutive |-> 0,      \* consecutivePreemptiveTransactions, up to 2
     sinceLast |-> 0]        \* preemptiveSinceLast, up to 2

\* MUTUAL_CONNECT of each element of a sequence with its successor.
Linked(s, q) ==
    LET pairs == {<<q[i], q[i + 1]>> : i \in 1..(Len(q) - 1)}
    IN  [s EXCEPT
          !.next = [c \in Chunk |-> IF \E p \in pairs : p[1] = c
                                    THEN (CHOOSE p \in pairs : p[1] = c)[2] ELSE @[c]],
          !.prev = [c \in Chunk |-> IF \E p \in pairs : p[2] = c
                                    THEN (CHOOSE p \in pairs : p[2] = c)[1] ELSE @[c]]]

\* The first n elements of the walk along prev from an element.
Backwards(s, from, n) ==
    LET w[i \in 1..n] == IF i = 1 THEN from ELSE s.prev[w[i - 1]]
    IN  [i \in 1..n |-> w[i]]

InsertBefore(s, pos, chain) ==
    IF chain = <<>> \/ pos = None THEN s
    ELSE Linked(Linked(s, <<s.prev[pos], Head(chain)>>), <<Last(chain), pos>>)

\* Those elements of a stretch that are in S, in its order.
Those(stretch, S) ==
    LET upTo[i \in 0..Len(stretch)] ==
            IF i = 0 THEN <<>>
            ELSE IF stretch[i] \in S THEN Append(upTo[i - 1], stretch[i]) ELSE upTo[i - 1]
    IN  upTo[Len(stretch)]

\* Takes the elements of S out of a stretch of the ring: what is left of the
\* stretch is linked with its surroundings (or to a ring), what was taken out
\* is a chain of its own, in its old order.
FilterChain(s, stretch, S) ==
    LET Closed(before, kept, after) ==
            IF after # Head(stretch) THEN <<before>> \o kept \o <<after>>
            ELSE IF kept # <<>> THEN Append(kept, Head(kept)) ELSE <<>>
        Relinked(before, kept, out, after) ==
            [sched |-> Linked(Linked([s EXCEPT !.prev[Head(stretch)] = None,
                                               !.next[Last(stretch)] = None], out),
                              Closed(before, kept, after)),
             kept |-> kept, out |-> out]
    IN  Relinked(s.prev[Head(stretch)], Those(stretch, Chunk \ S), Those(stretch, S),
                 s.next[Last(stretch)])

\* The element after c, unless the preemptive section ends there.
PreemptiveAfter(s, c) == IF s.next[c] = s.active THEN None ELSE s.next[c]

SchedulerRegister(s, c) ==
    IF s.active = None
    THEN [Linked(s, <<c, c>>) EXCEPT !.counterActive = c, !.active = c]
    ELSE [InsertBefore(s, s.active, <<c>>) EXCEPT
           !.counterActive = IF @ = s.active /\ status[s.active] \in Outside THEN c ELSE @,
           !.active = c]

Removed(s, c, border) ==
    LET Unflag(counted) == [s EXCEPT
            !.preemptiveBytes = IF counted THEN @ - Size[c] ELSE @,
            !.loaded = IF counted THEN @ \ {c} ELSE @,
            !.preemptiveStart = IF @ = c THEN PreemptiveAfter(s, c) ELSE @]
        Unlinked(u) ==
            IF s.next[c] = c
            THEN [u EXCEPT !.active = None, !.counterActive = None]
            ELSE [Linked(u, <<s.prev[c], s.next[c]>>) EXCEPT
                   !.active = IF @ = c THEN s.next[c] ELSE @, !.counterActive = border]
    IN  [Unlinked(Unflag(status[c] \notin Outside /\ c \in s.loaded)) EXCEPT
          !.next[c] = None, !.prev[c] = None]

\* Mutant: counterActive is left on the element that goes.
SchedulerDeleteKeepingBorder(s, c) == Removed(s, c, s.counterActive)

SchedulerDelete(s, c) ==
    Removed(s, c, IF s.counterActive = c THEN s.prev[c] ELSE s.counterActive)

\* A chunk that is used goes to the front of the ring.  It leaves the
\* preemptive section if it was in it.
Touch(s, c) ==
    LET Unflag(guessed) == [s EXCEPT
            !.consecutive = IF guessed THEN Smaller(@ + 1, 2) ELSE 0,
            !.preemptiveBytes = IF guessed THEN @ - Size[c] ELSE @,
            !.loaded = @ \ {c},
            !.preemptiveStart = IF @ = c THEN PreemptiveAfter(s, c) ELSE @]
        Pulled(u) == IF s.prev[s.active] = c THEN u
                     ELSE InsertBefore(Linked(u, <<s.prev[c], s.next[c]>>), s.active, <<c>>)
        InFront(u) == [Pulled(u) EXCEPT
            !.counterActive = IF @ = c THEN s.prev[c] ELSE @, !.active = c]
    IN  IF s.active = c THEN Unflag(c \in s.loaded) ELSE InFront(Unflag(c \in s.loaded))

\* One ring of all elements, and the three pointers in it: what checkCycle
\* asserts of the structure, and what the comment in swapIn hopes for.
RingWhole ==
    /\ Ring = {} <=> sched.active = None
    /\ Ring # {} =>
         /\ \A c \in Ring : sched.next[c] \in Ring /\ sched.prev[sched.next[c]] = c
         /\ Range(Backwards(sched, sched.active, Cardinality(Ring))) = Ring
         /\ sched.counterActive \in Ring
         /\ sched.preemptiveStart \in Ring \cup {None}

-----------------------------------------------------------------------------
(* swapOut: from counterActive backwards, whatever is in RAM and not used. *)

\* What the two walks of swapOut ( min ) select: sel[i] bytes in the first i
\* steps.  There are as many steps as memChunks has elements.
SwapOutWalk(min) ==
    LET target == Larger(min, memory_used - SwapOutTarget)
        quota == IF target > SwapFree THEN min ELSE target
        walk == Backwards(sched, sched.counterActive, Cardinality(MemChunks))
        Free(c, sel) == /\ sel < quota /\ sel + Size[c] <= SwapFree
                        /\ status[c] = "ALLOCATED" /\ useCnt[c] = 0
        sel[i \in 0..Len(walk)] ==
            IF i = 0 THEN 0
            ELSE IF Free(walk[i], sel[i - 1]) THEN sel[i - 1] + Size[walk[i]]
            ELSE sel[i - 1]
        picked == {i \in 1..Len(walk) : sel[i] # sel[i - 1]}
    IN  [quota |-> quota, bytes |-> sel[Len(walk)], picks |-> {walk[i] : i \in picked},
         passed |-> IF picked = {} THEN <<>> ELSE SubSeq(walk, 1, Max(picked))]

\* The stretch of the ring from one element to another, along next.
Stretch(s, from, to) ==
    LET w[i \in 1..Cardinality(Chunk)] == IF i = 1 THEN from ELSE s.next[w[i - 1]]
        hits == {i \in 1..Cardinality(Chunk) : w[i] = to}
    IN  [i \in 1..(IF hits = {} THEN Cardinality(Chunk) ELSE Min(hits)) |-> w[i]]

\* The first element of the flagged ones in front of active.
SectionStart(s) ==
    LET back == Backwards(s, s.active, Cardinality(Chunk))
        stops == {i \in 1..Len(back) : s.prev[back[i]] \notin s.loaded}
        cur == back[IF stops = {} THEN Len(back) ELSE Min(stops)]
    IN  IF cur = s.active THEN None ELSE cur

SteppedBack(s, w) ==
    LET act[i \in 0..Len(w.passed)] ==
            IF i = 0 THEN s.active
            ELSE IF act[i - 1] = w.passed[i] /\ w.passed[i] \in w.picks
                 THEN s.prev[act[i - 1]] ELSE act[i - 1]
    IN  [s EXCEPT !.active = act[Len(w.passed)]]

\* Mutant: preemptiveBytes is not reduced.
UnflaggedUncounted(s, w) == [SteppedBack(s, w) EXCEPT !.loaded = @ \ w.picks]

\* Chunks given up by the walk lose their flag, and active steps back from them.
Unflagged(s, w) ==
    [SteppedBack(s, w) EXCEPT !.loaded = @ \ w.picks,
                              !.preemptiveBytes = @ - Bytes(s.loaded \cap w.picks)]

\* The stretch the walk has passed is put in order again: chunks that are out
\* go behind those that are not.
Sorted(s, from, after, f) ==
    LET Before(pos) == InsertBefore(f.sched, pos, f.out)
        cyclic == after = from
    IN  IF f.kept = <<>> /\ cyclic
        THEN [Linked(f.sched, <<Last(f.out), Head(f.out)>>) EXCEPT !.counterActive = s.active]
        ELSE IF f.kept = <<>>
        THEN [Before(after) EXCEPT !.counterActive = s.prev[from]]
        ELSE [Before(IF cyclic THEN f.sched.next[Last(f.kept)] ELSE after) EXCEPT
               !.counterActive = Last(f.kept)]

ActiveMoved(s, picks) ==
    [s EXCEPT !.active = IF @ \in s.loaded THEN s.next[@]
                         ELSE IF status[@] \in Outside \/ @ \in picks THEN s.counterActive
                         ELSE @]

SectionReset(s) == [s EXCEPT !.preemptiveStart = SectionStart(s)]

\* The reordering after the swap has taken the picked chunks.
SwapOutReordered(w) ==
    LET Reordered(s, from, out) ==
            ActiveMoved(Sorted(s, from, s.next[s.counterActive],
                               FilterChain(s, Stretch(s, from, s.counterActive), out)),
                        w.picks)
        s == Reordered(Unflagged(sched, w), Last(w.passed), With(Outside) \cup w.picks)
    IN  IF sched.preemptiveStart \in w.picks THEN SectionReset(s) ELSE s

\* Mutant: the location of a chunk that is dropped stays in the cache.
UnloadKeepingCached(picks) ==
    /\ status' = [c \in Chunk |-> IF c \notin picks THEN status[c]
                                  ELSE IF c \in cached THEN "SWAPPED" ELSE "SWAPOUT"]
    /\ cached' = cached

\* managedFileSwap::swapOut of a set of chunks: a cached chunk is dropped at
\* once, for any other a write is started.
Unload(picks) ==
    /\ status' = [c \in Chunk |-> IF c \notin picks THEN status[c]
                                  ELSE IF c \in cached THEN "SWAPPED" ELSE "SWAPOUT"]
    /\ cached' = cached \ picks

\* cleanupCachedElements ( min ), a walk over memChunks: all for min = 0.
Cleanups(min) == {K \in SUBSET cached : K = cached \/ (min > 0 /\ Bytes(K) >= min)}

\* One call of swapOut; ok is whether it returns ERR_SUCCESS.
SwapOut(min, ok) ==
    LET w == SwapOutWalk(min)
    IN  IF min > MemoryMax
        THEN ok = FALSE /\ UNCHANGED <<sched, status, cached>>
        ELSE IF min > SwapFree
        THEN /\ ok = FALSE /\ UNCHANGED <<sched, status>>
             /\ \E K \in Cleanups(min - SwapFree) : cached' = cached \ K
        ELSE IF w.bytes = 0
        THEN ok = FALSE /\ UNCHANGED <<sched, status, cached>>
        ELSE ok = (w.bytes >= min) /\ sched' = SwapOutReordered(w) /\ Unload(w.picks)
-----------------------------------------------------------------------------
(* decay: guesses that were not used are given up again.                   *)

\* What decay selects, in the preemptive section from its start.
DecayWalk ==
    LET s       == sched
        goal    == Smaller(Smaller(s.preemptiveBytes, SwapFree),
                           2 * (MaxPreemptive - s.preemptiveBytes) + 1)
        limit   == Smaller(s.preemptiveBytes, SwapFree)
        section == Front(Stretch(s, s.preemptiveStart, s.active))
        sel[i \in 0..Len(section)] ==
            IF i = 0 THEN 0
            ELSE IF /\ sel[i - 1] < goal /\ sel[i - 1] + Size[section[i]] < limit
                    /\ status[section[i]] = "ALLOCATED" /\ useCnt[section[i]] = 0
                 THEN sel[i - 1] + Size[section[i]] ELSE sel[i - 1]
        steps   == Min({i \in 0..Len(section) : sel[i] >= goal} \cup {Len(section)})
    IN  [passed |-> SubSeq(section, 1, steps),
         picks  |-> {section[i] : i \in {j \in 1..steps : sel[j] # sel[j - 1]}},
         cur    |-> IF steps = Len(section) THEN s.active ELSE section[steps + 1]]

\* The section shrinks by what was given up, which goes in front of it.
Shrunk(w, s) ==
    LET Start(c) == IF c = sched.active THEN None ELSE c
        Moved(start, f) ==
            [InsertBefore(f.sched, start, f.out) EXCEPT !.preemptiveStart = Start(start)]
        Split(f) == Moved(f.sched.next[s.prev[s.preemptiveStart]], f)
    IN  IF Range(w.passed) \subseteq w.picks
        THEN [s EXCEPT !.preemptiveStart = Start(w.cur)]
        ELSE Split(FilterChain(s, Append(w.passed, w.cur), With(Outside) \cup w.picks))

\* Mutant: the flags of what was given up stay.
DecayedFlagged(w) == Shrunk(w, [sched EXCEPT !.preemptiveBytes = @ - Bytes(w.picks)])

Decayed(w) ==
    Shrunk(w, [sched EXCEPT !.loaded = @ \ w.picks, !.preemptiveBytes = @ - Bytes(w.picks)])
-----------------------------------------------------------------------------
(* swapIn with guesses: the chunk, and swapped ones behind it in the ring. *)

\* The walk goes backwards from the chunk to the old border, which is where
\* counterActive was when the call began, or until it has enough.  Without the
\* border in the ring it may not end.  Reordered is what it has passed, or the
\* whole ring when it ends where it begins, on the border.
WalkBack(t, room) ==
    LET c     == frame[t].chunk
        all   == Backwards(sched, c, Cardinality(Ring))
        known == {i \in 1..Len(all) : sched.prev[all[i]] = frame[t].border}
        len   == IF known = {} THEN Len(all) ELSE Min(known)
        Enough(v) == v.all >= frame[t].target \/ (v.all > 0 /\ v.guessed = room)
        vol[i \in 0..len] ==
            IF i = 0 THEN [all |-> 0, guessed |-> 0]
            ELSE LET v == vol[i - 1]
                     n == Size[all[i]]
                 IN  IF /\ ~ Enough(v) /\ status[all[i]] = "SWAPPED"
                        /\ v.all + n + memory_used <= MemoryMax
                        /\ (v.all = 0 \/ v.guessed + n <= room)
                     THEN [all |-> v.all + n,
                           guessed |-> IF v.all = 0 THEN 0 ELSE v.guessed + n]
                     ELSE v
        steps == Min({i \in 1..len : Enough(vol[i])} \cup {len})
        taken == {i \in 1..steps : vol[i] # vol[i - 1]}
    IN  [ends   |-> known # {} \/ Enough(vol[steps]),
         passed |-> IF steps = 1 /\ c = frame[t].border THEN all ELSE SubSeq(all, 1, steps),
         picks  |-> {all[i] : i \in taken},
         guesses |-> {all[i] : i \in {j \in taken : vol[j - 1].all > 0}},
         bytes |-> vol[steps].all]

\* Mutant: only the volume to read limits the guesses.
SwapInWalkUnlimited(t) == WalkBack(t, MemoryMax)

SwapInWalk(t) == WalkBack(t, MaxPreemptive - sched.preemptiveBytes)

\* The reordering after the reads were started: what is in RAM or on its way
\* there goes in front of active, the chunk that was asked for to the very front.
Flagged(s, c, w) ==
    [s EXCEPT !.loaded = (@ \cup w.guesses) \ (w.picks \ w.guesses),
              !.preemptiveBytes = @ + w.bytes - Size[c],
              !.sinceLast = Smaller(Cardinality(w.picks) - 1, 2),
              !.active = IF @ = c THEN s.next[@] ELSE @]

Inserted(s, cyclic, readEl, first, f) ==
    LET started == [s EXCEPT !.preemptiveStart = IF @ = None THEN first ELSE @]
    IN  IF ~ cyclic THEN InsertBefore(started, s.active, f.out)
        ELSE [IF f.kept # <<>> THEN InsertBefore(started, Head(f.kept), f.out)
              ELSE Linked(started, <<Last(f.out), Head(f.out)>>) EXCEPT !.counterActive = readEl]

SwapInReordered(c, w) ==
    LET Moved(s, f) ==
            Inserted(f.sched, s.next[c] = Last(w.passed), Last(w.passed),
                     IF f.out # <<>> /\ Head(f.out) \in s.loaded THEN Head(f.out) ELSE None, f)
        Split(s) == Moved(s, FilterChain(s, Reverse(w.passed), With(Present) \cup w.picks))
    IN  Touch(Split(Flagged(sched, c, w)), c)

\* counterActive must not be left on a swapped chunk.
BorderFixed(s, picks) ==
    IF status[s.counterActive] = "SWAPPED" /\ s.counterActive \notin picks
    THEN [s EXCEPT !.counterActive = s.active] ELSE s
-----------------------------------------------------------------------------
(* Threads.                                                                *)

Idle == [chunk |-> None, border |-> None, target |-> 0, cleaned |-> "no"]

Init ==
    /\ sched = EmptySched
    /\ status = [c \in Chunk |-> "ABSENT"]
    /\ useCnt = [c \in Chunk |-> 0]
    /\ cached = {} /\ freed = 0 /\ leaked = 0
    /\ lock = NoThread
    /\ pc = [t \in Thread |-> "idle"]
    /\ frame = [t \in Thread |-> Idle]

\* A broken ring is where the model ends: what the code does with it from there
\* on depends on dangling pointers.
At(t, p) == pc[t] = p /\ lock \in {NoThread, t} /\ RingWhole
Goto(t, p, holder) == pc' = [pc EXCEPT ![t] = p] /\ lock' = holder
SetFrame(t, f) == frame' = [frame EXCEPT ![t] = f]
Counts(c, n) == useCnt' = [useCnt EXCEPT ![c] = @ + n]
Wanted(c) == \E t \in Thread : frame[t].chunk = c

\* setUse: the use counts from the start, the pointer is granted in Grant.
SetUse(t, c) ==
    /\ t \in User /\ At(t, "idle") /\ c \in Ring
    /\ Counts(c, 1)
    /\ SetFrame(t, [Idle EXCEPT !.chunk = c])
    /\ Goto(t, "await", IF status[c] \in {"SWAPIN", "SWAPOUT"} THEN NoThread ELSE t)
    /\ UNCHANGED <<sched, status, cached, freed, leaked>>

\* The chunk is there: the end of setUse.
Grant(t) ==
    LET c == frame[t].chunk
    IN  /\ At(t, "await") /\ status[c] \in {"ALLOCATED", "INUSE"}
        /\ status' = [status EXCEPT ![c] = "INUSE"]
        /\ \E write \in BOOLEAN : cached' = IF write THEN cached \ {c} ELSE cached
        /\ sched' = Touch(sched, c)
        /\ Goto(t, "using", NoThread)
        /\ UNCHANGED <<useCnt, freed, leaked, frame>>

\* swapIn begins: decay if guesses are not used, and the border is remembered.
SwapInBegin(t) ==
    LET decays == /\ sched.preemptiveStart # None
                  /\ sched.consecutive = 2 \/ sched.sinceLast <= 1
        w == DecayWalk
        s == IF decays /\ w.passed # <<>> THEN Decayed(w) ELSE sched
    IN  /\ At(t, "await") /\ status[frame[t].chunk] = "SWAPPED"
        /\ IF decays THEN Unload(w.picks) ELSE UNCHANGED <<status, cached>>
        /\ sched' = [s EXCEPT !.consecutive = 0]
        /\ SetFrame(t, [frame[t] EXCEPT !.border = s.counterActive])
        /\ Goto(t, "plan", t)
        /\ UNCHANGED <<useCnt, freed, leaked>>

\* How much to read, and whether there is room for it.
SwapInPlan(t) ==
    LET n == Size[frame[t].chunk]
        target == n + MaxPreemptive - sched.preemptiveBytes
        preemptive == PreemptiveSwapIn /\ SwapFree * 100 > SwapSize
    IN  /\ At(t, "plan")
        /\ SetFrame(t, [frame[t] EXCEPT !.target = IF preemptive THEN target ELSE n])
        /\ Goto(t, IF ~ preemptive THEN "plain"
                   ELSE IF target + memory_used > MemoryMax THEN "evict" ELSE "read", t)
        /\ UNCHANGED <<sched, status, useCnt, cached, freed, leaked>>

\* Room for the chunk and for guesses, or else for the chunk alone.
SwapInEvict(t) ==
    LET n == Size[frame[t].chunk]
        target == n + (MemoryMax - SwapOutTarget) - sched.preemptiveBytes
    IN  /\ At(t, "evict")
        /\ \E ok \in BOOLEAN :
              /\ SwapOut(target, ok)
              /\ SetFrame(t, [frame[t] EXCEPT !.target = IF ok THEN target ELSE n])
        /\ Goto(t, "room", t)
        /\ UNCHANGED <<useCnt, freed, leaked>>

\* ensureEnoughSpace, one turn of its loop.  The mutex is given up when there is
\* something to wait for.
Rooms == {"room", "plain", "mmalloc"}

RoomFound(t) ==
    /\ pc[t] \in {"room", "plain"} /\ At(t, pc[t]) /\ frame[t].cleaned # "now"
    /\ \/ /\ status[frame[t].chunk] \in Present
          /\ Goto(t, "await", NoThread)
       \/ /\ status[frame[t].chunk] \notin Present
          /\ frame[t].target + memory_used <= MemoryMax
          /\ Goto(t, IF pc[t] = "room" THEN "read" ELSE "readPlain", t)
    /\ UNCHANGED <<sched, status, useCnt, cached, freed, leaked, frame>>

\* Throw: mmalloc leaves nothing behind, a use stays counted.
GivesUp(t) ==
    IF pc[t] = "mmalloc" THEN SetFrame(t, Idle) /\ Goto(t, "idle", NoThread)
    ELSE Goto(t, "thrown", NoThread) /\ UNCHANGED frame

RoomMade(t) ==
    LET missing == frame[t].target + memory_used - MemoryMax
    IN  /\ pc[t] \in Rooms /\ At(t, pc[t]) /\ frame[t].cleaned # "now"
        /\ status[frame[t].chunk] \notin Present
        /\ missing > memory_tobefreed
        /\ UNCHANGED <<useCnt, freed, leaked>>
        /\ IF sched.counterActive = None THEN GivesUp(t) /\ UNCHANGED <<sched, status, cached>>
           ELSE \E ok \in BOOLEAN :
              /\ SwapOut(missing - memory_tobefreed, ok)
              /\ IF ok \/ memory_tobefreed' # 0
                 THEN /\ Goto(t, pc[t], IF frame[t].target + memory_used' > MemoryMax
                                        THEN NoThread ELSE t)
                      /\ UNCHANGED frame
                 ELSE IF frame[t].cleaned = "no"
                 THEN /\ SetFrame(t, [frame[t] EXCEPT !.cleaned = "now"])
                      /\ Goto(t, pc[t], t)
                 ELSE GivesUp(t)

RoomAwaited(t) ==
    LET missing == frame[t].target + memory_used - MemoryMax
    IN  /\ pc[t] \in Rooms /\ At(t, pc[t]) /\ lock = t /\ frame[t].cleaned # "now"
        /\ status[frame[t].chunk] \notin Present
        /\ missing > 0 /\ missing <= memory_tobefreed
        /\ Goto(t, pc[t], NoThread)
        /\ UNCHANGED <<sched, status, useCnt, cached, freed, leaked, frame>>

CacheCleaned(t) ==
    /\ lock = t /\ frame[t].cleaned = "now"
    /\ cached' = {}
    /\ SetFrame(t, [frame[t] EXCEPT !.cleaned = "yes"])
    /\ UNCHANGED <<sched, status, useCnt, freed, leaked, lock, pc>>

\* The rest of swapIn, with guesses.
SwapInRead(t) ==
    LET c == frame[t].chunk
        w == SwapInWalk(t)
    IN  /\ At(t, "read") /\ w.ends
        /\ status' = [d \in Chunk |-> IF d \in w.picks THEN "SWAPIN" ELSE status[d]]
        /\ sched' = BorderFixed(SwapInReordered(c, w), w.picks)
        /\ Goto(t, "await", NoThread)
        /\ UNCHANGED <<useCnt, cached, freed, leaked, frame>>

\* The border is not in the ring any more, and the walk goes round for ever or
\* picks chunks a second time: the thread is lost, with the mutex.
SwapInLost(t) ==
    /\ At(t, "read") /\ ~ SwapInWalk(t).ends
    /\ Goto(t, "lost", t)
    /\ UNCHANGED <<sched, status, useCnt, cached, freed, leaked, frame>>

\* swapIn of the chunk alone, when the swap is nearly full.
SwapInPlain(t) ==
    LET c == frame[t].chunk
    IN  /\ At(t, "readPlain")
        /\ status' = [status EXCEPT ![c] = "SWAPIN"]
        /\ sched' = BorderFixed(Touch(sched, c), {c})
        /\ Goto(t, "await", NoThread)
        /\ UNCHANGED <<useCnt, cached, freed, leaked, frame>>

\* unsetUse, and untouch where it makes room ahead of demand.
UnsetUse(t) ==
    LET c == frame[t].chunk
    IN  /\ At(t, "using")
        /\ Counts(c, -1)
        /\ status' = [status EXCEPT ![c] = IF useCnt[c] = 1 THEN "ALLOCATED" ELSE @]
        /\ SetFrame(t, Idle)
        /\ IF PreemptiveSwapOut THEN Goto(t, "untouch", t) ELSE Goto(t, "idle", NoThread)
        /\ UNCHANGED <<sched, cached, freed, leaked>>

Untouch(t) ==
    LET free == MemoryMax - memory_used + memory_tobefreed
        desired == KeepFree + IF PreemptiveSwapIn
                              THEN MaxPreemptive - sched.preemptiveBytes ELSE 0
    IN  /\ At(t, "untouch")
        /\ IF free < desired THEN \E ok \in BOOLEAN : SwapOut(desired - free, ok)
           ELSE UNCHANGED <<sched, status, cached>>
        /\ Goto(t, "idle", NoThread)
        /\ UNCHANGED <<useCnt, freed, leaked, frame>>
-----------------------------------------------------------------------------
(* Chunks come and go, transfers end.                                      *)

\* mmalloc asks for room first, and leaves nothing behind when there is none.
Mmalloc(t, c) ==
    /\ t \in Owner /\ At(t, "idle") /\ status[c] = "ABSENT" /\ ~ Wanted(c)
    /\ SetFrame(t, [Idle EXCEPT !.chunk = c, !.target = Size[c]])
    /\ Goto(t, "mmalloc", t)
    /\ UNCHANGED <<sched, status, useCnt, cached, freed, leaked>>

Registers(t, c) ==
    /\ status' = [status EXCEPT ![c] = "ALLOCATED"]
    /\ sched' = Touch(SchedulerRegister(sched, c), c)
    /\ Goto(t, "idle", NoThread) /\ SetFrame(t, Idle)
    /\ UNCHANGED <<useCnt, cached, freed, leaked>>

\* Mutant: memory still being written out counts as free already.
MmallocUnchecked(t) ==
    /\ At(t, "mmalloc") /\ frame[t].cleaned # "now"
    /\ memory_used - memory_tobefreed + Size[frame[t].chunk] <= MemoryMax
    /\ Registers(t, frame[t].chunk)

MmallocDone(t) ==
    /\ At(t, "mmalloc") /\ frame[t].cleaned # "now"
    /\ memory_used + Size[frame[t].chunk] <= MemoryMax
    /\ Registers(t, frame[t].chunk)

\* mfree of a chunk nobody uses or waits for.  With a transfer under way the
\* chunk is out of the ring, but waits in pffree; until then it is in memChunks.
Mfree(t, c) ==
    /\ t \in Owner /\ freed < MaxFrees /\ At(t, "idle") /\ c \in Ring /\ ~ Wanted(c) /\ useCnt[c] = 0
    /\ sched' = SchedulerDelete(sched, c)
    /\ cached' = cached \ {c}
    /\ IF status[c] \in {"SWAPIN", "SWAPOUT"}
       THEN /\ Goto(t, "mfree", NoThread) /\ SetFrame(t, [Idle EXCEPT !.chunk = c])
            /\ UNCHANGED status
       ELSE /\ status' = [status EXCEPT ![c] = "ABSENT"]
            /\ UNCHANGED <<lock, pc, frame>>
    /\ freed' = freed + 1
    /\ UNCHANGED <<useCnt, leaked>>

\* The transfer is over.  The bytes of a chunk that was being read stay in
\* memory_used for good.
MfreeDone(t) ==
    LET c == frame[t].chunk
    IN  /\ At(t, "mfree") /\ status[c] \in {"ALLOCATED", "SWAPPED"}
        /\ status' = [status EXCEPT ![c] = "ABSENT"]
        /\ leaked' = IF status[c] = "ALLOCATED" THEN leaked + Size[c] ELSE leaked
        /\ cached' = cached \ {c}
        /\ Goto(t, "idle", NoThread) /\ SetFrame(t, Idle)
        /\ UNCHANGED <<sched, useCnt, freed>>

\* completeTransactionOn.
Arrive(c) ==
    /\ lock = NoThread /\ RingWhole
    /\ status[c] \in {"SWAPIN", "SWAPOUT"}
    /\ status' = [status EXCEPT ![c] =
                    IF @ = "SWAPOUT" THEN "SWAPPED"
                    ELSE IF useCnt[c] = 0 THEN "ALLOCATED" ELSE "INUSE"]
    /\ cached' = IF status[c] = "SWAPIN" THEN cached \cup {c} ELSE cached
    /\ UNCHANGED <<sched, useCnt, freed, leaked, lock, pc, frame>>

Next ==
    \/ \E t \in Thread :
          \/ \E c \in Chunk : SetUse(t, c) \/ Mmalloc(t, c) \/ Mfree(t, c)
          \/ Grant(t) \/ UnsetUse(t) \/ Untouch(t)
          \/ SwapInBegin(t) \/ SwapInPlan(t) \/ SwapInEvict(t)
          \/ RoomFound(t) \/ RoomMade(t) \/ RoomAwaited(t) \/ CacheCleaned(t)
          \/ SwapInRead(t) \/ SwapInLost(t) \/ SwapInPlain(t)
          \/ MmallocDone(t) \/ MfreeDone(t)
    \/ \E c \in Chunk : Arrive(c)

Spec == Init /\ [][Next]_vars
-----------------------------------------------------------------------------
(* Properties.                                                             *)

\* The types; a location is kept only for a chunk that is in RAM.
TypeOK ==
    /\ sched.next \in [Chunk -> Chunk \cup {None}]
    /\ sched.prev \in [Chunk -> Chunk \cup {None}]
    /\ {sched.active, sched.counterActive, sched.preemptiveStart} \subseteq Chunk \cup {None}
    /\ status \in [Chunk -> Present \cup Outside \cup {"ABSENT"}]
    /\ useCnt \in [Chunk -> 0..Cardinality(Thread)]
    /\ cached \subseteq With({"ALLOCATED", "INUSE"})

\* preemptiveBytes, from which every later budget of guesses is computed, is
\* the size of the chunks flagged preemptiveLoaded, wherever they were flagged
\* (swapIn), used (touch), thrown out (swapOut, decay) or freed.
GuessesCounted == sched.preemptiveBytes = Bytes(sched.loaded)

\* The guesses of all calls together stay within ( swapInFrac - swapOutFrac ) of
\* memory_max: the subtractions from it, which are unsigned, never wrap.
GuessesBounded == sched.preemptiveBytes \in 0..MaxPreemptive

\* No chunk keeps its flag when it has left RAM, by swapOut, decay or mfree.
GuessesInRam == sched.loaded \cap With(Outside \cup {"ABSENT"}) = {}

\* memory_used stays within memory_max with two threads in ensureEnoughSpace,
\* guesses on top of what was asked for, and the mutex given up in between.
BudgetKept == memory_used <= MemoryMax

\* What swapIn reorders behind the chunk is swapped, and active is not in it:
\* what the code's comment takes for granted.
InSwapped(t) == \A x \in Range(Tail(SwapInWalk(t).passed)) :
    status[x] \in Outside /\ x # sched.active

\* Every operation keeps the ring whole, with all elements in it, except for
\* swapIn where its walk leaves the swapped section or reaches active, and decay
\* where active itself is out of RAM (see RingWhole and the run ring_broken).
RingKept == [][\/ RingWhole'
               \/ \E t \in Thread : lock \in {NoThread, t} /\
                    \/ pc[t] = "read" /\ ~ InSwapped(t)
                    \/ pc[t] = "await" /\ status[sched.active] \in Outside]_vars
=============================================================================
